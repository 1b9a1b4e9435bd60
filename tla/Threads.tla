-------------------------------- MODULE Threads ------------------------------
(***************************************************************************)
(* Reading a thread (threadreader): a messenger hands over the posts of a  *)
(* thread in any order and some of them twice; the assembler makes of them *)
(* one complete post, a root and its organic replies, and collects its     *)
(* hashtags.                                                               *)
(*                                                                         *)
(* Ids and timestamps are integers, ordered as the code's strings and      *)
(* seconds are.  A text is a sequence of runes.                            *)
(***************************************************************************)
EXTENDS Integers, Sequences, FiniteSets, SequencesExt

CONSTANTS
    PostIds,
    Messages,        \* the threads: id -> [id, parent, author, ts]
    SystemAuthors,   \* authors whose replies are the system's own
    Runes, TagChars, \* characters, and those that may be in a tag
    Text,            \* by post id: its text
    MaxFeed          \* bound: posts the source delivers

ASSUME ThreadsAssumption ==
    /\ PostIds \subseteq Nat \ {0} /\ MaxFeed \in Nat
    /\ \A w \in Messages : DOMAIN w = PostIds /\ \A i \in PostIds : w[i].id = i /\ w[i].ts \in Int
    /\ "#" \notin TagChars /\ Text \in [PostIds -> Seq(Runes)]

VARIABLES
    posted,    \* the messenger's thread
    fetched,   \* what FetchThread returns: posts in order of arrival
    thread     \* what Read returns: [root, replies] or an error

threadVars == <<posted, fetched, thread>>

NoParent == 0
Failed(error) == [root |-> 0, replies |-> <<>>, error |-> error]

ThreadsInit ==
    /\ posted \in Messages /\ fetched = <<>> /\ thread = Failed("no_posts")

----------------------------------------------------------------------------
(* The assembler.                                                          *)

KeepFirst(kept, p) == IF \E i \in DOMAIN kept : kept[i].id = p.id THEN kept ELSE Append(kept, p)
Dedupe(posts) == FoldLeft(KeepFirst, <<>>, posts)

isRootPost(p) == p.parent \in {NoParent, p.id}
EarlierOnly(a, b) == a.ts < b.ts
rootLess(a, b) == a.ts < b.ts \/ (a.ts = b.ts /\ a.id < b.id)

NoRoot == [id |-> 0]
BetterRoot(best, p) == IF isRootPost(p) /\ (best.id = 0 \/ rootLess(p, best)) THEN p ELSE best
FirstRoot(posts) == FoldLeft(BetterRoot, NoRoot, posts)

IsSystemAuthor(p) == p.author \in SystemAuthors
KeepOrganic(root, out, p) == IF p.id = root.id \/ IsSystemAuthor(p) THEN out ELSE Append(out, p)
Organic(posts, root) == FoldLeft(LAMBDA out, p : KeepOrganic(root, out, p), <<>>, posts)

(* sort.Slice: the posts, so placed that none is less than one before it.  *)
Chronological(posts) ==
    LET at == CHOOSE at \in [DOMAIN posts -> DOMAIN posts] : \A i, j \in DOMAIN posts :
                 i < j => at[i] # at[j] /\ ~rootLess(posts[at[j]], posts[at[i]])
    IN [i \in DOMAIN posts |-> posts[at[i]]]

Assemble(posts) ==
    LET deduped == Dedupe(posts)
        root    == FirstRoot(deduped)
        replies == Chronological(Organic(deduped, root))
    IN IF posts = <<>> THEN Failed("no_posts")
       ELSE IF root = NoRoot THEN Failed("missing_root")
       ELSE [root |-> root.id, replies |-> [i \in DOMAIN replies |-> replies[i].id], error |-> "none"]

(* The source delivers one more post, old or new, and the thread is read;  *)
(* or it fails.                                                            *)
Read ==
    /\ \/ /\ Len(fetched) < MaxFeed
          /\ \E i \in PostIds : fetched' = Append(fetched, posted[i])
          /\ thread' = Assemble(fetched')
       \/ thread' = Failed("not_fetched") /\ UNCHANGED fetched
    /\ UNCHANGED posted

ThreadsNext == Read

ThreadsSpec == ThreadsInit /\ [][ThreadsNext]_threadVars

----------------------------------------------------------------------------
(* Hashtags.                                                               *)

isTagChar(r) == r \in TagChars
(* The last tag character in a row after the rune at i.                    *)
TagEnd(text, i) == LET stops == {j \in i + 1 .. Len(text) : ~isTagChar(text[j])}
                   IN IF stops = {} THEN Len(text) ELSE (CHOOSE j \in stops : \A k \in stops : j <= k) - 1
AddTag(out, t) == IF \E i \in DOMAIN out : out[i] = t THEN out ELSE Append(out, t)

(* One rune of the scan; at is the rune it looks at next.                  *)
Scan(text, st, i) ==
    IF i < st.at \/ text[i] # "#" \/ (i > 1 /\ isTagChar(text[i - 1])) THEN st
    ELSE LET j == TagEnd(text, i) IN
         [at |-> j + 1, tags |-> IF j > i THEN AddTag(st.tags, SubSeq(text, i + 1, j)) ELSE st.tags]
ScanStart == [at |-> 1, tags |-> <<>>]
Places(text) == [i \in DOMAIN text |-> i]
ExtractHashtags(text) == FoldLeft(LAMBDA st, i : Scan(text, st, i), ScanStart, Places(text)).tags

Chain == IF thread.error = "none" THEN <<thread.root>> \o thread.replies ELSE <<>>
AddTags(out, tags) == FoldLeft(AddTag, out, tags)
HashtagsOf(ids) == FoldLeft(LAMBDA out, id : AddTags(out, ExtractHashtags(Text[id])), <<>>, ids)
Hashtags == HashtagsOf(Chain)

----------------------------------------------------------------------------
ThreadsTypeOK ==
    /\ fetched \in Seq({posted[i] : i \in PostIds})
    /\ thread \in [root : PostIds \cup {0}, replies : Seq(PostIds),
                   error : {"none", "no_posts", "missing_root", "not_fetched"}]

(* A tag: a # that no tag character precedes, and every tag character      *)
(* after it.                                                               *)
TagsIn(text) ==
    {SubSeq(text, be[1] + 1, be[2]) : be \in {be \in (1 .. Len(text)) \X (1 .. Len(text)) :
        /\ text[be[1]] = "#" /\ (be[1] > 1 => ~isTagChar(text[be[1] - 1])) /\ be[1] < be[2]
        /\ \A k \in be[1] + 1 .. be[2] : isTagChar(text[k])
        /\ be[2] < Len(text) => ~isTagChar(text[be[2] + 1])}}

(* The thread depends on which posts were delivered, never on the order or *)
(* on how often: the root is the earliest post without a parent, the       *)
(* replies are the other posts of people, each once and in the order of    *)
(* time, and its hashtags are those of the root and of these replies.      *)
Assembled ==
    LET seen  == {fetched[i] : i \in DOMAIN fetched}
        roots == {p \in seen : p.parent = NoParent \/ p.parent = p.id}
        Precedes(p, q) == p.ts < q.ts \/ (p.ts = q.ts /\ p.id < q.id)
        reply(i) == posted[thread.replies[i]]
    IN /\ thread.error # "not_fetched" =>
            /\ (thread.error = "no_posts") <=> (seen = {})
            /\ (thread.error = "missing_root") <=> (seen # {} /\ roots = {})
       /\ thread.error = "none" =>
            /\ posted[thread.root] \in roots
            /\ \A p \in roots : p.id = thread.root \/ Precedes(posted[thread.root], p)
            /\ {reply(i) : i \in DOMAIN thread.replies} =
                 {p \in seen : p.id # thread.root /\ p.author \notin SystemAuthors}
            /\ \A i, j \in DOMAIN thread.replies : i < j => Precedes(reply(i), reply(j))
            /\ Cardinality(ToSet(Hashtags)) = Len(Hashtags)
            /\ ToSet(Hashtags) = UNION {TagsIn(Text[Chain[i]]) : i \in DOMAIN Chain}
=============================================================================
