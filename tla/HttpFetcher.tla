----------------------------- MODULE HttpFetcher -----------------------------
(***************************************************************************)
(* The HTTP fetcher of the download manager (http_fetcher.go): a probe     *)
(* chooses between resuming the persisted state and starting fresh, one    *)
(* goroutine per incomplete segment writes into the shared .part file, the *)
(* progress is persisted through one .tmp file outside the lock, and a     *)
(* finished file is checked and renamed.  The process may be killed        *)
(* between any two steps; the files survive.                               *)
(*                                                                         *)
(* A block is what one Read returns.  A block of data is known by the      *)
(* version of the resource it comes from and its place there.              *)
(***************************************************************************)
EXTENDS Integers, Sequences, FiniteSets

CONSTANTS
    Size,          \* blocks of the resource
    Segments,      \* FetchRequest.Segments
    Servers,       \* the kinds of server and request to consider
    PersistEvery,  \* maybePersist persists at every 16th block
    MaxVersions,   \* bound: contents the resource goes through
    MaxFetches,    \* bound: calls of Fetch
    MaxKills       \* bound: kills of the process

ASSUME FetcherAssumption ==
    /\ Size \in Nat \ {0} /\ Segments \in Nat \ {0} /\ PersistEvery \in Nat \ {0}
    /\ MaxVersions \in Nat \ {0} /\ MaxFetches \in Nat /\ MaxKills \in Nat

VARIABLES
    server,    \* how the server behaves, and whether the caller knows the checksum
    content,   \* the version the server serves now
    part,      \* the .part file
    saved,     \* what loadState finds in .dlstate: at most one state
    tmp,       \* the .dlstate.tmp file
    dest,      \* the file at DestPath
    fetch,     \* where Fetch is
    st,        \* httpSession.st
    seg,       \* the goroutines of run, one per segment
    writer,    \* the calls of persist, by goroutine; 0 is Fetch itself
    tick,      \* chunkTick, modulo PersistEvery
    fetches, kills

diskVars == <<part, saved, tmp, dest>>
runVars == <<st, seg, writer, tick>>
serverVars == <<server, content, fetches, kills>>
fetcherVars == <<diskVars, runVars, serverVars, fetch>>

(* `whole' servers answer a range with exactly that range; others may end  *)
(* a body early without an error, or answer 200 with the whole resource.   *)
(* `steady' ones never change the content.                                 *)
ServerKinds == [ranges : BOOLEAN, sized : BOOLEAN, etag : BOOLEAN, whole : BOOLEAN,
                steady : BOOLEAN, checksum : BOOLEAN]
ASSUME ServersAssumption == Servers \subseteq ServerKinds

Places   == 0 .. Size - 1
Versions == 1 .. MaxVersions
Hole     == <<0, 0>>
Data     == {Hole} \cup (Versions \X Places)
NoFile   == [exists |-> FALSE, data |-> [b \in Places |-> Hole], long |-> FALSE]
Files    == [exists : BOOLEAN, data : [Places -> Data], long : BOOLEAN]
Content(v) == [exists |-> TRUE, data |-> [b \in Places |-> <<v, b>>], long |-> FALSE]

SegStates == [start : Nat, end : {-1} \cup Nat, done : Nat]
DlStates  == [size : {-1, Size}, etag : {0} \cup Versions, ranges : BOOLEAN,
              segs : Seq(SegStates)]

(* What the probe learns: Size -1 for an unknown length, etag 0 for none.  *)
Info == [size   |-> IF server.sized THEN Size ELSE -1,
         ranges |-> server.ranges,
         etag   |-> IF server.etag THEN content ELSE 0]

CompleteUpToOne(s) == s.end >= 0 /\ s.done >= s.end - s.start
Complete(s) == s.end >= 0 /\ s.done >= s.end - s.start + 1

Matches(s, info) ==
    /\ s.size = info.size
    /\ s.ranges = info.ranges
    /\ s.etag = info.etag \/ s.etag = 0 \/ info.etag = 0

Chunk == (Size + Segments - 1) \div Segments
Split == [i \in 1 .. (Size + Chunk - 1) \div Chunk |->
            [start |-> (i - 1) * Chunk,
             end   |-> IF i * Chunk >= Size THEN Size - 1 ELSE i * Chunk - 1,
             done  |-> 0]]

NewState(info) ==
    [size |-> info.size, etag |-> info.etag, ranges |-> info.ranges,
     segs |-> IF info.ranges /\ info.size > 0 /\ Segments > 1
              THEN Split
              ELSE <<[start |-> 0, end |-> IF info.size > 0 THEN info.size - 1 ELSE -1,
                      done |-> 0]>>]

Idle    == [at |-> "off", pos |-> 0, src |-> 0, last |-> 0]
NoWrite == [at |-> "off", snap |-> {}, fd |-> "gone"]
Writers == 0 .. Segments
NoState == [size |-> -1, etag |-> 0, ranges |-> FALSE, segs |-> <<>>]
NoSegs   == [i \in 1 .. Segments |-> Idle]
NoWrites == [w \in Writers |-> NoWrite]

(* Fetch returns, or its process dies: its variables are gone.             *)
Return ==
    /\ fetch' = "idle" /\ st' = NoState /\ tick' = 0
    /\ seg' = NoSegs /\ writer' = NoWrites

FetcherInit ==
    /\ server \in Servers /\ content = 1
    /\ part = NoFile /\ dest = NoFile
    /\ saved = {} /\ tmp = [exists |-> FALSE, holds |-> {}]
    /\ fetch = "idle" /\ st = NoState /\ tick = 0
    /\ seg = NoSegs /\ writer = NoWrites
    /\ fetches = 0 /\ kills = 0

----------------------------------------------------------------------------
(* Fetch up to the start of the segments.                                  *)

CallFetch ==
    /\ fetch = "idle" /\ fetches < MaxFetches
    /\ fetches' = fetches + 1
    /\ fetch' = "probe"
    /\ UNCHANGED <<diskVars, runVars, server, content, kills>>

(* The probe fails, with a retryable or a permanent error.                 *)
ProbeFails ==
    /\ fetch = "probe"
    /\ Return
    /\ UNCHANGED <<diskVars, serverVars>>

Resumable(info) == {s \in saved : Matches(s, info) /\ info.ranges}

Probe ==
    /\ fetch = "probe"
    /\ st' = IF Resumable(Info) # {} THEN CHOOSE s \in Resumable(Info) : TRUE
                                     ELSE NewState(Info)
    /\ tick' = 0
    /\ part' = [part EXCEPT !.exists = TRUE]
    /\ fetch' = IF Resumable(Info) = {} THEN "forget" ELSE "run"
    /\ UNCHANGED <<saved, tmp, dest, seg, writer, serverVars>>

(* os.Remove of the state, before the data it speaks of is truncated.      *)
ForgetState ==
    /\ fetch = "forget"
    /\ saved' = {}
    /\ fetch' = "truncate"
    /\ UNCHANGED <<part, tmp, dest, runVars, serverVars>>

Truncate ==
    /\ fetch = "truncate"
    /\ part' = [part EXCEPT !.long = FALSE,
                            !.data = IF st.size > 0 THEN @ ELSE NoFile.data]
    /\ fetch' = "run"
    /\ UNCHANGED <<saved, tmp, dest, runVars, serverVars>>

StartSegments ==
    /\ fetch = "run"
    /\ seg' = [i \in 1 .. Segments |->
                 IF i <= Len(st.segs) /\ ~Complete(st.segs[i])
                 THEN [Idle EXCEPT !.at = "request"] ELSE Idle]
    /\ fetch' = "wait"
    /\ UNCHANGED <<diskVars, st, writer, tick, serverVars>>

----------------------------------------------------------------------------
(* runSegment.                                                             *)

SegmentGoes(i, at) == seg' = [seg EXCEPT ![i].at = at]
From(i) == st.segs[i].start + st.segs[i].done

(* The answer to the request: the rest of the segment, or, from a server   *)
(* that ignores ranges, the whole resource, written from the same offset.  *)
Answered(i, src, last) ==
    seg' = [seg EXCEPT ![i] = [at |-> "read", pos |-> From(i), src |-> src, last |-> last]]

Respond(i) ==
    /\ fetch = "wait" /\ seg[i].at = "request"
    /\ LET end == st.segs[i].end IN
       \/ /\ st.ranges /\ end >= 0
          /\ Answered(i, From(i), end)
       \/ /\ st.ranges /\ end < 0
          /\ IF From(i) < Size THEN Answered(i, From(i), Size - 1)
                               ELSE SegmentGoes(i, "failed")        \* 416
       \/ /\ ~st.ranges \/ ~server.whole        \* 200, also to a range
          /\ Answered(i, 0, Size - 1)
    /\ UNCHANGED <<diskVars, st, writer, tick, fetch, serverVars>>

(* The connection breaks, the status is an error, or the context of the    *)
(* caller or of another segment's failure is cancelled.                    *)
SegmentFails(i) ==
    /\ fetch = "wait" /\ seg[i].at \in {"request", "read"}
    /\ SegmentGoes(i, "failed")
    /\ UNCHANGED <<diskVars, st, writer, tick, fetch, serverVars>>

(* Read, then WriteAt.                                                     *)
WriteBlock(i) ==
    /\ fetch = "wait" /\ seg[i].at = "read" /\ seg[i].src <= seg[i].last
    /\ part' = IF seg[i].pos \in Places
               THEN [part EXCEPT !.data[seg[i].pos] = <<content, seg[i].src>>]
               ELSE [part EXCEPT !.long = TRUE]
    /\ seg' = [seg EXCEPT ![i].pos = @ + 1, ![i].src = @ + 1, ![i].at = "commit"]
    /\ UNCHANGED <<saved, tmp, dest, st, writer, tick, fetch, serverVars>>

(* Done = off - start under mu, then maybePersist.                         *)
CommitOneMore(i) ==
    /\ fetch = "wait" /\ seg[i].at = "commit"
    /\ st' = [st EXCEPT !.segs[i].done = seg[i].pos - st.segs[i].start + 1]
    /\ tick' = (tick + 1) % PersistEvery
    /\ SegmentGoes(i, IF tick' = 0 THEN "persist" ELSE "read")
    /\ UNCHANGED <<diskVars, writer, fetch, serverVars>>

Commit(i) ==
    /\ fetch = "wait" /\ seg[i].at = "commit"
    /\ st' = [st EXCEPT !.segs[i].done = seg[i].pos - st.segs[i].start]
    /\ tick' = (tick + 1) % PersistEvery
    /\ SegmentGoes(i, IF tick' = 0 THEN "persist" ELSE "read")
    /\ UNCHANGED <<diskVars, writer, fetch, serverVars>>

(* The end of the body ends the segment, complete or not.                  *)
EndOfBody(i) ==
    /\ fetch = "wait" /\ seg[i].at = "read"
    /\ seg[i].src > seg[i].last \/ ~server.whole
    /\ SegmentGoes(i, "last")
    /\ UNCHANGED <<diskVars, st, writer, tick, fetch, serverVars>>

----------------------------------------------------------------------------
(* persist: a snapshot under mu, then WriteFile and Rename of one .tmp     *)
(* file that all goroutines share.  Two of them may have it open; a file   *)
(* that was moved to .dlstate is still written through an open descriptor. *)

Persisting(w) == IF w = 0 THEN fetch = "persist"
                          ELSE fetch = "wait" /\ seg[w].at \in {"persist", "last"}

Snapshot(w) ==
    /\ Persisting(w) /\ writer[w].at = "off"
    /\ writer' = [writer EXCEPT ![w] = [at |-> "open", snap |-> {st}, fd |-> "gone"]]
    /\ UNCHANGED <<diskVars, st, seg, tick, fetch, serverVars>>

OpenTmp(w) ==
    /\ writer[w].at = "open"
    /\ tmp' = [exists |-> TRUE, holds |-> {}]
    /\ writer' = [writer EXCEPT ![w].at = "write", ![w].fd = "tmp"]
    /\ UNCHANGED <<part, saved, dest, st, seg, tick, fetch, serverVars>>

(* Over another goroutine's longer text the result is no JSON.             *)
Overwritten(w, old) == IF old = {} THEN {writer[w].snap} ELSE {writer[w].snap, {}}

WriteTmp(w) ==
    /\ writer[w].at = "write"
    /\ CASE writer[w].fd = "tmp"   -> \E h \in Overwritten(w, tmp.holds) :
                                        tmp' = [tmp EXCEPT !.holds = h] /\ UNCHANGED saved
         [] writer[w].fd = "state" -> saved' \in Overwritten(w, saved) /\ UNCHANGED tmp
         [] OTHER                  -> UNCHANGED <<tmp, saved>>
    /\ writer' = [writer EXCEPT ![w].at = "rename"]
    /\ UNCHANGED <<part, dest, st, seg, tick, fetch, serverVars>>

Moved(fd) == IF tmp.exists THEN CASE fd = "tmp" -> "state" [] OTHER -> "gone" ELSE fd

RenameTmp(w) ==
    /\ writer[w].at = "rename"
    /\ saved' = IF tmp.exists THEN tmp.holds ELSE saved
    /\ tmp' = [exists |-> FALSE, holds |-> {}]
    /\ IF w = 0 THEN Return
       ELSE /\ SegmentGoes(w, IF seg[w].at = "last" THEN "ended" ELSE "read")
            /\ writer' = [v \in Writers |-> IF v = w THEN NoWrite
                                            ELSE [writer[v] EXCEPT !.fd = Moved(@)]]
            /\ UNCHANGED <<st, tick, fetch>>
    /\ UNCHANGED <<part, dest, serverVars>>

----------------------------------------------------------------------------
(* The end of Fetch.                                                       *)

Ended  == \A i \in DOMAIN seg : seg[i].at \in {"off", "ended", "failed"}
Failed == \E i \in DOMAIN seg : seg[i].at = "failed"

(* wg.Wait, then the error path, or Sync, Close and the checksum; a        *)
(* mismatch is permanent and leaves the files as they are.                 *)
RunEnds ==
    /\ fetch = "wait" /\ Ended
    /\ IF ~Failed /\ server.checksum /\ part # Content(1)
       THEN Return
       ELSE fetch' = (IF Failed THEN "persist" ELSE "remove") /\ UNCHANGED runVars
    /\ UNCHANGED <<diskVars, serverVars>>

RemoveState ==
    /\ fetch = "remove"
    /\ saved' = {}
    /\ fetch' = "publish"
    /\ UNCHANGED <<part, tmp, dest, runVars, serverVars>>

Publish ==
    /\ fetch = "publish"
    /\ dest' = part /\ part' = NoFile
    /\ Return
    /\ UNCHANGED <<saved, tmp, serverVars>>

(* The environment.                                                        *)
Kill ==
    /\ fetch # "idle" /\ kills < MaxKills
    /\ kills' = kills + 1
    /\ Return
    /\ UNCHANGED <<diskVars, server, content, fetches>>

ContentChanges ==
    /\ ~server.steady /\ content < MaxVersions
    /\ content' = content + 1
    /\ UNCHANGED <<diskVars, runVars, server, fetches, kills, fetch>>

Persist == \E w \in Writers : Snapshot(w) \/ OpenTmp(w) \/ WriteTmp(w) \/ RenameTmp(w)
RunSegment == \E i \in DOMAIN seg :
    Respond(i) \/ SegmentFails(i) \/ WriteBlock(i) \/ Commit(i) \/ EndOfBody(i)

FetcherNext ==
    \/ CallFetch \/ ProbeFails \/ Probe \/ ForgetState \/ Truncate \/ StartSegments
    \/ RunSegment \/ Persist
    \/ RunEnds \/ RemoveState \/ Publish
    \/ Kill \/ ContentChanges

FetcherSpec == FetcherInit /\ [][FetcherNext]_fetcherVars

----------------------------------------------------------------------------
FetcherTypeOK ==
    /\ server \in Servers /\ content \in Versions
    /\ part \in Files /\ dest \in Files
    /\ saved \in SUBSET DlStates /\ tmp \in [exists : BOOLEAN, holds : SUBSET DlStates]
    /\ fetch \in {"idle", "probe", "forget", "truncate", "run", "wait", "persist",
                  "remove", "publish"}
    /\ st \in DlStates /\ tick \in 0 .. PersistEvery - 1
    /\ seg \in [1 .. Segments -> [at : {"off", "request", "read", "commit", "persist",
                 "last", "ended", "failed"}, pos : Nat, src : Nat, last : Nat]]
    /\ writer \in [Writers -> [at : {"off", "open", "write", "rename"},
                               snap : SUBSET DlStates, fd : {"tmp", "state", "gone"}]]
    /\ fetches \in Nat /\ kills \in Nat

(* A state a later Fetch may resume from.                                  *)
Written(s) == \A i \in DOMAIN s.segs :
                \A b \in Places : b >= s.segs[i].start /\ b < s.segs[i].start + s.segs[i].done
                                    => part.data[b] # Hole

(* Whatever a kill leaves behind, a later Fetch skips no byte that was     *)
(* never written: every block the persisted state counts as done is in the *)
(* .part file, although snapshots are written and renamed out of order and *)
(* through one shared file.                                                *)
ResumeSound == \A s \in saved : Written(s)

(* A file that appears at its destination is the resource, whole and of    *)
(* one version, if the caller gave a checksum, or if the server answers    *)
(* what is asked and its resource does not change: over any number of      *)
(* kills, failures and resumed attempts.                                   *)
PublishedWhole ==
    dest.exists /\ (server.checksum \/ (server.whole /\ server.steady)) => dest = Content(1)
=============================================================================
