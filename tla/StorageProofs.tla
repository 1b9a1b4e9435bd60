--------------------------- MODULE StorageProofs ---------------------------
(* Proofs about the two units that keep files: the HTTP fetcher and the     *)
(* asset service.                                                           *)
EXTENDS HttpFetcher, AssetStore, TLAPS

-----------------------------------------------------------------------------
(***************************************************************************)
(* Proof about HttpFetcher, for any size, segments, servers and bounds,    *)
(* that a resumed download skips no byte that was never written.  Every    *)
(* state that may become the persisted one counts written blocks only: the *)
(* session's (StateWritten), the snapshots of persist (SnapsWritten) and   *)
(* what the shared temporary file holds once this process has opened it    *)
(* (TmpWritten).  Persist runs only where the file is not truncated or     *)
(* moved away (WritersPlaced), and there is no persisted state when it is  *)
(* (Forgotten).                                                            *)
(***************************************************************************)

SegTypes == [start : Int, end : Int, done : Int]
States   == [size : Int, etag : Int, ranges : BOOLEAN, segs : Seq(SegTypes)]
PartType == [exists : BOOLEAN, data : [Places -> Int \X Int], long : BOOLEAN]
SegAt    == {"off", "request", "read", "commit", "persist", "last", "ended", "failed"}
Goroutines == [at : SegAt, pos : Int, src : Int, last : Int]
Persists == [at : {"off", "open", "write", "rename"}, snap : SUBSET States,
             fd : {"tmp", "state", "gone"}]

Typed == /\ content \in Nat \ {0} /\ server \in ServerKinds
         /\ part \in PartType /\ saved \subseteq States
         /\ tmp \in [exists : BOOLEAN, holds : SUBSET States]
         /\ st \in States /\ seg \in [1 .. Segments -> Goroutines]
         /\ writer \in [Writers -> Persists]

AllWritten(S) == \A s \in S : Written(s)

StateWritten == Written(st) /\ (fetch \in {"forget", "truncate"} =>
                                  \A i \in DOMAIN st.segs : st.segs[i].done = 0)
SnapsWritten == \A w \in Writers : writer[w].at # "off" => AllWritten(writer[w].snap)
TmpWritten == (\E w \in Writers : writer[w].at \in {"write", "rename"}) => AllWritten(tmp.holds)

(* A goroutine's next block is the first its segment does not count, or    *)
(* the one after, once that is written.                                    *)
Placed(i) ==
    /\ seg[i].at \in {"request", "read", "commit", "persist", "last"} => i \in DOMAIN st.segs
    /\ seg[i].at \in {"read", "persist"} => seg[i].pos = From(i)
    /\ seg[i].at = "commit" => /\ seg[i].pos = From(i) + 1
                               /\ From(i) \in Places => part.data[From(i)] # Hole
SegmentsPlaced == fetch = "wait" => \A i \in 1 .. Segments : Placed(i)

WritersPlaced == \A w \in Writers : writer[w].at # "off" =>
    IF w = 0 THEN fetch = "persist" ELSE fetch = "wait" /\ seg[w].at \in {"persist", "last"}

Forgotten == fetch \in {"truncate", "publish"} => saved = {}

FetcherIInv == /\ Typed /\ StateWritten /\ SnapsWritten /\ TmpWritten /\ ResumeSound
               /\ SegmentsPlaced /\ WritersPlaced /\ Forgotten

(* The division of a resource into segments.                               *)
LEMMA ChunkPositive == Chunk \in Nat \ {0}
  BY FetcherAssumption DEF Chunk

LEMMA SplitType == Split \in Seq(SegTypes) /\ \A i \in DOMAIN Split : Split[i].done = 0
<1>1. (Size + Chunk - 1) \div Chunk \in Nat
  BY ChunkPositive, FetcherAssumption
<1> DEFINE n == (Size + Chunk - 1) \div Chunk
<1>2. \A i \in 1 .. n : [start |-> (i - 1) * Chunk,
                         end   |-> IF i * Chunk >= Size THEN Size - 1 ELSE i * Chunk - 1,
                         done  |-> 0] \in SegTypes
  BY ChunkPositive, FetcherAssumption DEF SegTypes
<1>3. Split \in [1 .. n -> SegTypes]
  BY <1>2 DEF Split
<1>4. n \in Nat
  BY <1>1
<1> HIDE DEF n
<1>5. Split \in Seq(SegTypes)
  BY <1>3, <1>4
<1> QED
  BY <1>5 DEF Split

LEMMA NewStateType ==
    ASSUME Typed
    PROVE  NewState(Info) \in States /\ \A i \in DOMAIN NewState(Info).segs : NewState(Info).segs[i].done = 0
<1> DEFINE info == Info
           one  == <<[start |-> 0, end |-> IF info.size > 0 THEN info.size - 1 ELSE -1, done |-> 0]>>
<1>1. info.size \in Int /\ info.etag \in Int /\ info.ranges \in BOOLEAN
  BY FetcherAssumption DEF Info, Typed, ServerKinds
<1>2. one \in Seq(SegTypes) /\ \A i \in DOMAIN one : one[i].done = 0
  BY <1>1 DEF SegTypes
<1> HIDE DEF info, one
<1>3. NewState(info) = [size |-> info.size, etag |-> info.etag, ranges |-> info.ranges,
                        segs |-> IF info.ranges /\ info.size > 0 /\ Segments > 1 THEN Split ELSE one]
  BY DEF NewState, one
<1>4. NewState(info) \in States /\ \A i \in DOMAIN NewState(info).segs : NewState(info).segs[i].done = 0
  BY <1>1, <1>2, <1>3, SplitType DEF States
<1> QED
  BY <1>4 DEF info

LEMMA NothingTypes == /\ NoState \in States /\ NoSegs \in [1 .. Segments -> Goroutines]
                      /\ NoWrites \in [Writers -> Persists]
<1>1. NoState \in States
  BY DEF NoState, States
<1>2. NoSegs \in [1 .. Segments -> Goroutines]
  BY DEF NoSegs, Idle, Goroutines, SegAt
<1>3. NoWrites \in [Writers -> Persists]
  BY DEF NoWrites, NoWrite, Persists
<1> QED
  BY <1>1, <1>2, <1>3

LEMMA NoFileType == NoFile \in PartType
  BY DEF NoFile, PartType, Hole

(* A state that counts nothing.                                            *)
LEMMA NothingCounted ==
    ASSUME NEW s \in States, \A i \in DOMAIN s.segs : s.segs[i].done = 0
    PROVE  Written(s)
<1> SUFFICES ASSUME NEW i \in DOMAIN s.segs, NEW b \in Places,
                    b >= s.segs[i].start, b < s.segs[i].start + s.segs[i].done
             PROVE  FALSE
  BY DEF Written
<1>1. s.segs[i] \in SegTypes
  BY DEF States
<1> QED
  BY <1>1, FetcherAssumption DEF SegTypes, Places

LEMMA FetcherInitIInv == FetcherInit => FetcherIInv
<1> SUFFICES ASSUME FetcherInit PROVE FetcherIInv
  OBVIOUS
<1>1. Typed
  BY NothingTypes, NoFileType, ServersAssumption DEF FetcherInit, Typed
<1>2. Written(st)
  BY DEF FetcherInit, Written, NoState
<1>3. \A w \in Writers : writer[w].at = "off"
  BY DEF FetcherInit, NoWrites, NoWrite
<1> QED
  BY <1>1, <1>2, <1>3 DEF FetcherInit, FetcherIInv, StateWritten, SnapsWritten, TmpWritten, ResumeSound,
     SegmentsPlaced, WritersPlaced, Forgotten

----------------------------------------------------------------------------
(* Fetch returns: what the files hold must be right.                       *)
LEMMA ReturnStep ==
    ASSUME FetcherIInv, Return, content' \in Nat \ {0}, UNCHANGED server,
           part' \in PartType, saved' \subseteq States, tmp' \in [exists : BOOLEAN, holds : SUBSET States],
           ResumeSound'
    PROVE  FetcherIInv'
<1>1. Typed'
  BY NothingTypes DEF Return, FetcherIInv, Typed
<1>2. Written(st)'
  BY DEF Return, Written, NoState
<1>3. \A w \in Writers : writer'[w].at = "off"
  BY DEF Return, NoWrites, NoWrite
<1>4. fetch' = "idle"
  BY DEF Return
<1> QED
  BY <1>1, <1>2, <1>3, <1>4 DEF FetcherIInv, StateWritten, SnapsWritten, TmpWritten, SegmentsPlaced,
     WritersPlaced, Forgotten

(* Outside of wait and persist nobody persists.                            *)
LEMMA NobodyWrites ==
    ASSUME FetcherIInv, fetch \notin {"wait", "persist"}
    PROVE  \A w \in Writers : writer[w].at = "off"
  BY DEF FetcherIInv, WritersPlaced

(* Persisted states stay right as long as the data stay.                   *)
LEMMA ResumeStays ==
    ASSUME ResumeSound, saved' \subseteq saved, part'.data = part.data
    PROVE  ResumeSound'
  BY DEF ResumeSound, Written

(* The steps of Fetch itself that leave .part alone.                       *)
LEMMA FetchSteps ==
    ASSUME FetcherIInv, CallFetch \/ ForgetState \/ StartSegments \/ RemoveState \/ Probe
    PROVE  FetcherIInv'
<1>1. /\ \A w \in Writers : writer[w].at = "off"
      /\ UNCHANGED <<writer, server, content, tmp>>
      /\ fetch' # "persist"
  BY NobodyWrites DEF CallFetch, ForgetState, StartSegments, RemoveState, Probe, diskVars, runVars, serverVars
<1>2. SnapsWritten' /\ TmpWritten' /\ WritersPlaced'
  BY <1>1 DEF SnapsWritten, TmpWritten, WritersPlaced
<1>3. CASE CallFetch \/ ForgetState \/ RemoveState
  <2>1. UNCHANGED <<part, st, seg>> /\ saved' \subseteq saved /\ fetch' # "wait"
    BY <1>3 DEF CallFetch, ForgetState, RemoveState, diskVars, runVars
  <2>2. Typed' /\ ResumeSound'
    <3>1. Typed'
      BY <1>1, <2>1 DEF FetcherIInv, Typed
    <3>2. QED
      BY <2>1, <3>1, ResumeStays DEF FetcherIInv
  <2>3. StateWritten' /\ SegmentsPlaced' /\ Forgotten'
    BY <1>3, <2>1 DEF FetcherIInv, StateWritten, Written, SegmentsPlaced, Forgotten, CallFetch, ForgetState, RemoveState
  <2>4. QED
    BY <1>2, <2>2, <2>3 DEF FetcherIInv
<1>4. CASE StartSegments
  <2>1. UNCHANGED <<part, saved, st>> /\ fetch' = "wait"
    BY <1>4 DEF StartSegments, diskVars
  <2>2. seg' = [i \in 1 .. Segments |-> IF i <= Len(st.segs) /\ ~Complete(st.segs[i])
                                        THEN [Idle EXCEPT !.at = "request"] ELSE Idle]
    BY <1>4 DEF StartSegments
  <2>3. /\ seg' \in [1 .. Segments -> Goroutines]
        /\ \A i \in 1 .. Segments : /\ seg'[i].at \in {"off", "request"}
                                    /\ seg'[i].at = "request" => i \in DOMAIN st.segs
    <3>1. [Idle EXCEPT !.at = "request"] \in Goroutines /\ Idle \in Goroutines
      BY DEF Idle, Goroutines, SegAt
    <3>2. DOMAIN st.segs = 1 .. Len(st.segs) /\ Len(st.segs) \in Nat
      BY DEF FetcherIInv, Typed, States
    <3>3. QED
      BY <2>2, <3>1, <3>2, FetcherAssumption DEF Idle
  <2>4. Typed' /\ ResumeSound'
    <3>1. Typed'
      BY <1>1, <2>1, <2>3 DEF FetcherIInv, Typed
    <3>2. QED
      BY <2>1, <3>1, ResumeStays DEF FetcherIInv
  <2>5. StateWritten' /\ SegmentsPlaced' /\ Forgotten'
    BY <2>1, <2>3 DEF FetcherIInv, StateWritten, Written, SegmentsPlaced, Placed, Forgotten
  <2>6. QED
    BY <1>2, <2>4, <2>5 DEF FetcherIInv
<1>5. CASE Probe
  <2>1. UNCHANGED <<saved, seg>> /\ part' = [part EXCEPT !.exists = TRUE] /\ fetch' \in {"forget", "run"}
    BY <1>5 DEF Probe
  <2>2. /\ part' \in PartType /\ part'.data = part.data
    BY <2>1 DEF FetcherIInv, Typed, PartType
  <2>3. \/ st' \in saved /\ fetch' = "run"
        \/ st' = NewState(Info) /\ fetch' = "forget"
    BY <1>5 DEF Probe, Resumable
  <2>4. st' \in States /\ Written(st)' /\ (fetch' = "forget" => \A i \in DOMAIN st'.segs : st'.segs[i].done = 0)
    <3>1. PICK s : s = st'
      OBVIOUS
    <3>2. CASE s \in saved /\ fetch' = "run"
      <4>1. Written(s) /\ s \in States
        BY <3>2 DEF FetcherIInv, ResumeSound, Typed
      <4>2. Written(s)'
        BY <2>2, <4>1 DEF Written
      <4>3. QED
        BY <3>1, <3>2, <4>1, <4>2 DEF Written
    <3>3. CASE s = NewState(Info)
      <4>1. s \in States /\ \A i \in DOMAIN s.segs : s.segs[i].done = 0
        BY <3>3, NewStateType DEF FetcherIInv
      <4>2. Written(s)
        BY <4>1, NothingCounted
      <4>3. Written(s)'
        BY <2>2, <4>2 DEF Written
      <4>4. QED
        BY <3>1, <4>1, <4>3 DEF Written
    <3>4. QED
      BY <2>3, <3>1, <3>2, <3>3
  <2>5. Typed' /\ ResumeSound'
    <3>1. Typed'
      BY <1>1, <2>1, <2>2, <2>4 DEF FetcherIInv, Typed
    <3>2. QED
      BY <2>1, <2>2, <3>1, ResumeStays DEF FetcherIInv
  <2>6. StateWritten' /\ SegmentsPlaced' /\ Forgotten'
    BY <2>1, <2>4 DEF StateWritten, SegmentsPlaced, Forgotten, Written
  <2>7. QED
    BY <1>2, <2>5, <2>6 DEF FetcherIInv
<1> QED
  BY <1>3, <1>4, <1>5

(* The file is truncated while no state speaks of it.                      *)
LEMMA TruncateStep == ASSUME FetcherIInv, Truncate PROVE FetcherIInv'
<1>1. /\ \A w \in Writers : writer[w].at = "off"
      /\ UNCHANGED <<saved, tmp, st, seg, writer, server, content>>
      /\ fetch = "truncate" /\ fetch' = "run" /\ saved = {}
  BY NobodyWrites DEF Truncate, runVars, serverVars, FetcherIInv, Forgotten
<1>2. part' \in PartType
  BY NoFileType DEF Truncate, FetcherIInv, Typed, PartType
<1>3. Typed'
  BY <1>1, <1>2 DEF FetcherIInv, Typed
<1>4. Written(st)'
  <2>1. \A s \in States : (\A i \in DOMAIN s.segs : s.segs[i].done = 0) => Written(s)'
    <3> SUFFICES ASSUME NEW s \in States, \A i \in DOMAIN s.segs : s.segs[i].done = 0,
                        NEW i \in DOMAIN s.segs, NEW b \in Places,
                        b >= s.segs[i].start, b < s.segs[i].start + s.segs[i].done
                 PROVE  FALSE
      BY DEF Written
    <3>1. s.segs[i] \in SegTypes
      BY DEF States
    <3>2. QED
      BY <3>1, FetcherAssumption DEF SegTypes, Places
  <2>2. PICK s : s = st
    OBVIOUS
  <2>3. s \in States /\ \A i \in DOMAIN s.segs : s.segs[i].done = 0
    BY <1>1, <2>2 DEF FetcherIInv, Typed, StateWritten
  <2>4. QED
    BY <1>1, <2>1, <2>2, <2>3 DEF Written
<1> QED
  BY <1>1, <1>3, <1>4 DEF FetcherIInv, StateWritten, SnapsWritten, TmpWritten, ResumeSound, SegmentsPlaced,
     WritersPlaced, Forgotten

----------------------------------------------------------------------------
(* The segments.                                                           *)

(* Data are only added: what was written stays written.                    *)
LEMMA WrittenStays ==
    ASSUME NEW s, Written(s), \A b \in Places : part.data[b] # Hole => part'.data[b] # Hole
    PROVE  Written(s)'
  BY DEF Written

(* A step of one goroutine that leaves the session's state alone.          *)
LEMMA GoroutineStep ==
    ASSUME FetcherIInv, NEW i \in 1 .. Segments, NEW g \in Goroutines, fetch = "wait",
           seg' = [seg EXCEPT ![i] = g], part' \in PartType,
           UNCHANGED <<saved, tmp, st, writer, fetch, server, content>>,
           \A b \in Places : part.data[b] # Hole => part'.data[b] # Hole,
           Placed(i)', writer[i].at # "off" => g.at \in {"persist", "last"}
    PROVE  FetcherIInv'
<1>1. Typed'
  BY DEF FetcherIInv, Typed
<1>2. seg'[i] = g /\ \A j \in 1 .. Segments : j # i => seg'[j] = seg[j]
  BY DEF FetcherIInv, Typed
<1>3. SegmentsPlaced'
  <2> SUFFICES ASSUME NEW j \in 1 .. Segments, j # i PROVE Placed(j)'
    BY DEF SegmentsPlaced
  <2>1. Placed(j) /\ seg'[j] = seg[j] /\ (From(j) = From(j)')
    BY <1>2 DEF FetcherIInv, SegmentsPlaced, From
  <2>2. QED
    BY <2>1 DEF Placed
<1>4. WritersPlaced'
  BY <1>2, FetcherAssumption DEF FetcherIInv, WritersPlaced, Writers
<1>5. StateWritten'
  <2>1. PICK s : s = st
    OBVIOUS
  <2>2. Written(s)
    BY <2>1 DEF FetcherIInv, StateWritten
  <2>3. Written(s)'
    BY <2>2, WrittenStays
  <2>4. QED
    BY <2>1, <2>3 DEF StateWritten, Written
<1>6. SnapsWritten' /\ TmpWritten' /\ ResumeSound' /\ Forgotten'
  BY WrittenStays DEF FetcherIInv, SnapsWritten, TmpWritten, ResumeSound, Forgotten, AllWritten
<1> QED
  BY <1>1, <1>3, <1>4, <1>5, <1>6 DEF FetcherIInv

(* What is known of a goroutine at work.                                   *)
LEMMA Working ==
    ASSUME FetcherIInv, NEW i \in 1 .. Segments, fetch = "wait"
    PROVE  /\ Placed(i) /\ seg[i] \in Goroutines
           /\ seg[i].at \notin {"persist", "last"} => writer[i].at = "off"
           /\ i \in DOMAIN st.segs => st.segs[i] \in SegTypes /\ From(i) \in Int
<1>1. Placed(i) /\ seg[i] \in Goroutines
  BY DEF FetcherIInv, SegmentsPlaced, Typed
<1>2. seg[i].at \notin {"persist", "last"} => writer[i].at = "off"
  BY FetcherAssumption DEF FetcherIInv, WritersPlaced, Writers
<1>3. i \in DOMAIN st.segs => st.segs[i] \in SegTypes /\ From(i) \in Int
  <2>1. st.segs \in Seq(SegTypes)
    BY DEF FetcherIInv, Typed, States
  <2>2. i \in DOMAIN st.segs => st.segs[i] \in SegTypes
    BY <2>1
  <2>3. QED
    BY <2>2 DEF SegTypes, From
<1> QED
  BY <1>1, <1>2, <1>3

LEMMA RespondStep == ASSUME FetcherIInv, NEW i \in 1 .. Segments, Respond(i) PROVE FetcherIInv'
<1>1. /\ fetch = "wait" /\ seg[i].at = "request" /\ UNCHANGED <<diskVars, st, writer, fetch, serverVars>>
      /\ i \in DOMAIN st.segs /\ writer[i].at = "off" /\ seg \in [1 .. Segments -> Goroutines]
      /\ st.segs[i] \in SegTypes /\ From(i) \in Int
  BY Working DEF Respond, Placed, FetcherIInv, Typed
<1>2. CASE SegmentGoes(i, "failed")
  <2>1. PICK g : g = [seg[i] EXCEPT !.at = "failed"]
    OBVIOUS
  <2>2. g \in Goroutines /\ g.at = "failed" /\ seg' = [seg EXCEPT ![i] = g]
    BY <1>1, <1>2, <2>1 DEF Goroutines, SegAt, SegmentGoes
  <2>3. Placed(i)'
    BY <1>1, <2>2 DEF Placed
  <2>4. QED
    BY <1>1, <2>2, <2>3, GoroutineStep DEF diskVars, serverVars, FetcherIInv, Typed
<1>3. CASE \E src, last \in Int : Answered(i, src, last)
  <2>1. PICK src \in Int, last \in Int : Answered(i, src, last)
    BY <1>3
  <2>2. PICK g : g = [at |-> "read", pos |-> From(i), src |-> src, last |-> last]
    OBVIOUS
  <2>3. g \in Goroutines /\ g.at = "read" /\ g.pos = From(i) /\ seg' = [seg EXCEPT ![i] = g]
    BY <1>1, <2>1, <2>2 DEF Goroutines, SegAt, Answered
  <2>4. Placed(i)'
    BY <1>1, <2>3 DEF Placed, From
  <2>5. QED
    BY <1>1, <2>3, <2>4, GoroutineStep DEF diskVars, serverVars, FetcherIInv, Typed
<1>4. SegmentGoes(i, "failed") \/ \E src, last \in Int : Answered(i, src, last)
  <2>1. st.segs[i].end \in Int /\ Size - 1 \in Int /\ 0 \in Int
    BY <1>1, FetcherAssumption DEF SegTypes
  <2>2. QED
    BY <1>1, <2>1 DEF Respond
<1> QED
  BY <1>2, <1>3, <1>4

LEMMA SegmentEndsStep ==
    ASSUME FetcherIInv, NEW i \in 1 .. Segments, SegmentFails(i) \/ EndOfBody(i) PROVE FetcherIInv'
<1>1. /\ fetch = "wait" /\ seg[i].at \in {"request", "read"}
      /\ UNCHANGED <<diskVars, st, writer, fetch, serverVars>>
      /\ i \in DOMAIN st.segs /\ writer[i].at = "off" /\ seg \in [1 .. Segments -> Goroutines]
  BY Working DEF SegmentFails, EndOfBody, Placed, FetcherIInv, Typed
<1>2. PICK at \in {"failed", "last"} : SegmentGoes(i, at)
  BY DEF SegmentFails, EndOfBody
<1>3. PICK g : g = [seg[i] EXCEPT !.at = at]
  OBVIOUS
<1>4. g \in Goroutines /\ g.at = at /\ seg' = [seg EXCEPT ![i] = g]
  BY <1>1, <1>2, <1>3 DEF Goroutines, SegAt, SegmentGoes
<1>5. Placed(i)'
  BY <1>1, <1>4 DEF Placed
<1> QED
  BY <1>1, <1>4, <1>5, GoroutineStep DEF diskVars, serverVars, FetcherIInv, Typed

LEMMA WriteBlockStep == ASSUME FetcherIInv, NEW i \in 1 .. Segments, WriteBlock(i) PROVE FetcherIInv'
<1> DEFINE p == seg[i].pos
<1>1. /\ fetch = "wait" /\ seg[i].at = "read" /\ p = From(i)
      /\ UNCHANGED <<saved, tmp, st, writer, fetch, serverVars>>
      /\ i \in DOMAIN st.segs /\ writer[i].at = "off" /\ seg \in [1 .. Segments -> Goroutines]
      /\ seg[i] \in Goroutines /\ From(i) \in Int
  BY Working DEF WriteBlock, Placed, FetcherIInv, Typed
<1>2. PICK block : block = <<content, seg[i].src>>
  OBVIOUS
<1>3. block \in Int \X Int /\ block # Hole
  BY <1>1, <1>2 DEF FetcherIInv, Typed, Goroutines, Hole
<1>4. /\ part' \in PartType
      /\ \A b \in Places : part'.data[b] = IF b = p THEN block ELSE part.data[b]
  <2>1. part \in PartType /\ p \in Int
    BY <1>1 DEF FetcherIInv, Typed, Goroutines
  <2>2. CASE p \in Places
    <3>1. part' = [part EXCEPT !.data = [part.data EXCEPT ![p] = block]]
      BY <1>2, <2>2 DEF WriteBlock
    <3>2. [part.data EXCEPT ![p] = block] \in [Places -> Int \X Int]
      BY <1>3, <2>1 DEF PartType
    <3>3. QED
      BY <2>1, <2>2, <3>1, <3>2 DEF PartType
  <2>3. CASE p \notin Places
    <3>1. part' = [part EXCEPT !.long = TRUE]
      BY <2>3 DEF WriteBlock
    <3>2. QED
      BY <2>1, <2>3, <3>1 DEF PartType
  <2>4. QED
    BY <2>2, <2>3
<1>5. PICK g : g = [seg[i] EXCEPT !.pos = @ + 1, !.src = @ + 1, !.at = "commit"]
  OBVIOUS
<1>6. g \in Goroutines /\ g.at = "commit" /\ g.pos = p + 1 /\ seg' = [seg EXCEPT ![i] = g]
  <2>1. seg' = [seg EXCEPT ![i] = g]
    BY <1>1, <1>5 DEF WriteBlock
  <2>2. p + 1 \in Int /\ seg[i].src + 1 \in Int /\ "commit" \in SegAt
    BY <1>1 DEF Goroutines, SegAt
  <2>3. g = [seg[i] EXCEPT !.pos = p + 1, !.src = seg[i].src + 1, !.at = "commit"]
    BY <1>5
  <2>4. \A x, y \in Int : [seg[i] EXCEPT !.pos = x, !.src = y, !.at = "commit"] \in Goroutines
    BY <1>1, <2>2, Zenon DEF Goroutines
  <2>5. g.at = "commit" /\ g.pos = p + 1
    BY <1>1, <2>3 DEF Goroutines
  <2>6. QED
    BY <2>1, <2>2, <2>3, <2>4, <2>5
<1>7. Placed(i)'
  BY <1>1, <1>3, <1>4, <1>6 DEF Placed, From
<1> QED
  BY <1>1, <1>3, <1>4, <1>6, <1>7, GoroutineStep DEF serverVars

LEMMA CommitStep == ASSUME FetcherIInv, NEW i \in 1 .. Segments, Commit(i) PROVE FetcherIInv'
<1>1. /\ fetch = "wait" /\ seg[i].at = "commit" /\ seg[i].pos = From(i) + 1
      /\ From(i) \in Places => part.data[From(i)] # Hole
      /\ UNCHANGED <<part, saved, tmp, dest, writer, fetch, server, content>>
      /\ i \in DOMAIN st.segs /\ writer[i].at = "off" /\ seg \in [1 .. Segments -> Goroutines]
      /\ seg[i] \in Goroutines /\ st.segs[i] \in SegTypes /\ From(i) \in Int /\ st \in States
  BY Working DEF Commit, Placed, FetcherIInv, Typed, diskVars, serverVars
<1>2. PICK old : old = st.segs[i]
  OBVIOUS
<1>3. PICK new : new = [old EXCEPT !.done = seg[i].pos - old.start]
  OBVIOUS
<1>4. new \in SegTypes /\ new.start = old.start /\ new.done = old.done + 1
  BY <1>1, <1>2, <1>3 DEF SegTypes, From
<1>5. st' = [st EXCEPT !.segs = [st.segs EXCEPT ![i] = new]]
  BY <1>1, <1>2, <1>3 DEF Commit
<1>6. /\ st' \in States /\ DOMAIN st'.segs = DOMAIN st.segs /\ st'.segs[i] = new
      /\ \A j \in DOMAIN st.segs : j # i => st'.segs[j] = st.segs[j]
  <2>1. [st.segs EXCEPT ![i] = new] \in Seq(SegTypes)
    BY <1>1, <1>4 DEF States
  <2>2. st'.segs = [st.segs EXCEPT ![i] = new] /\ st' \in States
    BY <1>1, <1>5, <2>1 DEF States
  <2>3. QED
    BY <1>1, <2>2 DEF States
<1>7. PICK at \in {"persist", "read"} : seg' = [seg EXCEPT ![i].at = at]
  BY DEF Commit, SegmentGoes
<1>8. PICK g : g = [seg[i] EXCEPT !.at = at]
  OBVIOUS
<1>9. /\ g \in Goroutines /\ g.at = at /\ g.pos = seg[i].pos /\ seg' = [seg EXCEPT ![i] = g]
      /\ seg'[i] = g /\ \A j \in 1 .. Segments : j # i => seg'[j] = seg[j]
  BY <1>1, <1>7, <1>8 DEF Goroutines, SegAt
<1>10. Typed'
  BY <1>1, <1>6, <1>9 DEF FetcherIInv, Typed
<1>11. Written(st)'
  <2>1. Written(st)
    BY DEF FetcherIInv, StateWritten
  <2>2. SUFFICES ASSUME NEW j \in DOMAIN st.segs, NEW b \in Places,
                        b >= st'.segs[j].start, b < st'.segs[j].start + st'.segs[j].done
                 PROVE  part.data[b] # Hole
    BY <1>1, <1>6 DEF Written
  <2>3. CASE j # i
    BY <1>6, <2>1, <2>2, <2>3 DEF Written
  <2>4. CASE j = i
    <3>1. b >= old.start /\ b < old.start + old.done + 1 /\ old \in SegTypes /\ b \in Int
      BY <1>1, <1>2, <1>4, <1>6, <2>2, <2>4, FetcherAssumption DEF SegTypes, Places
    <3>2. CASE b = From(i)
      BY <1>1, <3>2
    <3>3. CASE b # From(i)
      <4>1. b # old.start + old.done /\ old.start + old.done \in Int /\ b \in Int
        BY <1>2, <3>1, <3>3 DEF From, SegTypes
      <4>2. b < old.start + old.done + 1
        BY <3>1
      <4>3. b < old.start + old.done
        <5> DEFINE sum == old.start + old.done
        <5>1. sum \in Int /\ b \in Int /\ b # sum /\ b < sum + 1
          BY <4>1, <4>2
        <5> HIDE DEF sum
        <5>2. b < sum
          BY <5>1
        <5>3. QED
          BY <5>2 DEF sum
      <4>4. QED
        BY <1>1, <1>2, <2>1, <3>1, <4>3 DEF Written
    <3>4. QED
      BY <3>2, <3>3
  <2>5. QED
    BY <2>3, <2>4
<1>12. SegmentsPlaced'
  <2> SUFFICES ASSUME NEW j \in 1 .. Segments PROVE Placed(j)'
    BY DEF SegmentsPlaced
  <2>1. CASE j = i
    BY <1>1, <1>2, <1>4, <1>6, <1>9, <2>1 DEF Placed, From, SegTypes
  <2>2. CASE j # i
    <3>1. Placed(j) /\ seg'[j] = seg[j] /\ (j \in DOMAIN st.segs => From(j)' = From(j))
      BY <1>1, <1>6, <1>9, <2>2 DEF FetcherIInv, SegmentsPlaced, From
    <3>2. QED
      BY <1>1, <1>6, <3>1 DEF Placed
  <2>3. QED
    BY <2>1, <2>2
<1>13. WritersPlaced'
  BY <1>1, <1>9, FetcherAssumption DEF FetcherIInv, WritersPlaced, Writers
<1>14. SnapsWritten' /\ TmpWritten' /\ ResumeSound' /\ Forgotten'
  BY <1>1 DEF FetcherIInv, SnapsWritten, TmpWritten, ResumeSound, Forgotten, AllWritten, Written
<1> QED
  BY <1>1, <1>10, <1>11, <1>12, <1>13, <1>14 DEF FetcherIInv, StateWritten

----------------------------------------------------------------------------
(* persist.                                                                *)

LEMMA SessionKept ==
    ASSUME FetcherIInv, UNCHANGED <<part, st, seg, fetch>>
    PROVE  StateWritten' /\ SegmentsPlaced'
<1>1. StateWritten'
  BY DEF FetcherIInv, StateWritten, Written
<1>2. SegmentsPlaced'
  BY DEF FetcherIInv, SegmentsPlaced, Placed, From
<1> QED
  BY <1>1, <1>2

LEMMA SnapshotStep == ASSUME FetcherIInv, NEW w \in Writers, Snapshot(w) PROVE FetcherIInv'
<1>1. /\ UNCHANGED <<part, saved, tmp, st, seg, fetch, server, content>> /\ Persisting(w)
      /\ writer \in [Writers -> Persists] /\ st \in States
  BY DEF Snapshot, diskVars, serverVars, FetcherIInv, Typed
<1>2. PICK p : p = [at |-> "open", snap |-> {st}, fd |-> "gone"]
  OBVIOUS
<1>3. /\ p \in Persists /\ p.at = "open" /\ p.snap = {st} /\ writer' = [writer EXCEPT ![w] = p]
      /\ writer'[w] = p /\ \A v \in Writers : v # w => writer'[v] = writer[v]
  BY <1>1, <1>2 DEF Persists, Snapshot
<1>4. Typed'
  BY <1>1, <1>3 DEF FetcherIInv, Typed
<1>5. AllWritten(p.snap)'
  BY <1>1, <1>3 DEF AllWritten, FetcherIInv, StateWritten, Written
<1>6. SnapsWritten'
  BY <1>1, <1>3, <1>5 DEF FetcherIInv, SnapsWritten, AllWritten, Written
<1>7. TmpWritten' /\ ResumeSound' /\ Forgotten'
  BY <1>1, <1>3 DEF FetcherIInv, TmpWritten, ResumeSound, Forgotten, AllWritten, Written
<1>8. WritersPlaced'
  BY <1>1, <1>3 DEF FetcherIInv, WritersPlaced, Persisting
<1> QED
  BY <1>1, <1>4, <1>6, <1>7, <1>8, SessionKept DEF FetcherIInv

LEMMA OpenTmpStep == ASSUME FetcherIInv, NEW w \in Writers, OpenTmp(w) PROVE FetcherIInv'
<1>1. /\ UNCHANGED <<part, saved, st, seg, fetch, server, content>> /\ tmp' = [exists |-> TRUE, holds |-> {}]
      /\ writer \in [Writers -> Persists] /\ writer[w].at = "open"
  BY DEF OpenTmp, serverVars, FetcherIInv, Typed
<1>2. PICK p : p = [writer[w] EXCEPT !.at = "write", !.fd = "tmp"]
  OBVIOUS
<1>3. /\ p \in Persists /\ p.at = "write" /\ p.snap = writer[w].snap /\ writer' = [writer EXCEPT ![w] = p]
      /\ writer'[w] = p /\ \A v \in Writers : v # w => writer'[v] = writer[v]
  BY <1>1, <1>2 DEF Persists, OpenTmp
<1>4. Typed'
  BY <1>1, <1>3 DEF FetcherIInv, Typed
<1>5. SnapsWritten' /\ TmpWritten' /\ ResumeSound' /\ Forgotten'
  BY <1>1, <1>3 DEF FetcherIInv, SnapsWritten, TmpWritten, ResumeSound, Forgotten, AllWritten, Written
<1>6. WritersPlaced'
  BY <1>1, <1>3 DEF FetcherIInv, WritersPlaced
<1> QED
  BY <1>1, <1>4, <1>5, <1>6, SessionKept DEF FetcherIInv

LEMMA WriteTmpStep == ASSUME FetcherIInv, NEW w \in Writers, WriteTmp(w) PROVE FetcherIInv'
<1> DEFINE snap == writer[w].snap
<1>1. /\ UNCHANGED <<part, st, seg, fetch, server, content>>
      /\ writer \in [Writers -> Persists] /\ writer[w].at = "write" /\ AllWritten(snap)
      /\ snap \subseteq States /\ AllWritten(tmp.holds)
  BY DEF WriteTmp, serverVars, FetcherIInv, Typed, Persists, SnapsWritten, TmpWritten
<1>2. \A old : \A h \in Overwritten(w, old) : h = snap \/ h = {}
  BY DEF Overwritten
<1>3. /\ \/ UNCHANGED tmp
         \/ \E h : (h = snap \/ h = {}) /\ tmp' = [tmp EXCEPT !.holds = h]
      /\ saved' = saved \/ saved' = snap \/ saved' = {}
  <2>1. CASE writer[w].fd = "tmp"
    BY <1>2, <2>1 DEF WriteTmp
  <2>2. CASE writer[w].fd = "state"
    BY <1>2, <2>2 DEF WriteTmp
  <2>3. CASE writer[w].fd = "gone"
    BY <2>3 DEF WriteTmp
  <2>4. QED
    BY <1>1, <2>1, <2>2, <2>3 DEF Persists
<1>4. /\ tmp' \in [exists : BOOLEAN, holds : SUBSET States] /\ AllWritten(tmp'.holds)
      /\ saved' \subseteq States /\ AllWritten(saved')
  BY <1>1, <1>3 DEF FetcherIInv, Typed, ResumeSound, AllWritten
<1>5. PICK p : p = [writer[w] EXCEPT !.at = "rename"]
  OBVIOUS
<1>6. /\ p \in Persists /\ p.at = "rename" /\ p.snap = snap /\ writer' = [writer EXCEPT ![w] = p]
      /\ writer'[w] = p /\ \A v \in Writers : v # w => writer'[v] = writer[v]
  BY <1>1, <1>5 DEF Persists, WriteTmp
<1>7. Typed'
  BY <1>1, <1>4, <1>6 DEF FetcherIInv, Typed
<1>8. SnapsWritten' /\ TmpWritten' /\ ResumeSound'
  BY <1>1, <1>4, <1>6 DEF FetcherIInv, SnapsWritten, TmpWritten, ResumeSound, AllWritten, Written
<1>9. WritersPlaced' /\ Forgotten'
  BY <1>1, <1>6 DEF FetcherIInv, WritersPlaced, Forgotten
<1> QED
  BY <1>1, <1>7, <1>8, <1>9, SessionKept DEF FetcherIInv

LEMMA RenameTmpStep == ASSUME FetcherIInv, NEW w \in Writers, RenameTmp(w) PROVE FetcherIInv'
<1>1. /\ UNCHANGED <<part, dest, server, content>> /\ writer[w].at = "rename"
      /\ tmp' = [exists |-> FALSE, holds |-> {}]
      /\ saved' = IF tmp.exists THEN tmp.holds ELSE saved
      /\ writer \in [Writers -> Persists] /\ AllWritten(tmp.holds)
  BY DEF RenameTmp, serverVars, FetcherIInv, Typed, TmpWritten
<1>2. /\ tmp' \in [exists : BOOLEAN, holds : SUBSET States] /\ saved' \subseteq States /\ ResumeSound'
  <2>1. AllWritten(saved)
    BY DEF FetcherIInv, ResumeSound, AllWritten
  <2>2. \A s \in saved' : Written(s)
    BY <1>1, <2>1 DEF AllWritten
  <2>3. ResumeSound'
    BY <1>1, <2>2 DEF ResumeSound, Written
  <2>4. QED
    BY <1>1, <2>3 DEF FetcherIInv, Typed
<1>3. CASE w = 0
  BY <1>1, <1>2, <1>3, ReturnStep DEF RenameTmp, FetcherIInv, Typed
<1>4. CASE w # 0
  <2>1. /\ w \in 1 .. Segments /\ fetch = "wait" /\ seg[w].at \in {"persist", "last"}
        /\ UNCHANGED <<st, fetch>> /\ seg \in [1 .. Segments -> Goroutines]
    BY <1>1, <1>4, FetcherAssumption DEF RenameTmp, FetcherIInv, WritersPlaced, Writers, Typed
  <2>2. PICK g : g = [seg[w] EXCEPT !.at = IF seg[w].at = "last" THEN "ended" ELSE "read"]
    OBVIOUS
  <2>3. /\ seg' = [seg EXCEPT ![w] = g] /\ g \in Goroutines /\ g.pos = seg[w].pos
        /\ g.at = "ended" \/ (g.at = "read" /\ seg[w].at = "persist")
    BY <1>4, <2>1, <2>2 DEF RenameTmp, SegmentGoes, Goroutines, SegAt
  <2>4. seg'[w] = g /\ \A j \in 1 .. Segments : j # w => seg'[j] = seg[j]
    BY <2>1, <2>3
  <2>5. /\ writer' \in [Writers -> Persists] /\ writer'[w].at = "off"
        /\ \A v \in Writers : v # w => writer'[v].at = writer[v].at /\ writer'[v].snap = writer[v].snap
    <3>1. writer' = [v \in Writers |-> IF v = w THEN NoWrite ELSE [writer[v] EXCEPT !.fd = Moved(@)]]
      BY <1>4 DEF RenameTmp
    <3>2. NoWrite \in Persists /\ NoWrite.at = "off"
      BY DEF NoWrite, Persists
    <3>3. \A fd \in {"tmp", "state", "gone"} : Moved(fd) \in {"tmp", "state", "gone"}
      BY DEF Moved
    <3>4. \A v \in Writers : /\ [writer[v] EXCEPT !.fd = Moved(@)] \in Persists
                             /\ [writer[v] EXCEPT !.fd = Moved(@)].at = writer[v].at
                             /\ [writer[v] EXCEPT !.fd = Moved(@)].snap = writer[v].snap
      BY <1>1, <3>3 DEF Persists
    <3>5. QED
      BY <3>1, <3>2, <3>4
  <2>6. Typed'
    BY <1>1, <1>2, <2>1, <2>3, <2>5 DEF FetcherIInv, Typed
  <2>7. StateWritten'
    BY <1>1, <2>1 DEF FetcherIInv, StateWritten, Written
  <2>8. SegmentsPlaced'
    <3> SUFFICES ASSUME NEW j \in 1 .. Segments PROVE Placed(j)'
      BY DEF SegmentsPlaced
    <3>1. Placed(j) /\ From(j)' = From(j)
      BY <2>1 DEF FetcherIInv, SegmentsPlaced, From
    <3>2. CASE j = w
      BY <2>1, <2>3, <2>4, <3>1, <3>2 DEF Placed
    <3>3. CASE j # w
      BY <1>1, <2>1, <2>4, <3>1, <3>3 DEF Placed
    <3>4. QED
      BY <3>2, <3>3
  <2>9. WritersPlaced'
    <3> SUFFICES ASSUME NEW v \in Writers, writer'[v].at # "off"
                 PROVE  (IF v = 0 THEN fetch = "persist" ELSE fetch = "wait" /\ seg[v].at \in {"persist", "last"})'
      BY DEF WritersPlaced
    <3>1. v # w /\ writer[v].at # "off"
      BY <2>5
    <3>2. v \in 1 .. Segments
      BY <2>1, <3>1, FetcherAssumption DEF FetcherIInv, WritersPlaced, Writers
    <3>3. QED
      BY <2>1, <2>4, <3>1, <3>2 DEF FetcherIInv, WritersPlaced
  <2>10. SnapsWritten' /\ TmpWritten' /\ Forgotten'
    BY <1>1, <2>1, <2>5 DEF FetcherIInv, SnapsWritten, TmpWritten, Forgotten, AllWritten, Written
  <2>11. QED
    BY <1>2, <2>6, <2>7, <2>8, <2>9, <2>10 DEF FetcherIInv
<1> QED
  BY <1>3, <1>4

----------------------------------------------------------------------------
(* The end of Fetch, and the environment.                                  *)

LEMMA RunEndsStep == ASSUME FetcherIInv, RunEnds PROVE FetcherIInv'
<1>1. UNCHANGED <<part, saved, tmp, server, content>> /\ fetch = "wait" /\ Ended
  BY DEF RunEnds, diskVars, serverVars
<1>2. CASE Return
  BY <1>1, <1>2, ReturnStep DEF FetcherIInv, Typed, ResumeSound, Written
<1>3. CASE fetch' \in {"persist", "remove"} /\ UNCHANGED runVars
  <2>1. UNCHANGED <<st, seg, writer>>
    BY <1>3 DEF runVars
  <2>2. \A w \in Writers : writer[w].at = "off"
    BY <1>1, FetcherAssumption DEF Ended, FetcherIInv, WritersPlaced, Writers, Typed
  <2>3. Typed'
    BY <1>1, <2>1 DEF FetcherIInv, Typed
  <2>4. StateWritten' /\ ResumeSound'
    BY <1>1, <1>3, <2>1 DEF FetcherIInv, StateWritten, ResumeSound, Written
  <2>5. SnapsWritten' /\ TmpWritten' /\ SegmentsPlaced' /\ WritersPlaced' /\ Forgotten'
    BY <1>3, <2>1, <2>2 DEF SnapsWritten, TmpWritten, SegmentsPlaced, WritersPlaced, Forgotten
  <2>6. QED
    BY <2>3, <2>4, <2>5 DEF FetcherIInv
<1> QED
  BY <1>2, <1>3 DEF RunEnds

LEMMA ReturnsStep == ASSUME FetcherIInv, ProbeFails \/ Publish \/ Kill PROVE FetcherIInv'
<1>1. Return /\ UNCHANGED <<saved, tmp, server, content>>
  BY DEF ProbeFails, Publish, Kill, diskVars, serverVars
<1>2. part' \in PartType /\ ResumeSound'
  <2>1. CASE Publish
    BY <1>1, <2>1, NoFileType DEF Publish, FetcherIInv, Forgotten, ResumeSound
  <2>2. CASE ProbeFails \/ Kill
    BY <1>1, <2>2, ResumeStays DEF ProbeFails, Kill, diskVars, FetcherIInv, Typed
  <2>3. QED
    BY <2>1, <2>2
<1> QED
  BY <1>1, <1>2, ReturnStep DEF FetcherIInv, Typed

(* A step that changes no more than the content of the resource.           *)
LEMMA ContentStep ==
    ASSUME FetcherIInv, UNCHANGED <<diskVars, st, seg, writer, fetch, server>>, content' \in Nat \ {0}
    PROVE  FetcherIInv'
<1>1. Typed'
  BY DEF FetcherIInv, Typed, diskVars
<1>2. SnapsWritten' /\ TmpWritten' /\ ResumeSound' /\ WritersPlaced' /\ Forgotten'
  BY DEF FetcherIInv, SnapsWritten, TmpWritten, ResumeSound, WritersPlaced, Forgotten, AllWritten, Written, diskVars
<1> QED
  BY <1>1, <1>2, SessionKept DEF FetcherIInv, diskVars

LEMMA FetcherInductive == FetcherIInv /\ [FetcherNext]_fetcherVars => FetcherIInv'
<1> SUFFICES ASSUME FetcherIInv, [FetcherNext]_fetcherVars PROVE FetcherIInv'
  OBVIOUS
<1>1. CASE RunSegment
  <2>1. PICK i \in 1 .. Segments :
          Respond(i) \/ SegmentFails(i) \/ WriteBlock(i) \/ Commit(i) \/ EndOfBody(i)
    BY <1>1 DEF RunSegment, FetcherIInv, Typed
  <2>2. QED
    BY <2>1, RespondStep, SegmentEndsStep, WriteBlockStep, CommitStep
<1>2. CASE Persist
  BY <1>2, SnapshotStep, OpenTmpStep, WriteTmpStep, RenameTmpStep DEF Persist
<1>3. CASE ContentChanges \/ UNCHANGED fetcherVars
  BY <1>3, ContentStep
     DEF ContentChanges, fetcherVars, diskVars, runVars, serverVars, FetcherIInv, Typed
<1> QED
  BY <1>1, <1>2, <1>3, FetchSteps, TruncateStep, RunEndsStep, ReturnsStep DEF FetcherNext

(* The HTTP fetcher, killed at any moment and resumed any number of times: *)
(* every block the persisted state counts as done is in the .part file.    *)
THEOREM ResumesSoundly == FetcherSpec => []ResumeSound
<1>1. FetcherIInv => ResumeSound
  BY DEF FetcherIInv
<1> QED
  BY <1>1, FetcherInitIInv, FetcherInductive, PTL DEF FetcherSpec

-----------------------------------------------------------------------------
(***************************************************************************)
(* Proof about HttpFetcher that a published file is the resource.  Every   *)
(* state that may be resumed divides the resource without a gap (Shaped),  *)
(* whatever progress it counts; with a server that does what is asked,     *)
(* every block in the .part file is the right one (Accurate) and a         *)
(* goroutine that is through has counted its segment to the end (Reads).   *)
(***************************************************************************)

Steady == server.whole /\ server.steady
Sure   == server.checksum \/ Steady

Inside(e) == e.start >= 0 /\ e.done >= 0 /\ e.end < Size
Has(e, b) == e.start <= b /\ (e.end >= 0 => b <= e.end)
Shaped(s) ==
    /\ s.ranges = server.ranges /\ Len(s.segs) <= Segments
    /\ \A i \in DOMAIN s.segs : Inside(s.segs[i]) /\ (~s.ranges => s.segs[i].start = 0)
    /\ \A b \in Places : \E i \in DOMAIN s.segs : Has(s.segs[i], b)

ShapesInv ==
    /\ fetch \notin {"idle", "probe"} => Shaped(st)
    /\ \A s \in saved : Shaped(s)
    /\ \A s \in tmp.holds : Shaped(s)
    /\ \A w \in Writers : writer[w].at # "off" => \A s \in writer[w].snap : Shaped(s)

PartThere == fetch \notin {"idle", "probe"} => part.exists

(* Without ranges a run starts from nothing.                               *)
Unread == fetch \in {"forget", "truncate", "run"} /\ ~st.ranges =>
            \A i \in DOMAIN st.segs : st.segs[i].done = 0

Finished == fetch \in {"remove", "publish"} /\ Sure => part = Content(1)

Accurate == Steady => /\ content = 1 /\ ~part.long
                      /\ \A b \in Places : part.data[b] \in {Hole, <<1, b>>}

(* A segment that its goroutine is through with, and one it is reading.    *)
Through(i) == IF st.segs[i].end >= 0 THEN From(i) > st.segs[i].end ELSE From(i) >= Size
Reads(i) ==
    /\ seg[i].at \in {"off", "last", "ended"} /\ i \in DOMAIN st.segs => Through(i)
    /\ seg[i].at = "request" /\ ~st.ranges => st.segs[i].done = 0
    /\ seg[i].at \in {"read", "commit", "persist"} =>
         /\ seg[i].src = seg[i].pos /\ seg[i].last < Size
         /\ seg[i].last >= (IF st.segs[i].end >= 0 THEN st.segs[i].end ELSE Size - 1)
ReadsInv == Steady /\ fetch = "wait" => \A i \in 1 .. Segments : Reads(i)

PublishIInv == /\ ShapesInv /\ PartThere /\ Unread /\ Finished /\ Accurate /\ ReadsInv
               /\ PublishedWhole

(* The segments of Split number Segments at most and leave no gap.         *)
LEMMA CeilDiv ==
    ASSUME NEW a \in Nat, NEW d \in Nat \ {0}
    PROVE  LET q == (a + d - 1) \div d IN q \in Nat /\ a <= q * d /\ q * d < a + d
  OBVIOUS

LEMMA Multiples ==
    ASSUME NEW d \in Nat \ {0}, NEW x \in Int, NEW y \in Int, x * d < y * d
    PROVE  x < y
  OBVIOUS

(* Each segment of Split lies in the resource and each place in one.       *)
LEMMA SplitShape ==
    /\ Len(Split) <= Segments /\ DOMAIN Split = 1 .. Len(Split) /\ Len(Split) \in Nat
    /\ \A i \in DOMAIN Split : Inside(Split[i])
    /\ \A b \in Places : \E i \in DOMAIN Split : Has(Split[i], b)
<1>1. PICK c \in Nat \ {0} : c = Chunk
  BY ChunkPositive
<1>2. Size \in Nat \ {0} /\ Segments \in Nat \ {0}
  BY FetcherAssumption
<1>3. Size <= c * Segments
  <2>1. c = (Size + Segments - 1) \div Segments
    BY <1>1 DEF Chunk
  <2>2. Size <= c * Segments
    BY <1>2, <2>1, CeilDiv
  <2>3. QED
    BY <2>2
<1>4. PICK n \in Nat : n = (Size + c - 1) \div c /\ Size <= n * c /\ n * c < Size + c
  <2>1. (Size + c - 1) \div c \in Nat
    BY <1>2, CeilDiv
  <2>2. QED
    BY <1>2, <2>1, CeilDiv
<1>5. n <= Segments
  <2>1. (n - 1) * c < Segments * c
    <3>1. n * c = (n - 1) * c + c
      OBVIOUS
    <3>2. c * Segments = Segments * c
      BY <1>2
    <3>3. n * c \in Int /\ (n - 1) * c \in Int /\ Segments * c \in Int
      BY <1>2
    <3>4. QED
      BY <1>2, <1>3, <1>4, <3>1, <3>2, <3>3
  <2>2. n - 1 < Segments
    BY <1>2, <2>1, Multiples
  <2>3. QED
    BY <1>2, <2>2
<1>6. Split = [i \in 1 .. n |-> [start |-> (i - 1) * c,
                                 end   |-> IF i * c >= Size THEN Size - 1 ELSE i * c - 1,
                                 done  |-> 0]]
  BY <1>1, <1>4 DEF Split
<1>7. DOMAIN Split = 1 .. n /\ Len(Split) = n
  BY <1>6
<1>8. ASSUME NEW i \in 1 .. n PROVE Inside(Split[i])
  <2>1. PICK x \in Int, y \in Int : x = (i - 1) * c /\ y = i * c
    OBVIOUS
  <2>2. x >= 0
    <3>1. i - 1 \in Nat
      OBVIOUS
    <3>2. QED
      BY <2>1, <3>1
  <2>3. /\ Split[i].start = x /\ Split[i].done = 0
        /\ Split[i].end = (IF y >= Size THEN Size - 1 ELSE y - 1)
    BY <1>6, <2>1
  <2>4. (IF y >= Size THEN Size - 1 ELSE y - 1) < Size
    BY <1>2, <2>1
  <2>5. QED
    BY <2>2, <2>3, <2>4 DEF Inside
<1>9. ASSUME NEW b \in Places PROVE \E i \in 1 .. n : Has(Split[i], b)
  <2>1. b \in Nat /\ b < Size
    BY <1>2 DEF Places
  <2>2. PICK q \in Nat : q * c <= b /\ b < q * c + c
    <3>1. (b \div c) \in Nat /\ (b \div c) * c <= b /\ b < (b \div c) * c + c
      BY <2>1
    <3>2. QED
      BY <3>1
  <2>3. PICK i \in Nat : i = q + 1
    OBVIOUS
  <2>4. PICK x \in Int, y \in Int : x = (i - 1) * c /\ y = i * c /\ x <= b /\ b < y
    <3>1. (i - 1) * c = q * c
      BY <2>3
    <3>2. i * c = q * c + c
      BY <2>3
    <3>3. QED
      BY <2>1, <2>2, <3>1, <3>2
  <2>5. i \in 1 .. n
    <3>1. q * c < n * c
      <4>1. q * c \in Int /\ n * c \in Int
        OBVIOUS
      <4>2. QED
        BY <1>2, <1>4, <2>1, <2>2, <4>1
    <3>2. q < n
      BY <3>1, Multiples
    <3>3. QED
      BY <2>3, <3>2
  <2>6. /\ Split[i].start = x
        /\ Split[i].end = (IF y >= Size THEN Size - 1 ELSE y - 1)
    BY <1>6, <2>4, <2>5
  <2>7. b <= (IF y >= Size THEN Size - 1 ELSE y - 1)
    BY <1>2, <2>1, <2>4
  <2>8. QED
    BY <2>4, <2>5, <2>6, <2>7 DEF Has
<1>10. QED
  BY <1>5, <1>7, <1>8, <1>9

LEMMA NewStateShaped == ASSUME Typed PROVE Shaped(NewState(Info))
<1>1. Size \in Nat \ {0} /\ Segments \in Nat \ {0}
  BY FetcherAssumption
<1>2. PICK info : info = Info
  OBVIOUS
<1>3. /\ info.size \in {-1, Size} /\ info.ranges = server.ranges /\ server.ranges \in BOOLEAN
  BY <1>2 DEF Info, Typed, ServerKinds
<1>4. PICK one : one = [start |-> 0, end |-> IF info.size > 0 THEN info.size - 1 ELSE -1, done |-> 0]
  OBVIOUS
<1>5. PICK segs : segs = IF info.ranges /\ info.size > 0 /\ Segments > 1 THEN Split ELSE <<one>>
  OBVIOUS
<1>6. NewState(info) = [size |-> info.size, etag |-> info.etag, ranges |-> info.ranges, segs |-> segs]
  BY <1>4, <1>5 DEF NewState
<1>7. /\ Len(segs) <= Segments
      /\ \A i \in DOMAIN segs : Inside(segs[i]) /\ (~info.ranges => segs[i].start = 0)
      /\ \A b \in Places : \E i \in DOMAIN segs : Has(segs[i], b)
  <2>1. CASE info.ranges /\ info.size > 0 /\ Segments > 1
    BY <1>5, <2>1, SplitShape
  <2>2. CASE ~(info.ranges /\ info.size > 0 /\ Segments > 1)
    <3>1. segs = <<one>> /\ Len(segs) = 1 /\ DOMAIN segs = {1} /\ segs[1] = one
      BY <1>5, <2>2
    <3>2. Inside(one) /\ one.start = 0
      BY <1>1, <1>3, <1>4 DEF Inside
    <3>3. \A b \in Places : Has(one, b)
      BY <1>1, <1>3, <1>4 DEF Has, Places
    <3>4. QED
      BY <1>1, <3>1, <3>2, <3>3
  <2>3. QED
    BY <2>1, <2>2
<1>8. Shaped(NewState(info))
  BY <1>3, <1>6, <1>7 DEF Shaped
<1>9. QED
  BY <1>2, <1>8

----------------------------------------------------------------------------
(* A step leaves the parts it does not touch as they are.                  *)
LEMMA ShapedStays == ASSUME UNCHANGED server PROVE \A s : Shaped(s)' <=> Shaped(s)
  BY DEF Shaped

LEMMA StShaped ==
    ASSUME NEW s, s = st', Shaped(s)', UNCHANGED server
    PROVE  Shaped(st)'
  BY DEF Shaped

LEMMA PublishInit == FetcherInit => PublishIInv
<1> SUFFICES ASSUME FetcherInit PROVE PublishIInv
  OBVIOUS
<1>1. /\ fetch = "idle" /\ saved = {} /\ tmp.holds = {} /\ content = 1 /\ part = NoFile /\ dest = NoFile
      /\ \A w \in Writers : writer[w].at = "off"
  BY DEF FetcherInit, NoWrites, NoWrite
<1>2. ShapesInv /\ PartThere /\ Unread /\ Finished /\ ReadsInv
  BY <1>1 DEF ShapesInv, PartThere, Unread, Finished, ReadsInv
<1>3. Accurate /\ PublishedWhole
  BY <1>1, Zenon DEF Accurate, PublishedWhole, NoFile
<1> QED
  BY <1>2, <1>3 DEF PublishIInv

(* Fetch returns, with files that are right.                               *)
LEMMA ReturnsWhole ==
    ASSUME FetcherIInv, PublishIInv, Return, UNCHANGED server,
           \A s \in saved' : Shaped(s), \A s \in tmp'.holds : Shaped(s), Accurate', PublishedWhole'
    PROVE  PublishIInv'
<1>1. fetch' = "idle" /\ \A w \in Writers : writer'[w].at = "off"
  BY DEF Return, NoWrites, NoWrite
<1>2. ShapesInv'
  BY <1>1, ShapedStays DEF ShapesInv
<1> QED
  BY <1>1, <1>2 DEF PublishIInv, PartThere, Unread, Finished, ReadsInv

LEMMA AccurateStays == ASSUME Accurate, UNCHANGED <<server, content, part>> PROVE Accurate'
  BY DEF Accurate, Steady

LEMMA WholeStays == ASSUME PublishedWhole, UNCHANGED <<server, dest>> PROVE PublishedWhole'
  BY DEF PublishedWhole

(* The steps of persist change the states that are kept, and nothing of    *)
(* the run.                                                                *)
LEMMA PersistStep ==
    ASSUME PublishIInv, UNCHANGED <<part, dest, st, seg, fetch, server, content>>,
           \A s \in saved' : Shaped(s), \A s \in tmp'.holds : Shaped(s),
           \A w \in Writers : writer'[w].at # "off" => \A s \in writer'[w].snap : Shaped(s)
    PROVE  PublishIInv'
<1>1. ShapesInv'
  <2>1. fetch \notin {"idle", "probe"} => Shaped(st)'
    BY DEF PublishIInv, ShapesInv, Shaped
  <2>2. QED
    BY <2>1, ShapedStays DEF ShapesInv
<1>2. PartThere' /\ Unread' /\ Finished'
  BY DEF PublishIInv, PartThere, Unread, Finished, Sure, Steady
<1>3. ReadsInv'
  BY DEF PublishIInv, ReadsInv, Reads, Through, From, Steady
<1> QED
  BY <1>1, <1>2, <1>3, AccurateStays, WholeStays DEF PublishIInv

LEMMA SnapshotWhole ==
    ASSUME FetcherIInv, PublishIInv, NEW w \in Writers, Snapshot(w) PROVE PublishIInv'
<1>1. /\ UNCHANGED <<part, saved, tmp, dest, st, seg, fetch, server, content>> /\ Shaped(st)
      /\ writer \in [Writers -> Persists]
  BY DEF Snapshot, Persisting, diskVars, serverVars, FetcherIInv, Typed, PublishIInv, ShapesInv
<1>2. \A v \in Writers : v # w => writer'[v] = writer[v]
  BY <1>1 DEF Snapshot
<1>3. writer'[w].snap = {st}
  BY <1>1 DEF Snapshot
<1>4. \A v \in Writers : writer'[v].at # "off" => \A s \in writer'[v].snap : Shaped(s)
  BY <1>1, <1>2, <1>3 DEF PublishIInv, ShapesInv
<1>5. (\A s \in saved' : Shaped(s)) /\ \A s \in tmp'.holds : Shaped(s)
  BY <1>1 DEF PublishIInv, ShapesInv
<1> QED
  BY <1>1, <1>4, <1>5, PersistStep

LEMMA OpenTmpWhole ==
    ASSUME FetcherIInv, PublishIInv, NEW w \in Writers, OpenTmp(w) PROVE PublishIInv'
<1>1. /\ UNCHANGED <<part, saved, dest, st, seg, fetch, server, content>> /\ tmp'.holds = {}
      /\ writer \in [Writers -> Persists] /\ writer[w].at = "open"
  BY DEF OpenTmp, serverVars, FetcherIInv, Typed
<1>2. \A v \in Writers : writer'[v].snap = writer[v].snap /\ (writer'[v].at # "off" => writer[v].at # "off")
  BY <1>1 DEF OpenTmp, Persists
<1>3. /\ \A s \in saved' : Shaped(s)
      /\ \A s \in tmp'.holds : Shaped(s)
      /\ \A v \in Writers : writer'[v].at # "off" => \A s \in writer'[v].snap : Shaped(s)
  BY <1>1, <1>2 DEF PublishIInv, ShapesInv
<1> QED
  BY <1>1, <1>3, PersistStep

LEMMA WriteTmpWhole ==
    ASSUME FetcherIInv, PublishIInv, NEW w \in Writers, WriteTmp(w) PROVE PublishIInv'
<1>1. /\ UNCHANGED <<part, dest, st, seg, fetch, server, content>>
      /\ writer \in [Writers -> Persists] /\ writer[w].at = "write"
      /\ tmp \in [exists : BOOLEAN, holds : SUBSET States]
  BY DEF WriteTmp, serverVars, FetcherIInv, Typed
<1>2. \A v \in Writers : writer'[v].snap = writer[v].snap /\ (writer'[v].at # "off" => writer[v].at # "off")
  BY <1>1 DEF WriteTmp, Persists
<1>3. \A old : \A h \in Overwritten(w, old) : h = writer[w].snap \/ h = {}
  BY DEF Overwritten
<1>4. /\ tmp'.holds \in {tmp.holds, writer[w].snap, {}}
      /\ saved' \in {saved, writer[w].snap, {}}
  <2>1. CASE writer[w].fd = "tmp"
    BY <1>1, <1>3, <2>1 DEF WriteTmp
  <2>2. CASE writer[w].fd = "state"
    BY <1>1, <1>3, <2>2 DEF WriteTmp
  <2>3. CASE writer[w].fd = "gone"
    BY <1>1, <1>3, <2>3 DEF WriteTmp
  <2>4. QED
    BY <1>1, <2>1, <2>2, <2>3 DEF Persists
<1>5. /\ \A s \in saved' : Shaped(s)
      /\ \A s \in tmp'.holds : Shaped(s)
      /\ \A v \in Writers : writer'[v].at # "off" => \A s \in writer'[v].snap : Shaped(s)
  BY <1>1, <1>2, <1>4 DEF PublishIInv, ShapesInv
<1> QED
  BY <1>1, <1>5, PersistStep

LEMMA RenameTmpWhole ==
    ASSUME FetcherIInv, PublishIInv, NEW w \in Writers, RenameTmp(w) PROVE PublishIInv'
<1>1. /\ UNCHANGED <<part, dest, server, content>> /\ writer[w].at = "rename"
      /\ tmp'.holds = {} /\ saved' \in {tmp.holds, saved}
      /\ writer \in [Writers -> Persists]
  BY DEF RenameTmp, serverVars, FetcherIInv, Typed
<1>2. (\A s \in saved' : Shaped(s)) /\ \A s \in tmp'.holds : Shaped(s)
  BY <1>1 DEF PublishIInv, ShapesInv
<1>3. CASE w = 0
  BY <1>1, <1>2, <1>3, ReturnsWhole, AccurateStays, WholeStays DEF RenameTmp, PublishIInv
<1>4. CASE w # 0
  <2>1. /\ w \in 1 .. Segments /\ fetch = "wait" /\ seg[w].at \in {"persist", "last"}
        /\ UNCHANGED <<st, fetch>> /\ seg \in [1 .. Segments -> Goroutines]
    BY <1>1, <1>4, FetcherAssumption DEF RenameTmp, FetcherIInv, WritersPlaced, Writers, Typed
  <2>2. PICK g : g = [seg[w] EXCEPT !.at = IF seg[w].at = "last" THEN "ended" ELSE "read"]
    OBVIOUS
  <2>3. /\ seg' = [seg EXCEPT ![w] = g] /\ g.pos = seg[w].pos /\ g.src = seg[w].src /\ g.last = seg[w].last
        /\ (g.at = "ended" /\ seg[w].at = "last") \/ (g.at = "read" /\ seg[w].at = "persist")
    BY <1>4, <2>1, <2>2 DEF RenameTmp, SegmentGoes, Goroutines
  <2>4. seg'[w] = g /\ \A j \in 1 .. Segments : j # w => seg'[j] = seg[j]
    BY <2>1, <2>3
  <2>5. \A v \in Writers : writer'[v].at # "off" => writer[v].at # "off" /\ writer'[v].snap = writer[v].snap
    <3>1. writer' = [v \in Writers |-> IF v = w THEN NoWrite ELSE [writer[v] EXCEPT !.fd = Moved(@)]]
      BY <1>4 DEF RenameTmp
    <3>2. NoWrite.at = "off"
      BY DEF NoWrite
    <3>3. \A v \in Writers : /\ [writer[v] EXCEPT !.fd = Moved(@)].at = writer[v].at
                             /\ [writer[v] EXCEPT !.fd = Moved(@)].snap = writer[v].snap
      BY <1>1 DEF Persists
    <3>4. QED
      BY <3>1, <3>2, <3>3
  <2>6. ShapesInv'
    <3>1. Shaped(st)'
      BY <1>1, <2>1 DEF PublishIInv, ShapesInv, Shaped
    <3>2. \A v \in Writers : writer'[v].at # "off" => \A s \in writer'[v].snap : Shaped(s)
      BY <2>5 DEF PublishIInv, ShapesInv
    <3>3. QED
      BY <1>1, <1>2, <3>1, <3>2, ShapedStays DEF ShapesInv
  <2>7. PartThere' /\ Unread' /\ Finished'
    BY <1>1, <2>1 DEF PublishIInv, PartThere, Unread, Finished
  <2>8. ReadsInv'
    <3> SUFFICES ASSUME Steady, NEW j \in 1 .. Segments PROVE Reads(j)'
      BY <1>1 DEF ReadsInv, Steady
    <3>1. Reads(j) /\ (Through(j)' <=> Through(j))
      BY <2>1 DEF PublishIInv, ReadsInv, Through, From
    <3>2. CASE j = w
      BY <2>1, <2>3, <2>4, <3>1, <3>2 DEF Reads
    <3>3. CASE j # w
      BY <2>1, <2>4, <3>1, <3>3 DEF Reads
    <3>4. QED
      BY <3>2, <3>3
  <2>9. QED
    BY <1>1, <2>6, <2>7, <2>8, AccurateStays, WholeStays DEF PublishIInv
<1> QED
  BY <1>3, <1>4

----------------------------------------------------------------------------
(* The steps of Fetch itself.                                              *)
LEMMA ProbeWhole == ASSUME FetcherIInv, PublishIInv, Probe PROVE PublishIInv'
<1>1. /\ UNCHANGED <<saved, tmp, dest, writer, server, content>> /\ fetch' \in {"forget", "run"}
      /\ part' = [part EXCEPT !.exists = TRUE] /\ part \in PartType
  BY DEF Probe, serverVars, FetcherIInv, Typed
<1>2. PICK s : s = st'
  OBVIOUS
<1>3. \/ s \in saved /\ Matches(s, Info) /\ Info.ranges /\ fetch' = "run"
      \/ s = NewState(Info) /\ fetch' = "forget"
  BY <1>2 DEF Probe, Resumable
<1>4. Shaped(s) /\ (~s.ranges => \A i \in DOMAIN s.segs : s.segs[i].done = 0)
  <2>1. CASE s \in saved /\ Matches(s, Info) /\ Info.ranges
    BY <2>1 DEF PublishIInv, ShapesInv, Matches
  <2>2. CASE s = NewState(Info)
    BY <2>2, NewStateShaped, NewStateType DEF FetcherIInv
  <2>3. QED
    BY <1>3, <2>1, <2>2
<1>5. part'.exists /\ part'.data = part.data /\ part'.long = part.long
  BY <1>1 DEF PartType
<1>6. Shaped(st)'
  BY <1>1, <1>2, <1>4, ShapedStays, StShaped
<1>7. ShapesInv'
  BY <1>1, <1>6, ShapedStays DEF PublishIInv, ShapesInv
<1>8. PartThere' /\ Unread' /\ Finished' /\ ReadsInv'
  BY <1>1, <1>2, <1>4, <1>5 DEF PartThere, Unread, Finished, ReadsInv
<1>9. Accurate'
  BY <1>1, <1>5 DEF PublishIInv, Accurate, Steady
<1> QED
  BY <1>1, <1>7, <1>8, <1>9, WholeStays DEF PublishIInv

(* What a step of Fetch leaves when it changes neither session nor file.   *)
LEMMA KeptWhole ==
    ASSUME FetcherIInv, PublishIInv, UNCHANGED <<part, tmp, dest, st, server, writer>>,
           saved' \subseteq saved, fetch \notin {"idle", "probe"} \/ fetch' = "probe"
    PROVE  ShapesInv' /\ PartThere' /\ PublishedWhole'
<1>1. ShapesInv'
  <2>1. fetch' \notin {"idle", "probe"} => Shaped(st)'
    BY DEF PublishIInv, ShapesInv, Shaped
  <2>2. /\ \A s \in saved : Shaped(s)'
        /\ \A s \in tmp.holds : Shaped(s)'
        /\ \A w \in Writers : writer[w].at # "off" => \A s \in writer[w].snap : Shaped(s)'
    BY ShapedStays DEF PublishIInv, ShapesInv
  <2>3. QED
    BY <2>1, <2>2 DEF ShapesInv
<1>2. PartThere'
  BY DEF PublishIInv, PartThere
<1> QED
  BY <1>1, <1>2, WholeStays DEF PublishIInv

LEMMA FetchWhole ==
    ASSUME FetcherIInv, PublishIInv, CallFetch \/ ForgetState \/ RemoveState
    PROVE  PublishIInv'
<1>1. /\ UNCHANGED <<part, tmp, dest, st, server, content, writer>> /\ saved' \subseteq saved
      /\ fetch' # "wait"
      /\ \/ fetch' = "probe"
         \/ fetch = "forget" /\ fetch' = "truncate"
         \/ fetch = "remove" /\ fetch' = "publish"
  BY DEF CallFetch, ForgetState, RemoveState, diskVars, runVars, serverVars
<1>2. ShapesInv' /\ PartThere' /\ PublishedWhole'
  BY <1>1, KeptWhole
<1>3. Unread' /\ Finished' /\ ReadsInv'
  BY <1>1 DEF PublishIInv, Unread, Finished, ReadsInv, Sure, Steady
<1> QED
  BY <1>1, <1>2, <1>3, AccurateStays DEF PublishIInv

LEMMA StartWhole == ASSUME FetcherIInv, PublishIInv, StartSegments PROVE PublishIInv'
<1>1. /\ UNCHANGED <<part, saved, tmp, dest, st, server, content, writer>>
      /\ fetch = "run" /\ fetch' = "wait"
  BY DEF StartSegments, diskVars, serverVars
<1>2. ShapesInv' /\ PartThere' /\ PublishedWhole'
  BY <1>1, KeptWhole
<1>3. Unread' /\ Finished'
  BY <1>1 DEF Unread, Finished
<1>4. DOMAIN st.segs = 1 .. Len(st.segs) /\ Len(st.segs) \in Nat
  BY DEF FetcherIInv, Typed, States
<1>5. \A i \in 1 .. Segments :
        \/ seg'[i].at = "request" /\ i \in DOMAIN st.segs
        \/ seg'[i].at = "off" /\ (i \in DOMAIN st.segs => Complete(st.segs[i]))
  BY <1>4, FetcherAssumption DEF StartSegments, Idle
<1>6. ReadsInv'
  <2> SUFFICES ASSUME NEW i \in 1 .. Segments PROVE Reads(i)'
    BY DEF ReadsInv
  <2>1. CASE seg'[i].at = "request" /\ i \in DOMAIN st.segs
    BY <1>1, <2>1 DEF PublishIInv, Unread, Reads
  <2>2. CASE seg'[i].at = "off" /\ (i \in DOMAIN st.segs => Complete(st.segs[i]))
    <3>1. ASSUME i \in DOMAIN st.segs PROVE Through(i)
      <4>1. st.segs[i] \in SegTypes
        BY <3>1 DEF FetcherIInv, Typed, States
      <4>2. st.segs[i].end >= 0 /\ st.segs[i].done >= st.segs[i].end - st.segs[i].start + 1
        BY <2>2, <3>1 DEF Complete
      <4>3. QED
        BY <4>1, <4>2 DEF Through, From, SegTypes
    <3>2. i \in DOMAIN st.segs => Through(i)'
      BY <1>1, <3>1 DEF Through, From
    <3>3. QED
      BY <1>1, <2>2, <3>2 DEF Reads
  <2>3. QED
    BY <1>5, <2>1, <2>2
<1> QED
  BY <1>1, <1>2, <1>3, <1>6, AccurateStays DEF PublishIInv

LEMMA TruncateWhole == ASSUME FetcherIInv, PublishIInv, Truncate PROVE PublishIInv'
<1>1. /\ UNCHANGED <<saved, tmp, dest, st, writer, server, content>>
      /\ fetch = "truncate" /\ fetch' = "run" /\ part \in PartType
      /\ part' = [part EXCEPT !.long = FALSE, !.data = IF st.size > 0 THEN @ ELSE NoFile.data]
  BY DEF Truncate, runVars, serverVars, FetcherIInv, Typed
<1>2. /\ part'.exists = part.exists /\ part'.long = FALSE
      /\ part'.data = part.data \/ part'.data = [b \in Places |-> Hole]
  BY <1>1 DEF PartType, NoFile
<1>3. ShapesInv'
  <2>1. Shaped(st)'
    BY <1>1 DEF PublishIInv, ShapesInv, Shaped
  <2>2. QED
    BY <1>1, <2>1, ShapedStays DEF PublishIInv, ShapesInv
<1>4. PartThere' /\ Unread' /\ Finished' /\ ReadsInv'
  BY <1>1, <1>2 DEF PublishIInv, PartThere, Unread, Finished, ReadsInv
<1>5. Accurate'
  BY <1>1, <1>2 DEF PublishIInv, Accurate, Steady
<1> QED
  BY <1>1, <1>3, <1>4, <1>5, WholeStays DEF PublishIInv

----------------------------------------------------------------------------
(* The steps of a goroutine.                                               *)

(* One that leaves the session's state alone.                              *)
LEMMA GoroutineWhole ==
    ASSUME FetcherIInv, PublishIInv, NEW i \in 1 .. Segments, NEW g, fetch = "wait",
           seg' = [seg EXCEPT ![i] = g], part'.exists = part.exists,
           UNCHANGED <<saved, tmp, dest, st, writer, fetch, server, content>>,
           Accurate', Steady => Reads(i)'
    PROVE  PublishIInv'
<1>1. \A j \in 1 .. Segments : j # i => seg'[j] = seg[j]
  BY DEF FetcherIInv, Typed
<1>2. ShapesInv'
  <2>1. Shaped(st)'
    BY DEF PublishIInv, ShapesInv, Shaped
  <2>2. QED
    BY <2>1, ShapedStays DEF PublishIInv, ShapesInv
<1>3. PartThere' /\ Unread' /\ Finished'
  BY DEF PublishIInv, PartThere, Unread, Finished
<1>4. ReadsInv'
  <2> SUFFICES ASSUME Steady, NEW j \in 1 .. Segments, j # i PROVE Reads(j)'
    BY DEF ReadsInv, Steady
  <2>1. Reads(j) /\ (Through(j)' <=> Through(j)) /\ seg'[j] = seg[j]
    BY <1>1 DEF PublishIInv, ReadsInv, Through, From
  <2>2. QED
    BY <2>1 DEF Reads
<1> QED
  BY <1>2, <1>3, <1>4, WholeStays DEF PublishIInv

(* What is known of a goroutine when the server does what it is asked.     *)
LEMMA Serving ==
    ASSUME FetcherIInv, PublishIInv, fetch = "wait", NEW i \in 1 .. Segments, i \in DOMAIN st.segs
    PROVE  /\ Inside(st.segs[i]) /\ (~st.ranges => st.segs[i].start = 0)
           /\ st.segs[i] \in SegTypes
           /\ Steady => Reads(i)
<1>1. st.segs[i] \in SegTypes
  BY DEF FetcherIInv, Typed, States
<1>2. Shaped(st)
  BY DEF PublishIInv, ShapesInv
<1>3. Steady => Reads(i)
  BY DEF PublishIInv, ReadsInv
<1> QED
  BY <1>1, <1>2, <1>3 DEF Shaped

LEMMA RespondWhole ==
    ASSUME FetcherIInv, PublishIInv, NEW i \in 1 .. Segments, Respond(i) PROVE PublishIInv'
<1>1. /\ fetch = "wait" /\ seg[i].at = "request" /\ i \in DOMAIN st.segs
      /\ UNCHANGED <<part, saved, tmp, dest, st, writer, fetch, server, content>>
      /\ seg \in [1 .. Segments -> Goroutines]
  BY Working DEF Respond, Placed, FetcherIInv, Typed, diskVars, serverVars
<1>2. CASE SegmentGoes(i, "failed")
  <2>1. PICK g : g = [seg[i] EXCEPT !.at = "failed"]
    OBVIOUS
  <2>2. seg' = [seg EXCEPT ![i] = g] /\ seg'[i].at = "failed"
    BY <1>1, <1>2, <2>1 DEF SegmentGoes, Goroutines
  <2>3. Reads(i)'
    BY <2>2 DEF Reads
  <2>4. QED
    BY <1>1, <2>2, <2>3, GoroutineWhole, AccurateStays DEF PublishIInv
<1>3. ASSUME NEW src, NEW last, Answered(i, src, last),
             Steady => src = From(i) /\ last < Size
                       /\ last >= (IF st.segs[i].end >= 0 THEN st.segs[i].end ELSE Size - 1)
      PROVE  PublishIInv'
  <2>1. PICK g : g = [at |-> "read", pos |-> From(i), src |-> src, last |-> last]
    OBVIOUS
  <2>2. seg' = [seg EXCEPT ![i] = g] /\ seg'[i] = g
    BY <1>1, <1>3, <2>1 DEF Answered
  <2>3. Steady => Reads(i)'
    BY <1>1, <1>3, <2>1, <2>2 DEF Reads
  <2>4. QED
    BY <1>1, <2>2, <2>3, GoroutineWhole, AccurateStays DEF PublishIInv
<1>4. PICK end : end = st.segs[i].end
  OBVIOUS
<1>5. /\ end \in Int /\ end < Size /\ Size \in Nat \ {0}
      /\ Steady /\ ~st.ranges => From(i) = 0
  <2>1. Inside(st.segs[i]) /\ (~st.ranges => st.segs[i].start = 0) /\ st.segs[i] \in SegTypes
        /\ (Steady => Reads(i))
    BY <1>1, Serving
  <2>2. Steady /\ ~st.ranges => st.segs[i].done = 0
    BY <1>1, <2>1 DEF Reads
  <2>3. QED
    BY <1>4, <2>1, <2>2, FetcherAssumption DEF Inside, From, SegTypes
<1>6. CASE st.ranges /\ end >= 0 /\ Answered(i, From(i), end)
  BY <1>3, <1>4, <1>5, <1>6
<1>7. CASE end < 0 /\ Answered(i, From(i), Size - 1)
  BY <1>3, <1>4, <1>5, <1>7
<1>8. CASE (~st.ranges \/ ~server.whole) /\ Answered(i, 0, Size - 1)
  BY <1>3, <1>4, <1>5, <1>8 DEF Steady
<1> QED
  BY <1>2, <1>4, <1>6, <1>7, <1>8 DEF Respond

LEMMA SegmentEndsWhole ==
    ASSUME FetcherIInv, PublishIInv, NEW i \in 1 .. Segments, SegmentFails(i) \/ EndOfBody(i)
    PROVE  PublishIInv'
<1>1. /\ fetch = "wait" /\ i \in DOMAIN st.segs
      /\ UNCHANGED <<part, saved, tmp, dest, st, writer, fetch, server, content>>
      /\ seg \in [1 .. Segments -> Goroutines]
  BY Working DEF SegmentFails, EndOfBody, Placed, FetcherIInv, Typed, diskVars, serverVars
<1>2. PICK at \in {"failed", "last"} : SegmentGoes(i, at) /\ (at = "last" => EndOfBody(i))
  BY DEF SegmentFails, EndOfBody
<1>3. PICK g : g = [seg[i] EXCEPT !.at = at]
  OBVIOUS
<1>4. seg' = [seg EXCEPT ![i] = g] /\ seg'[i] = g /\ g.at = at
  BY <1>1, <1>2, <1>3 DEF SegmentGoes, Goroutines
<1>5. ASSUME Steady, EndOfBody(i) PROVE Through(i)
  <2>1. /\ seg[i].at = "read" /\ seg[i].src > seg[i].last /\ seg[i].pos = From(i)
        /\ From(i) \in Int /\ seg[i] \in Goroutines
    BY <1>1, <1>5, Working DEF EndOfBody, Steady, Placed
  <2>2. /\ seg[i].src = seg[i].pos
        /\ seg[i].last >= (IF st.segs[i].end >= 0 THEN st.segs[i].end ELSE Size - 1)
        /\ st.segs[i] \in SegTypes
    BY <1>1, <1>5, <2>1, Serving DEF Reads
  <2>3. QED
    BY <2>1, <2>2, FetcherAssumption DEF Through, Goroutines, SegTypes
<1>6. Steady => Reads(i)'
  <2>1. at = "last" /\ Steady => Through(i)'
    BY <1>1, <1>2, <1>5 DEF Through, From
  <2>2. QED
    BY <1>4, <2>1 DEF Reads
<1> QED
  BY <1>1, <1>4, <1>6, GoroutineWhole, AccurateStays DEF PublishIInv

LEMMA WriteBlockWhole ==
    ASSUME FetcherIInv, PublishIInv, NEW i \in 1 .. Segments, WriteBlock(i) PROVE PublishIInv'
<1>1. /\ fetch = "wait" /\ seg[i].at = "read" /\ i \in DOMAIN st.segs
      /\ UNCHANGED <<saved, tmp, dest, st, writer, fetch, server, content>>
      /\ seg \in [1 .. Segments -> Goroutines] /\ part \in PartType
      /\ seg[i].src <= seg[i].last /\ seg[i].pos = From(i) /\ From(i) \in Int
  BY Working DEF WriteBlock, Placed, FetcherIInv, Typed, serverVars
<1>2. PICK p, src : p = seg[i].pos /\ src = seg[i].src
  OBVIOUS
<1>3. p \in Int /\ src \in Int /\ seg[i] \in Goroutines
  BY <1>1, <1>2 DEF Goroutines
<1>4. part' = IF p \in Places THEN [part EXCEPT !.data[p] = <<content, src>>]
                              ELSE [part EXCEPT !.long = TRUE]
  BY <1>2 DEF WriteBlock
<1>5. PICK g : g = [seg[i] EXCEPT !.pos = p + 1, !.src = src + 1, !.at = "commit"]
  OBVIOUS
<1>6. /\ seg' = [seg EXCEPT ![i] = g] /\ seg'[i] = g
      /\ g.at = "commit" /\ g.pos = p + 1 /\ g.src = src + 1 /\ g.last = seg[i].last
  <2>1. seg' = [seg EXCEPT ![i] = [seg[i] EXCEPT !.pos = seg[i].pos + 1, !.src = seg[i].src + 1, !.at = "commit"]]
    BY <1>1 DEF WriteBlock
  <2>2. seg' = [seg EXCEPT ![i] = g] /\ seg'[i] = g
    BY <1>1, <1>2, <1>5, <2>1
  <2>3. QED
    BY <1>3, <1>5, <2>2 DEF Goroutines
<1>7. part'.exists = part.exists
  BY <1>1, <1>4 DEF PartType
<1>8. ASSUME Steady
      PROVE  /\ p = src /\ p \in Places /\ seg[i].last < Size
             /\ seg[i].last >= (IF st.segs[i].end >= 0 THEN st.segs[i].end ELSE Size - 1)
  <2>1. /\ Inside(st.segs[i]) /\ st.segs[i] \in SegTypes /\ Reads(i)
    BY <1>1, <1>8, Serving
  <2>2. /\ p = src /\ seg[i].last < Size
        /\ seg[i].last >= (IF st.segs[i].end >= 0 THEN st.segs[i].end ELSE Size - 1)
    BY <1>1, <1>2, <2>1 DEF Reads
  <2>3. p >= 0
    BY <1>1, <1>2, <2>1 DEF Inside, From, SegTypes
  <2>4. p \in Places
    BY <1>1, <1>2, <1>3, <2>2, <2>3, FetcherAssumption DEF Places, Goroutines
  <2>5. QED
    BY <2>2, <2>4
<1>9. Accurate'
  <2> SUFFICES ASSUME Steady PROVE (content = 1 /\ ~part.long
                                   /\ \A b \in Places : part.data[b] \in {Hole, <<1, b>>})'
    BY <1>1 DEF Accurate, Steady
  <2>1. content = 1 /\ ~part.long /\ \A b \in Places : part.data[b] \in {Hole, <<1, b>>}
    BY DEF PublishIInv, Accurate
  <2>2. p \in Places /\ part' = [part EXCEPT !.data[p] = <<1, p>>]
    BY <1>4, <1>8, <2>1
  <2>3. part'.long = part.long /\ part'.data = [part.data EXCEPT ![p] = <<1, p>>]
    BY <1>1, <2>2 DEF PartType
  <2>4. \A b \in Places : part'.data[b] = IF b = p THEN <<1, p>> ELSE part.data[b]
    BY <1>1, <2>3 DEF PartType
  <2>5. QED
    BY <1>1, <2>1, <2>3, <2>4
<1>10. Steady => Reads(i)'
  BY <1>1, <1>6, <1>8 DEF Reads
<1> QED
  BY <1>1, <1>6, <1>7, <1>9, <1>10, GoroutineWhole

LEMMA CommitWhole ==
    ASSUME FetcherIInv, PublishIInv, NEW i \in 1 .. Segments, Commit(i) PROVE PublishIInv'
<1>1. /\ fetch = "wait" /\ seg[i].at = "commit" /\ seg[i].pos = From(i) + 1
      /\ UNCHANGED <<part, saved, tmp, dest, writer, fetch, server, content>>
      /\ i \in DOMAIN st.segs /\ seg \in [1 .. Segments -> Goroutines]
      /\ seg[i] \in Goroutines /\ st.segs[i] \in SegTypes /\ From(i) \in Int /\ st \in States
  BY Working DEF Commit, Placed, FetcherIInv, Typed, diskVars, serverVars
<1>2. PICK old : old = st.segs[i]
  OBVIOUS
<1>3. PICK new : new = [old EXCEPT !.done = seg[i].pos - old.start]
  OBVIOUS
<1>4. /\ new \in SegTypes /\ new.start = old.start /\ new.end = old.end /\ new.done = old.done + 1
      /\ old \in SegTypes
  BY <1>1, <1>2, <1>3 DEF SegTypes, From
<1>5. st' = [st EXCEPT !.segs = [st.segs EXCEPT ![i] = new]]
  BY <1>1, <1>2, <1>3 DEF Commit
<1>6. /\ DOMAIN st'.segs = DOMAIN st.segs /\ Len(st'.segs) = Len(st.segs) /\ st'.segs[i] = new
      /\ st'.ranges = st.ranges
      /\ \A j \in DOMAIN st.segs : j # i => st'.segs[j] = st.segs[j]
  <2>1. st'.segs = [st.segs EXCEPT ![i] = new] /\ st'.ranges = st.ranges
    BY <1>1, <1>5 DEF States
  <2>2. st.segs \in Seq(SegTypes)
    BY <1>1 DEF States
  <2>3. QED
    BY <1>1, <1>4, <2>1, <2>2
<1>7. PICK at \in {"persist", "read"} : seg' = [seg EXCEPT ![i].at = at]
  BY DEF Commit, SegmentGoes
<1>8. PICK g : g = [seg[i] EXCEPT !.at = at]
  OBVIOUS
<1>9. /\ seg'[i] = g /\ g.at = at /\ g.pos = seg[i].pos /\ g.src = seg[i].src /\ g.last = seg[i].last
      /\ \A j \in 1 .. Segments : j # i => seg'[j] = seg[j]
  BY <1>1, <1>7, <1>8 DEF Goroutines, SegAt
<1>10. ShapesInv'
  <2>1. PICK s : s = st'
    OBVIOUS
  <2>2. Shaped(st)
    BY <1>1 DEF PublishIInv, ShapesInv
  <2>3. Shaped(s)
    <3>1. s.ranges = server.ranges /\ Len(s.segs) <= Segments
      BY <1>6, <2>1, <2>2 DEF Shaped
    <3>2. \A j \in DOMAIN s.segs : Inside(s.segs[j]) /\ (~s.ranges => s.segs[j].start = 0)
      <4>1. Inside(new) /\ (~s.ranges => new.start = 0)
        BY <1>1, <1>2, <1>4, <1>6, <2>1, <2>2 DEF Shaped, Inside, SegTypes
      <4>2. QED
        BY <1>6, <2>1, <2>2, <4>1 DEF Shaped
    <3>3. \A b \in Places : \E j \in DOMAIN s.segs : Has(s.segs[j], b)
      <4>1. \A b \in Places : \A j \in DOMAIN st.segs : Has(st.segs[j], b) => Has(s.segs[j], b)
        BY <1>2, <1>4, <1>6, <2>1 DEF Has
      <4>2. QED
        BY <1>6, <2>1, <2>2, <4>1 DEF Shaped
    <3>4. QED
      BY <3>1, <3>2, <3>3 DEF Shaped
  <2>4. Shaped(st)'
    BY <1>1, <2>1, <2>3, ShapedStays, StShaped
  <2>5. QED
    BY <1>1, <2>4, ShapedStays DEF PublishIInv, ShapesInv
<1>11. PartThere' /\ Unread' /\ Finished'
  BY <1>1 DEF PublishIInv, PartThere, Unread, Finished
<1>12. ReadsInv'
  <2> SUFFICES ASSUME Steady, NEW j \in 1 .. Segments PROVE Reads(j)'
    BY <1>1 DEF ReadsInv, Steady
  <2>1. Reads(j)
    BY <1>1 DEF PublishIInv, ReadsInv
  <2>2. CASE j = i
    BY <1>1, <1>2, <1>4, <1>6, <1>9, <2>1, <2>2 DEF Reads
  <2>3. CASE j # i
    <3>1. j \in DOMAIN st.segs => (Through(j)' <=> Through(j))
      BY <1>6, <2>3 DEF Through, From
    <3>2. seg[j] \in Goroutines /\ seg'[j] = seg[j]
          /\ (seg[j].at \in {"request", "read", "commit", "persist"} => j \in DOMAIN st.segs)
      BY <1>1, <1>9, <2>3, Working DEF Placed
    <3>3. QED
      BY <1>6, <2>1, <2>3, <3>1, <3>2 DEF Reads
  <2>4. QED
    BY <2>2, <2>3
<1> QED
  BY <1>1, <1>10, <1>11, <1>12, AccurateStays, WholeStays DEF PublishIInv

----------------------------------------------------------------------------
(* The end of Fetch.                                                       *)

(* A run whose goroutines all came through left no hole.                   *)
LEMMA RunLeavesWhole ==
    ASSUME FetcherIInv, PublishIInv, Steady, fetch = "wait", Ended, ~Failed
    PROVE  part = Content(1)
<1>1. /\ Shaped(st) /\ Written(st) /\ part.exists /\ ~part.long /\ part \in PartType
      /\ \A b \in Places : part.data[b] \in {Hole, <<1, b>>}
  BY DEF FetcherIInv, Typed, StateWritten, PublishIInv, ShapesInv, PartThere, Accurate
<1>2. DOMAIN st.segs = 1 .. Len(st.segs) /\ Len(st.segs) \in Nat /\ DOMAIN seg = 1 .. Segments
  BY DEF FetcherIInv, Typed, States
<1>3. \A i \in DOMAIN st.segs : Through(i) /\ st.segs[i] \in SegTypes
  <2> SUFFICES ASSUME NEW i \in DOMAIN st.segs PROVE Through(i) /\ st.segs[i] \in SegTypes
    OBVIOUS
  <2>1. i \in 1 .. Segments
    BY <1>1, <1>2, FetcherAssumption DEF Shaped
  <2>2. seg[i].at \in {"off", "ended"}
    BY <1>2, <2>1 DEF Ended, Failed
  <2>3. QED
    BY <2>1, <2>2, Serving DEF Reads
<1>4. \A b \in Places : part.data[b] = <<1, b>>
  <2> SUFFICES ASSUME NEW b \in Places PROVE part.data[b] # Hole
    BY <1>1
  <2>1. PICK i \in DOMAIN st.segs : Has(st.segs[i], b)
    BY <1>1 DEF Shaped
  <2>2. b >= st.segs[i].start /\ b < st.segs[i].start + st.segs[i].done
    BY <1>3, <2>1, FetcherAssumption DEF Has, Through, From, SegTypes, Places
  <2>3. QED
    BY <1>1, <2>2 DEF Written
<1>5. part.data = [b \in Places |-> <<1, b>>]
  BY <1>1, <1>4 DEF PartType
<1>6. part.exists = TRUE /\ part.long = FALSE
  BY <1>1 DEF PartType
<1> QED
  BY <1>1, <1>5, <1>6 DEF PartType, Content

LEMMA RunEndsWhole == ASSUME FetcherIInv, PublishIInv, RunEnds PROVE PublishIInv'
<1>1. UNCHANGED <<part, saved, tmp, dest, server, content>> /\ fetch = "wait" /\ Ended
  BY DEF RunEnds, diskVars, serverVars
<1>2. CASE Return
  BY <1>1, <1>2, ReturnsWhole, AccurateStays, WholeStays DEF PublishIInv, ShapesInv
<1>3. CASE /\ fetch' = (IF Failed THEN "persist" ELSE "remove") /\ UNCHANGED runVars
           /\ ~(~Failed /\ server.checksum /\ part # Content(1))
  <2>1. UNCHANGED <<st, seg, writer>> /\ fetch' \in {"persist", "remove"}
    BY <1>3 DEF runVars
  <2>2. ShapesInv' /\ PartThere' /\ PublishedWhole'
    BY <1>1, <2>1, KeptWhole
  <2>3. Unread' /\ ReadsInv'
    BY <2>1 DEF Unread, ReadsInv
  <2>4. Finished'
    <3>1. fetch' = "remove" /\ Sure => part = Content(1)
      BY <1>1, <1>3, RunLeavesWhole DEF Sure
    <3>2. QED
      BY <1>1, <2>1, <3>1 DEF Finished, Sure, Steady
  <2>5. QED
    BY <1>1, <2>2, <2>3, <2>4, AccurateStays DEF PublishIInv
<1> QED
  BY <1>2, <1>3 DEF RunEnds

LEMMA PublishWhole == ASSUME FetcherIInv, PublishIInv, ProbeFails \/ Publish \/ Kill PROVE PublishIInv'
<1>1. Return /\ UNCHANGED <<saved, tmp, server, content>>
  BY DEF ProbeFails, Publish, Kill, diskVars, serverVars
<1>2. (\A s \in saved' : Shaped(s)) /\ \A s \in tmp'.holds : Shaped(s)
  BY <1>1 DEF PublishIInv, ShapesInv
<1>3. CASE Publish
  <2>1. fetch = "publish" /\ dest' = part /\ part' = NoFile
    BY <1>3 DEF Publish
  <2>2. Accurate'
    BY <1>1, <2>1 DEF PublishIInv, Accurate, Steady, NoFile
  <2>3. PublishedWhole'
    BY <1>1, <2>1 DEF PublishIInv, Finished, Sure, Steady, PublishedWhole
  <2>4. QED
    BY <1>1, <1>2, <2>2, <2>3, ReturnsWhole
<1>4. CASE ProbeFails \/ Kill
  <2>1. UNCHANGED <<part, dest>>
    BY <1>4 DEF ProbeFails, Kill, diskVars
  <2>2. QED
    BY <1>1, <1>2, <2>1, ReturnsWhole, AccurateStays, WholeStays DEF PublishIInv
<1> QED
  BY <1>3, <1>4

(* A new content takes a server that is not steady.                        *)
LEMMA ContentWhole ==
    ASSUME FetcherIInv, PublishIInv, UNCHANGED <<diskVars, runVars, fetch, server>>,
           UNCHANGED content \/ ~server.steady
    PROVE  PublishIInv'
<1>1. UNCHANGED <<part, saved, tmp, dest, st, seg, writer>>
  BY DEF diskVars, runVars
<1>2. ShapesInv'
  <2>1. fetch \notin {"idle", "probe"} => Shaped(st)'
    BY <1>1 DEF PublishIInv, ShapesInv, Shaped
  <2>2. QED
    BY <1>1, <2>1, ShapedStays DEF PublishIInv, ShapesInv
<1>3. PartThere' /\ Unread' /\ Finished'
  BY <1>1 DEF PublishIInv, PartThere, Unread, Finished, Sure, Steady
<1>4. ReadsInv'
  BY <1>1 DEF PublishIInv, ReadsInv, Reads, Through, From, Steady
<1>5. Accurate'
  BY <1>1 DEF PublishIInv, Accurate, Steady
<1> QED
  BY <1>1, <1>2, <1>3, <1>4, <1>5, WholeStays DEF PublishIInv

LEMMA PublishInductive ==
    FetcherIInv /\ PublishIInv /\ [FetcherNext]_fetcherVars => PublishIInv'
<1> SUFFICES ASSUME FetcherIInv, PublishIInv, [FetcherNext]_fetcherVars PROVE PublishIInv'
  OBVIOUS
<1>1. CASE RunSegment
  <2>1. PICK i \in 1 .. Segments :
          Respond(i) \/ SegmentFails(i) \/ WriteBlock(i) \/ Commit(i) \/ EndOfBody(i)
    BY <1>1 DEF RunSegment, FetcherIInv, Typed
  <2>2. QED
    BY <2>1, RespondWhole, SegmentEndsWhole, WriteBlockWhole, CommitWhole
<1>2. CASE Persist
  BY <1>2, SnapshotWhole, OpenTmpWhole, WriteTmpWhole, RenameTmpWhole DEF Persist
<1>3. CASE ContentChanges \/ UNCHANGED fetcherVars
  <2>1. UNCHANGED <<diskVars, runVars, fetch, server>> /\ (UNCHANGED content \/ ~server.steady)
    BY <1>3 DEF ContentChanges, fetcherVars, diskVars, runVars, serverVars
  <2>2. QED
    BY <2>1, ContentWhole
<1>4. CASE CallFetch \/ ForgetState \/ RemoveState \/ Probe \/ StartSegments \/ Truncate
  BY <1>4, FetchWhole, ProbeWhole, StartWhole, TruncateWhole
<1>5. CASE RunEnds \/ ProbeFails \/ Publish \/ Kill
  BY <1>5, RunEndsWhole, PublishWhole
<1> QED
  BY <1>1, <1>2, <1>3, <1>4, <1>5 DEF FetcherNext

(* Whatever kills, failures and resumed attempts went before: the file at  *)
(* the destination is the resource, whole and of one version, if the       *)
(* caller gave a checksum or the server does what it is asked and its      *)
(* resource does not change.                                               *)
THEOREM PublishesWhole == FetcherSpec => []PublishedWhole
<1>1. FetcherIInv /\ PublishIInv /\ [FetcherNext]_fetcherVars => (FetcherIInv /\ PublishIInv)'
  BY FetcherInductive, PublishInductive
<1>2. FetcherInit => FetcherIInv /\ PublishIInv
  BY FetcherInitIInv, PublishInit
<1>3. FetcherIInv /\ PublishIInv => PublishedWhole
  BY DEF PublishIInv
<1> QED
  BY <1>1, <1>2, <1>3, PTL DEF FetcherSpec

-----------------------------------------------------------------------------
(***************************************************************************)
(* Proofs about AssetStore, for any contents, callers and bounds: what Put *)
(* acknowledged stays readable across concurrent Puts and restarts, and    *)
(* what the handler answers is right.  The strengthening says how far each *)
(* call is (PuttersSound, ReadersSound), that both indexes name written    *)
(* blobs of their contents (IndexesSound), and that asset records name     *)
(* acknowledged contents only (AssetsAcked).                               *)
(***************************************************************************)

(* The index in memory is never ahead of the one on disk.                  *)
IndexesSound ==
    /\ \A c \in DOMAIN mapping : Stored(mapping, c)
    /\ \A c \in DOMAIN index : Stored(index, c) /\ c \in DOMAIN mapping

(* A Put stores a blob of its content, the blob before its mapping, the    *)
(* mapping before the entry in memory.                                     *)
PuttersSound == \A w \in Putters : putter[w].at # "free" =>
    /\ putter[w].content \in Contents
    /\ putter[w].blob \in Blobs /\ putter[w].blob[1] = putter[w].content
    /\ ~encrypted => putter[w].blob = <<putter[w].content, 0>>
    /\ putter[w].at \in {"map", "note"} => encrypted /\ putter[w].blob \in DOMAIN blobs
    /\ putter[w].at = "note" => putter[w].content \in DOMAIN mapping

AssetsAcked == \A id \in DOMAIN assets : {assets[id].sha, assets[id].web} \subseteq acked \cup {NoContent}

(* A request past the authorizer wants an acknowledged content and reads a *)
(* blob of it.                                                             *)
ReadersSound == \A r \in Readers : reader[r].at # "free" =>
    /\ Authorized(reader[r].principal, reader[r].asset)
    /\ reader[r].want \in {reader[r].asset.sha, reader[r].asset.web}
    /\ reader[r].want \in acked
    /\ reader[r].at = "read" => reader[r].blob \in DOMAIN blobs /\ reader[r].blob[1] = reader[r].want

DamageCounted == \A b \in DOMAIN blobs : ~blobs[b] => rots > 0

Counters == {puts, rots} \subseteq Nat

AssetIInv == /\ AssetTypeOK /\ Counters /\ IndexesSound /\ PuttersSound /\ AssetsAcked
             /\ ReadersSound /\ DamageCounted /\ AckedReadable /\ ServedIsRight

LEMMA IdleTypes == Free \in Calls /\ Quiet \in Readings /\ NoAsset \in Assets
  BY DEF Free, Quiet, Calls, Readings, Stages, Statuses, NoAsset, Assets, Principals

(* What a step makes of a request.                                         *)
LEMMA ReadingSteps ==
    ASSUME NEW q \in Readings
    PROVE  /\ \A b \in Blobs : [q EXCEPT !.at = "read", !.blob = b] \in Readings
           /\ \A status \in Statuses, bytes \in Contents \cup {NoContent} :
                [q EXCEPT !.at = "free", !.status = status, !.bytes = bytes] \in Readings
           /\ \A p \in Principals, a \in Assets, want \in Contents :
                [q EXCEPT !.at = "lookup", !.principal = p, !.asset = a, !.want = want] \in Readings
           /\ \A status \in Statuses : [q EXCEPT !.status = status] \in Readings
<1>1. {"read", "free", "lookup"} \subseteq Stages
  BY DEF Stages
<1>2. ASSUME NEW b \in Blobs PROVE [q EXCEPT !.at = "read", !.blob = b] \in Readings
  BY <1>1, Zenon DEF Readings
<1>3. ASSUME NEW status \in Statuses, NEW bytes \in Contents \cup {NoContent}
      PROVE  [q EXCEPT !.at = "free", !.status = status, !.bytes = bytes] \in Readings
  BY <1>1, Zenon DEF Readings
<1>4. ASSUME NEW p \in Principals, NEW a \in Assets, NEW want \in Contents
      PROVE  [q EXCEPT !.at = "lookup", !.principal = p, !.asset = a, !.want = want] \in Readings
  BY <1>1, Zenon DEF Readings
<1>5. ASSUME NEW status \in Statuses PROVE [q EXCEPT !.status = status] \in Readings
  BY Zenon DEF Readings
<1> QED
  BY <1>2, <1>3, <1>4, <1>5

(* What With does to a function.                                           *)
LEMMA WithDef ==
    ASSUME NEW f, NEW k, NEW v
    PROVE  /\ DOMAIN With(f, k, v) = DOMAIN f \cup {k}
           /\ With(f, k, v)[k] = v
           /\ \A x \in DOMAIN f : x # k => With(f, k, v)[x] = f[x]
  BY DEF With

LEMMA WithBooleans ==
    ASSUME NEW f, NEW k, \A x \in DOMAIN f : f[x] \in BOOLEAN
    PROVE  \A x \in DOMAIN With(f, k, TRUE) : With(f, k, TRUE)[x] \in BOOLEAN
<1> SUFFICES ASSUME NEW x \in DOMAIN f \cup {k} PROVE With(f, k, TRUE)[x] \in BOOLEAN
  BY DEF With
<1>1. CASE x = k
  BY <1>1 DEF With
<1>2. CASE x # k
  BY <1>2 DEF With
<1> QED
  BY <1>1, <1>2

LEMMA WithMaps ==
    ASSUME NEW f \in Maps, NEW k \in Contents, NEW v \in Blobs
    PROVE  With(f, k, v) \in Maps
<1>1. PICK S \in SUBSET Contents : f \in [S -> Blobs]
  BY DEF Maps
<1>2. With(f, k, v) \in [S \cup {k} -> Blobs]
  BY <1>1 DEF With
<1> QED
  BY <1>2 DEF Maps

LEMMA AssetInitIInv == AssetInit => AssetIInv
<1> SUFFICES ASSUME AssetInit PROVE AssetIInv
  OBVIOUS
<1> USE DEF AssetInit
<1>1. <<>> \in Maps
  <2>1. <<>> \in [{} -> Blobs]
    OBVIOUS
  <2>2. QED
    BY <2>1 DEF Maps
<1>2. AssetTypeOK
  BY <1>1, IdleTypes DEF AssetTypeOK, Calls, Readings
<1>3. Counters
  BY DEF Counters
<1>4. IndexesSound /\ PuttersSound /\ AssetsAcked /\ ReadersSound /\ DamageCounted
  BY DEF IndexesSound, PuttersSound, AssetsAcked, ReadersSound, DamageCounted, Free, Quiet
<1>5. AckedReadable /\ ServedIsRight
  BY DEF AckedReadable, ServedIsRight, Quiet
<1> QED
  BY <1>2, <1>3, <1>4, <1>5 DEF AssetIInv

----------------------------------------------------------------------------
(* Put.  A step of Put keeps its reader's side, and is judged by what it   *)
(* does to one putter, to the files and to the index.                      *)

(* What every step but a restart keeps: files stay and gain only what      *)
(* IndexesSound allows, acknowledged contents stay acknowledged.           *)
LEMMA ReadersKept ==
    ASSUME AssetIInv, UNCHANGED <<encrypted, assets, reader, rots>>,
           acked \subseteq acked', DOMAIN blobs \subseteq DOMAIN blobs'
    PROVE  AssetsAcked' /\ ReadersSound' /\ ServedIsRight'
<1>1. AssetsAcked'
  BY DEF AssetIInv, AssetsAcked
<1>2. ReadersSound'
  BY DEF AssetIInv, ReadersSound, Authorized
<1>3. ServedIsRight'
  BY DEF AssetIInv, ServedIsRight, Authorized
<1> QED
  BY <1>1, <1>2, <1>3

(* The other putters keep what they know when files are only added.        *)
LEMMA PuttersKept ==
    ASSUME AssetIInv, NEW w \in Putters, NEW call \in Calls, UNCHANGED encrypted,
           putter' = [putter EXCEPT ![w] = call],
           DOMAIN blobs \subseteq DOMAIN blobs', DOMAIN mapping \subseteq DOMAIN mapping',
           call.at # "free" =>
             /\ call.content \in Contents /\ call.blob \in Blobs /\ call.blob[1] = call.content
             /\ ~encrypted => call.blob = <<call.content, 0>>
             /\ call.at \in {"map", "note"} => encrypted /\ call.blob \in DOMAIN blobs'
             /\ call.at = "note" => call.content \in DOMAIN mapping'
    PROVE  putter' \in [Putters -> Calls] /\ PuttersSound'
<1>1. putter \in [Putters -> Calls]
  BY DEF AssetIInv, AssetTypeOK, Calls
<1>2. putter'[w] = call /\ \A x \in Putters : x # w => putter'[x] = putter[x]
  BY <1>1
<1>3. PuttersSound'
  BY <1>2 DEF AssetIInv, PuttersSound
<1> QED
  BY <1>1, <1>3

(* Acknowledged contents stay readable when files and entries are added.   *)
LEMMA AckedKept ==
    ASSUME AssetIInv, IndexesSound', UNCHANGED encrypted,
           DOMAIN blobs \subseteq DOMAIN blobs', DOMAIN index \subseteq DOMAIN index',
           \A c \in acked' : c \in acked \/ IF encrypted THEN c \in DOMAIN index'
                                                         ELSE <<c, 0>> \in DOMAIN blobs'
    PROVE  AckedReadable'
<1>1. \A c \in acked : encrypted => c \in DOMAIN index
  BY DEF AssetIInv, AckedReadable, Stored
<1>2. \A c \in acked' : encrypted => Stored(index, c)' /\ Stored(mapping, c)'
  BY <1>1 DEF IndexesSound
<1>3. \A c \in acked' : ~encrypted => <<c, 0>> \in DOMAIN blobs'
  BY DEF AssetIInv, AckedReadable
<1> QED
  BY <1>2, <1>3 DEF AckedReadable

(* Steps that leave the files alone keep what is said of them.             *)
LEMMA FilesKept ==
    ASSUME AssetIInv, UNCHANGED <<blobs, mapping, index, rots>>
    PROVE  /\ DOMAIN blobs' \subseteq Blobs /\ (\A b \in DOMAIN blobs' : blobs'[b] \in BOOLEAN)
           /\ mapping' \in Maps /\ index' \in Maps /\ IndexesSound' /\ DamageCounted'
<1>1. IndexesSound' /\ DamageCounted'
  BY DEF AssetIInv, IndexesSound, DamageCounted, Stored
<1> QED
  BY <1>1 DEF AssetIInv, AssetTypeOK

LEMMA CallPutStep == ASSUME AssetIInv, NEW w \in Putters, CallPut(w) PROVE AssetIInv'
<1>1. /\ UNCHANGED <<encrypted, fileVars, index, assets, reader, records, reads, rots, restarts>>
      /\ puts \in Nat /\ puts' = puts + 1 /\ puts' \in 0 .. MaxPuts /\ encrypted \in BOOLEAN
  BY AssetAssumption DEF CallPut, AssetIInv, Counters, AssetTypeOK
<1>2. PICK payload \in Contents :
        IF encrypted /\ payload \in DOMAIN index
        THEN Acknowledge(w, payload)
        ELSE /\ putter' = [putter EXCEPT ![w] = [at |-> "stat", content |-> payload,
                                                 blob |-> <<payload, IF encrypted THEN puts' ELSE 0>>]]
             /\ UNCHANGED acked
  BY DEF CallPut
<1> DEFINE call == [at |-> "stat", content |-> payload,
                    blob |-> <<payload, IF encrypted THEN puts' ELSE 0>>]
<1>3. call \in Calls /\ call.blob \in Blobs
  <2>1. (IF encrypted THEN puts' ELSE 0) \in 0 .. MaxPuts
    BY <1>1, AssetAssumption
  <2>2. QED
    BY <2>1 DEF Calls, Blobs
<1>4. /\ acked' \subseteq Contents /\ acked \subseteq acked'
      /\ \A c \in acked' : c \in acked \/ (encrypted /\ c \in DOMAIN index)
  BY <1>2 DEF Acknowledge, AssetIInv, AssetTypeOK
<1>5. putter' \in [Putters -> Calls] /\ PuttersSound'
  <2>1. CASE encrypted /\ payload \in DOMAIN index
    BY <1>1, <1>2, <2>1, PuttersKept, IdleTypes DEF Acknowledge, fileVars, Free
  <2>2. CASE ~(encrypted /\ payload \in DOMAIN index)
    BY <1>1, <1>2, <1>3, <2>2, PuttersKept DEF fileVars
  <2>3. QED
    BY <2>1, <2>2
<1>6. AssetsAcked' /\ ReadersSound' /\ ServedIsRight'
  BY <1>1, <1>4, ReadersKept DEF fileVars
<1>7. AckedReadable'
  BY <1>1, <1>4, FilesKept, AckedKept DEF fileVars
<1>8. AssetTypeOK' /\ Counters'
  BY <1>1, <1>4, <1>5, FilesKept DEF AssetIInv, AssetTypeOK, Calls, Counters, fileVars
<1> QED
  BY <1>1, <1>5, <1>6, <1>7, <1>8, FilesKept DEF AssetIInv, fileVars

(* The steps of a Put that write nothing.                                  *)
LEMMA QuietPutStep ==
    ASSUME AssetIInv, NEW w \in Putters, PutFails(w) \/ Dedup(w) \/ NoDedup(w)
    PROVE  AssetIInv'
<1>1. UNCHANGED <<encrypted, fileVars, index, assets, reader, boundVars>>
  BY DEF PutFails, Dedup, NoDedup
<1>2. putter \in [Putters -> Calls] /\ acked \subseteq Contents
  BY DEF AssetIInv, AssetTypeOK, Calls
<1>3. putter' \in [Putters -> Calls] /\ PuttersSound'
  <2>1. CASE PutFails(w) \/ (Dedup(w) /\ ~encrypted)
    BY <1>1, <2>1, PuttersKept, IdleTypes
       DEF PutFails, Dedup, AfterBlob, Acknowledge, fileVars, Free
  <2>2. CASE Dedup(w) /\ encrypted
    <3>1. putter' = [putter EXCEPT ![w] = [putter[w] EXCEPT !.at = "map"]]
      BY <2>2 DEF Dedup, AfterBlob, PutterGoes
    <3>2. [putter[w] EXCEPT !.at = "map"] \in Calls
      BY <1>2 DEF Calls
    <3>3. putter[w].at # "free" /\ putter[w].blob \in DOMAIN blobs
      BY <2>2 DEF Dedup
    <3>4. QED
      BY <1>1, <1>2, <2>2, <3>1, <3>2, <3>3, PuttersKept DEF fileVars, Calls, AssetIInv, PuttersSound
  <2>3. CASE NoDedup(w)
    <3>1. putter' = [putter EXCEPT ![w] = [putter[w] EXCEPT !.at = "commit"]]
      BY <2>3 DEF NoDedup, PutterGoes
    <3>2. [putter[w] EXCEPT !.at = "commit"] \in Calls /\ putter[w].at # "free"
      BY <1>2, <2>3 DEF Calls, NoDedup
    <3>3. QED
      BY <1>1, <1>2, <3>1, <3>2, PuttersKept DEF fileVars, Calls, AssetIInv, PuttersSound
  <2>4. QED
    BY <2>1, <2>2, <2>3
<1>4. /\ acked \subseteq acked' /\ acked' \subseteq Contents
      /\ \A c \in acked' : c \in acked \/ (~encrypted /\ <<c, 0>> \in DOMAIN blobs)
  <2>1. CASE PutFails(w) \/ NoDedup(w) \/ encrypted
    BY <1>2, <2>1 DEF PutFails, Dedup, NoDedup, AfterBlob
  <2>2. CASE Dedup(w) /\ ~encrypted
    BY <1>2, <2>2 DEF Dedup, AfterBlob, Acknowledge, AssetIInv, PuttersSound
  <2>3. QED
    BY <2>1, <2>2
<1>5. AssetsAcked' /\ ReadersSound' /\ ServedIsRight'
  BY <1>1, <1>4, ReadersKept DEF fileVars, boundVars
<1>6. AckedReadable'
  BY <1>1, <1>4, FilesKept, AckedKept DEF fileVars, boundVars
<1>7. AssetTypeOK' /\ Counters'
  BY <1>1, <1>3, <1>4, FilesKept DEF AssetIInv, AssetTypeOK, Calls, Counters, fileVars, boundVars
<1> QED
  BY <1>1, <1>3, <1>5, <1>6, <1>7, FilesKept DEF AssetIInv, fileVars, boundVars

LEMMA CommitBlobStep == ASSUME AssetIInv, NEW w \in Putters, CommitBlob(w) PROVE AssetIInv'
<1> DEFINE b == putter[w].blob
<1>1. /\ UNCHANGED <<encrypted, mapping, index, assets, reader, boundVars>>
      /\ blobs' = With(blobs, b, TRUE) /\ AfterBlob(w)
      /\ putter \in [Putters -> Calls] /\ acked \subseteq Contents
  BY DEF CommitBlob, AssetIInv, AssetTypeOK, Calls
<1>2. /\ putter[w].at = "commit" /\ b \in Blobs /\ putter[w].content \in Contents
      /\ b[1] = putter[w].content /\ (~encrypted => b = <<putter[w].content, 0>>)
  BY DEF CommitBlob, AssetIInv, PuttersSound
<1>3. /\ DOMAIN blobs' = DOMAIN blobs \cup {b}
      /\ \A x \in DOMAIN blobs' : blobs'[x] = TRUE \/ (x \in DOMAIN blobs /\ blobs'[x] = blobs[x])
  BY <1>1 DEF With
<1>4. putter' \in [Putters -> Calls] /\ PuttersSound'
  <2>1. CASE encrypted
    <3>1. putter' = [putter EXCEPT ![w] = [putter[w] EXCEPT !.at = "map"]]
      BY <1>1, <2>1 DEF AfterBlob, PutterGoes
    <3>2. [putter[w] EXCEPT !.at = "map"] \in Calls
      BY <1>1 DEF Calls
    <3>3. QED
      BY <1>1, <1>2, <1>3, <2>1, <3>1, <3>2, PuttersKept DEF Calls
  <2>2. CASE ~encrypted
    BY <1>1, <1>3, <2>2, PuttersKept, IdleTypes DEF AfterBlob, Acknowledge, Free
  <2>3. QED
    BY <2>1, <2>2
<1>5. /\ acked \subseteq acked' /\ acked' \subseteq Contents
      /\ \A c \in acked' : c \in acked \/ (~encrypted /\ <<c, 0>> \in DOMAIN blobs')
  BY <1>1, <1>2, <1>3 DEF AfterBlob, Acknowledge
<1>6. IndexesSound' /\ DamageCounted'
  BY <1>1, <1>3 DEF AssetIInv, IndexesSound, Stored, DamageCounted, boundVars
<1>7. AssetsAcked' /\ ReadersSound' /\ ServedIsRight'
  BY <1>1, <1>3, <1>5, ReadersKept DEF boundVars
<1>8. AckedReadable'
  BY <1>1, <1>3, <1>5, <1>6, AckedKept
<1>9. AssetTypeOK' /\ Counters'
  <2>1. DOMAIN blobs' \subseteq Blobs /\ \A x \in DOMAIN blobs' : blobs'[x] \in BOOLEAN
    BY <1>1, <1>2, <1>3, WithBooleans DEF AssetIInv, AssetTypeOK
  <2>2. QED
    BY <1>1, <1>4, <1>5, <2>1 DEF AssetIInv, AssetTypeOK, Counters, boundVars
<1> QED
  BY <1>4, <1>6, <1>7, <1>8, <1>9 DEF AssetIInv

LEMMA CommitMappingStep == ASSUME AssetIInv, NEW w \in Putters, CommitMapping(w) PROVE AssetIInv'
<1> DEFINE c == putter[w].content
           call == [putter[w] EXCEPT !.at = "note"]
<1>1. /\ UNCHANGED <<encrypted, blobs, index, acked, assets, reader, boundVars>>
      /\ mapping' = With(mapping, c, putter[w].blob)
      /\ putter' = [putter EXCEPT ![w] = call]
      /\ putter \in [Putters -> Calls] /\ mapping \in Maps
  BY DEF CommitMapping, PutterGoes, AssetIInv, AssetTypeOK, Calls
<1>2. /\ putter[w].at = "map" /\ c \in Contents /\ encrypted
      /\ putter[w].blob \in Blobs /\ putter[w].blob \in DOMAIN blobs /\ putter[w].blob[1] = c
  BY DEF CommitMapping, AssetIInv, PuttersSound
<1>3. /\ DOMAIN mapping' = DOMAIN mapping \cup {c} /\ mapping'[c] = putter[w].blob
      /\ \A x \in DOMAIN mapping : x # c => mapping'[x] = mapping[x]
      /\ mapping' \in Maps
  <2>1. mapping' \in Maps
    BY <1>1, <1>2, WithMaps
  <2>2. QED
    BY <1>1, <2>1 DEF With
<1>4. call \in Calls /\ call.at = "note" /\ call.content = c /\ call.blob = putter[w].blob
  BY <1>1 DEF Calls
<1>5. putter' \in [Putters -> Calls] /\ PuttersSound'
  BY <1>1, <1>2, <1>3, <1>4, PuttersKept
<1>6. IndexesSound'
  BY <1>1, <1>2, <1>3 DEF AssetIInv, IndexesSound, Stored
<1>7. AssetsAcked' /\ ReadersSound' /\ ServedIsRight' /\ DamageCounted'
  BY <1>1, ReadersKept DEF AssetIInv, DamageCounted, boundVars
<1>8. AckedReadable'
  BY <1>1, <1>6, AckedKept
<1>9. AssetTypeOK' /\ Counters'
  BY <1>1, <1>3, <1>5 DEF AssetIInv, AssetTypeOK, Calls, Counters, boundVars
<1> QED
  BY <1>5, <1>6, <1>7, <1>8, <1>9 DEF AssetIInv

LEMMA NoteMappingStep == ASSUME AssetIInv, NEW w \in Putters, NoteMapping(w) PROVE AssetIInv'
<1> DEFINE c == putter[w].content
<1>1. /\ UNCHANGED <<encrypted, blobs, mapping, assets, reader, boundVars>>
      /\ index' = With(index, c, putter[w].blob)
      /\ putter' = [putter EXCEPT ![w] = Free] /\ acked' = acked \cup {c}
      /\ index \in Maps /\ acked \subseteq Contents
  BY DEF NoteMapping, Acknowledge, AssetIInv, AssetTypeOK, fileVars
<1>2. /\ c \in Contents /\ encrypted /\ c \in DOMAIN mapping
      /\ putter[w].blob \in Blobs /\ putter[w].blob \in DOMAIN blobs /\ putter[w].blob[1] = c
  BY DEF NoteMapping, AssetIInv, PuttersSound
<1>3. /\ DOMAIN index' = DOMAIN index \cup {c} /\ index'[c] = putter[w].blob
      /\ \A x \in DOMAIN index : x # c => index'[x] = index[x]
      /\ index' \in Maps
  <2>1. index' \in Maps
    BY <1>1, <1>2, WithMaps
  <2>2. QED
    BY <1>1, <2>1 DEF With
<1>4. putter' \in [Putters -> Calls] /\ PuttersSound'
  BY <1>1, IdleTypes, PuttersKept DEF Free
<1>5. IndexesSound'
  BY <1>1, <1>2, <1>3 DEF AssetIInv, IndexesSound, Stored
<1>6. AssetsAcked' /\ ReadersSound' /\ ServedIsRight' /\ DamageCounted'
  BY <1>1, ReadersKept DEF AssetIInv, DamageCounted, boundVars
<1>7. AckedReadable'
  BY <1>1, <1>2, <1>3, <1>5, AckedKept
<1>8. AssetTypeOK' /\ Counters'
  BY <1>1, <1>2, <1>3, <1>4 DEF AssetIInv, AssetTypeOK, Calls, Counters, boundVars
<1> QED
  BY <1>4, <1>5, <1>6, <1>7, <1>8 DEF AssetIInv

----------------------------------------------------------------------------
(* Records, requests and the environment.                                  *)

LEMMA RecordStep == ASSUME AssetIInv, Record PROVE AssetIInv'
<1>1. UNCHANGED <<encrypted, fileVars, index, putter, acked, reader, puts, reads, rots, restarts>>
  BY DEF Record
<1>2. PICK id \in Ids, a \in [sha : acked \cup {NoContent}, account : Accounts \cup {NoAccount},
                              web : acked \cup {NoContent}] : assets' = With(assets, id, a)
  BY DEF Record
<1>3. /\ DOMAIN assets' = DOMAIN assets \cup {id}
      /\ \A x \in DOMAIN assets' : assets'[x] = a \/ (x \in DOMAIN assets /\ assets'[x] = assets[x])
  BY <1>2 DEF With
<1>4. a \in Assets /\ {a.sha, a.web} \subseteq acked \cup {NoContent}
  BY <1>2 DEF Assets, AssetIInv, AssetTypeOK
<1>5. AssetsAcked'
  BY <1>1, <1>3, <1>4 DEF AssetIInv, AssetsAcked
<1>6. DOMAIN assets' \subseteq Ids /\ \A x \in DOMAIN assets' : assets'[x] \in Assets
  BY <1>3, <1>4 DEF AssetIInv, AssetTypeOK
<1>7. AssetTypeOK' /\ Counters'
  BY <1>1, <1>6, FilesKept DEF AssetIInv, AssetTypeOK, Counters, fileVars
<1>8. ReadersSound' /\ ServedIsRight' /\ PuttersSound' /\ AckedReadable'
  BY <1>1 DEF AssetIInv, ReadersSound, ServedIsRight, Authorized, PuttersSound, AckedReadable, Stored, fileVars
<1> QED
  BY <1>1, <1>5, <1>7, <1>8, FilesKept DEF AssetIInv, fileVars

(* A step of one request, told by the request it leaves.                   *)
LEMMA ReaderKept ==
    ASSUME AssetIInv, NEW r \in Readers, NEW q \in Readings, reader' = [reader EXCEPT ![r] = q],
           UNCHANGED <<encrypted, fileVars, index, putter, acked, assets, puts, rots>>,
           q.at # "free" =>
             /\ Authorized(q.principal, q.asset) /\ q.want \in {q.asset.sha, q.asset.web}
             /\ q.want \in acked
             /\ q.at = "read" => q.blob \in DOMAIN blobs /\ q.blob[1] = q.want,
           q.want # NoContent /\ q.at = "free" =>
             /\ Authorized(q.principal, q.asset) /\ q.want \in {q.asset.sha, q.asset.web}
             /\ IF q.status = 200 THEN q.bytes = q.want ELSE q.status = 500 /\ rots > 0
    PROVE  AssetIInv'
<1>1. reader \in [Readers -> Readings]
  BY DEF AssetIInv, AssetTypeOK
<1>2. reader'[r] = q /\ (\A x \in Readers : x # r => reader'[x] = reader[x])
      /\ reader' \in [Readers -> Readings]
  BY <1>1
<1>3. ReadersSound'
  BY <1>2 DEF AssetIInv, ReadersSound, Authorized, fileVars
<1>4. ServedIsRight'
  BY <1>2 DEF AssetIInv, ServedIsRight, Authorized
<1>5. AssetTypeOK' /\ Counters'
  BY <1>2, FilesKept DEF AssetIInv, AssetTypeOK, Counters, fileVars
<1>6. PuttersSound' /\ AckedReadable' /\ AssetsAcked'
  BY DEF AssetIInv, PuttersSound, AckedReadable, Stored, AssetsAcked, fileVars
<1> QED
  BY <1>3, <1>4, <1>5, <1>6, FilesKept DEF AssetIInv, fileVars

(* The answers before the lookup, and what passes.                         *)
LEMMA StatusRange ==
    ASSUME NEW method, NEW path, NEW authenticated \in BOOLEAN, NEW p
    PROVE  /\ Status(method, path, authenticated, p) \in {0, 400, 401, 403, 404, 405}
           /\ Status(method, path, authenticated, p) = 0 =>
                /\ ParseAssetPath(path).id \in DOMAIN assets
                /\ Authorized(p, assets[ParseAssetPath(path).id])
                /\ Wanted(assets[ParseAssetPath(path).id], ParseAssetPath(path).rendition) # NoContent
<1> DEFINE ref    == ParseAssetPath(path)
           noId   == ref.id = ""
           known  == ref.id \in DOMAIN assets
           may    == Authorized(p, assets[ref.id])
           absent == Wanted(assets[ref.id], ref.rendition) = NoContent
           status == Status(method, path, authenticated, p)
<1>1. status = IF method \notin {"GET", "HEAD"} THEN 405
               ELSE IF noId THEN 400 ELSE IF ~authenticated THEN 401
               ELSE IF ~known THEN 404 ELSE IF ~may THEN 403
               ELSE IF absent THEN 404 ELSE 0
  BY Zenon DEF Status
<1>2. status \in {0, 400, 401, 403, 404, 405} /\ (status = 0 => known /\ may /\ ~absent)
  <2>1. noId \in BOOLEAN
    <3>1. CASE noId
      BY <3>1, Zenon
    <3>2. CASE ~noId
      BY <3>2, Zenon
    <3>3. QED
      BY <3>1, <3>2, Zenon
  <2> HIDE DEF noId, status
  <2>2. QED
    BY <1>1, <2>1
<1> QED
  BY <1>2

LEMMA ServeStep == ASSUME AssetIInv, NEW r \in Readers, Serve(r) PROVE AssetIInv'
<1>1. UNCHANGED <<encrypted, fileVars, index, putter, acked, assets, puts, rots>>
  BY DEF Serve
<1>2. PICK method \in {"GET", "POST"}, path \in Paths, authenticated \in BOOLEAN, p \in Principals :
        LET status == Status(method, path, authenticated, p)
            ref    == ParseAssetPath(path) IN
        reader' = [reader EXCEPT ![r] =
            IF status # 0 THEN [Quiet EXCEPT !.status = status]
            ELSE [Quiet EXCEPT !.at = "lookup", !.principal = p, !.asset = assets[ref.id],
                               !.want = Wanted(assets[ref.id], ref.rendition)]]
  BY DEF Serve
<1> DEFINE status == Status(method, path, authenticated, p)
           ref    == ParseAssetPath(path)
           a      == assets[ref.id]
<1>3. /\ status \in {0, 400, 401, 403, 404, 405}
      /\ status = 0 => /\ ref.id \in DOMAIN assets /\ Authorized(p, a)
                       /\ Wanted(a, ref.rendition) # NoContent
  BY StatusRange
<1>4. CASE status # 0
  <2>1. [Quiet EXCEPT !.status = status] \in Readings
    <3>1. status \in Statuses
      BY <1>3 DEF Statuses
    <3>2. \A x \in Statuses : [Quiet EXCEPT !.status = x] \in Readings
      BY IdleTypes, ReadingSteps
    <3> HIDE DEF status
    <3>3. QED
      BY <3>1, <3>2
  <2>2. reader' = [reader EXCEPT ![r] = [Quiet EXCEPT !.status = status]]
    BY <1>2, <1>4
  <2>3. /\ [Quiet EXCEPT !.status = status].at = "free"
        /\ [Quiet EXCEPT !.status = status].want = NoContent
    BY DEF Quiet
  <2>4. QED
    BY <1>1, <2>1, <2>2, <2>3, ReaderKept
<1>5. CASE status = 0
  <2> DEFINE want == Wanted(a, ref.rendition)
             q    == [Quiet EXCEPT !.at = "lookup", !.principal = p, !.asset = a, !.want = want]
  <2>1. a \in Assets /\ want \in {a.sha, a.web} /\ want \in acked /\ want \in Contents
    <3>1. ref.id \in DOMAIN assets /\ want # NoContent
      BY <1>3, <1>5
    <3>2. a \in Assets /\ {a.sha, a.web} \subseteq acked \cup {NoContent} /\ acked \subseteq Contents
      BY <3>1 DEF AssetIInv, AssetTypeOK, AssetsAcked
    <3>3. want \in {a.sha, a.web}
      BY DEF Wanted
    <3>4. QED
      BY <3>1, <3>2, <3>3
  <2>2. q \in Readings
    BY <2>1, IdleTypes, ReadingSteps
  <2>3. q.at = "lookup" /\ q.principal = p /\ q.asset = a /\ q.want = want
    BY DEF Quiet
  <2>4. reader' = [reader EXCEPT ![r] = q]
    BY <1>2, <1>5
  <2>5. QED
    <3> HIDE DEF q, want, a, ref, status
    <3>1. QED
      BY <1>1, <1>3, <1>5, <2>1, <2>2, <2>3, <2>4, ReaderKept
<1> QED
  BY <1>4, <1>5

LEMMA LookupStep == ASSUME AssetIInv, NEW r \in Readers, Lookup(r) PROVE AssetIInv'
<1> DEFINE blob == IF encrypted THEN index[reader[r].want] ELSE <<reader[r].want, 0>>
           q    == [reader[r] EXCEPT !.at = "read", !.blob = blob]
<1>1. /\ UNCHANGED <<encrypted, fileVars, index, putter, acked, assets, puts, rots>>
      /\ reader \in [Readers -> Readings] /\ reader[r].at = "lookup" /\ encrypted \in BOOLEAN
      /\ DOMAIN blobs \subseteq Blobs
  BY DEF Lookup, AssetIInv, AssetTypeOK, boundVars
<1>2. /\ Authorized(reader[r].principal, reader[r].asset) /\ reader[r].want \in acked
      /\ reader[r].want \in {reader[r].asset.sha, reader[r].asset.web}
  BY <1>1 DEF AssetIInv, ReadersSound
<1>3. blob \in DOMAIN blobs /\ blob[1] = reader[r].want /\ (encrypted => reader[r].want \in DOMAIN index)
  BY <1>2 DEF AssetIInv, AckedReadable, Stored
<1>4. reader' = [reader EXCEPT ![r] = q]
  BY <1>1, <1>3 DEF Lookup
<1>5. q \in Readings /\ q.at = "read" /\ q.blob = blob /\ q.want = reader[r].want
      /\ q.principal = reader[r].principal /\ q.asset = reader[r].asset
  <2>1. \A x \in Blobs : [reader[r] EXCEPT !.at = "read", !.blob = x] \in Readings
    BY <1>1, ReadingSteps
  <2>2. blob \in Blobs
    BY <1>1, <1>3
  <2> HIDE DEF blob
  <2>3. q.at = "read" /\ q.blob = blob /\ q.want = reader[r].want
        /\ q.principal = reader[r].principal /\ q.asset = reader[r].asset
    BY <1>1, Zenon DEF Readings
  <2>4. QED
    BY <2>1, <2>2, <2>3
<1> QED
  <2> HIDE DEF q, blob
  <2>1. QED
    BY <1>1, <1>2, <1>3, <1>4, <1>5, ReaderKept

LEMMA ReadStep == ASSUME AssetIInv, NEW r \in Readers, Read(r) PROVE AssetIInv'
<1> DEFINE b == reader[r].blob
           want == reader[r].want
           status == Verified(b, want)
           bytes == IF status = 200 /\ blobs[b] THEN b[1] ELSE NoContent
           q == [reader[r] EXCEPT !.at = "free", !.status = status, !.bytes = bytes]
<1>1. /\ UNCHANGED <<encrypted, fileVars, index, putter, acked, assets, puts, rots>>
      /\ reader \in [Readers -> Readings] /\ reader[r].at = "read" /\ acked \subseteq Contents
  BY DEF Read, AssetIInv, AssetTypeOK, boundVars
<1>2. /\ Authorized(reader[r].principal, reader[r].asset) /\ want \in acked
      /\ want \in {reader[r].asset.sha, reader[r].asset.web}
      /\ b \in DOMAIN blobs /\ b[1] = want
  BY <1>1 DEF AssetIInv, ReadersSound
<1>3. \/ status = 200 /\ bytes = want
      \/ status = 500 /\ bytes = NoContent /\ rots > 0
  BY <1>2 DEF Verified, AssetIInv, DamageCounted
<1>4. reader' = [reader EXCEPT ![r] = q]
  BY DEF Read
<1>5. q \in Readings /\ q.at = "free" /\ q.status = status /\ q.bytes = bytes
      /\ q.want = want /\ q.principal = reader[r].principal /\ q.asset = reader[r].asset
  <2>1. status \in Statuses /\ bytes \in Contents \cup {NoContent}
    BY <1>1, <1>2, <1>3 DEF Statuses
  <2> HIDE DEF status, bytes
  <2>2. q \in Readings
    BY <1>1, <2>1, ReadingSteps
  <2>3. q.at = "free" /\ q.status = status /\ q.bytes = bytes
        /\ q.want = want /\ q.principal = reader[r].principal /\ q.asset = reader[r].asset
    BY <1>1, Zenon DEF Readings
  <2>4. QED
    BY <2>1, <2>2, <2>3
<1> QED
  <2>1. IF q.status = 200 THEN q.bytes = q.want ELSE q.status = 500 /\ rots > 0
    BY <1>3, <1>5
  <2>2. Authorized(q.principal, q.asset) /\ q.want \in {q.asset.sha, q.asset.web}
    BY <1>2, <1>5
  <2> HIDE DEF q
  <2>3. QED
    BY <1>1, <1>4, <1>5, <2>1, <2>2, ReaderKept

LEMMA RotStep == ASSUME AssetIInv, NEW b \in DOMAIN blobs, Rot(b) PROVE AssetIInv'
<1>1. /\ UNCHANGED <<encrypted, mapping, index, putter, acked, assets, reader, puts>>
      /\ DOMAIN blobs' = DOMAIN blobs /\ rots' = rots + 1 /\ rots' > 0 /\ rots' \in Nat
      /\ \A x \in DOMAIN blobs' : blobs'[x] = blobs[x] \/ blobs'[x] = FALSE
  BY DEF Rot, AssetIInv, Counters
<1>2. AssetTypeOK' /\ Counters'
  <2>1. \A x \in DOMAIN blobs' : blobs'[x] \in BOOLEAN
    BY DEF Rot, AssetIInv, AssetTypeOK
  <2>2. QED
    BY <1>1, <2>1 DEF AssetIInv, AssetTypeOK, Counters
<1>3. IndexesSound' /\ PuttersSound' /\ AssetsAcked' /\ DamageCounted'
  BY <1>1 DEF AssetIInv, IndexesSound, Stored, PuttersSound, AssetsAcked, DamageCounted
<1>4. ReadersSound' /\ AckedReadable'
  BY <1>1 DEF AssetIInv, ReadersSound, Authorized, AckedReadable, Stored
<1>5. ServedIsRight'
  BY <1>1 DEF AssetIInv, ServedIsRight, Authorized
<1> QED
  BY <1>2, <1>3, <1>4, <1>5 DEF AssetIInv

LEMMA RestartStep == ASSUME AssetIInv, Restart PROVE AssetIInv'
<1>1. /\ UNCHANGED <<encrypted, fileVars, acked, puts, rots>>
      /\ index' = mapping /\ assets' = <<>>
      /\ putter' = [w \in Putters |-> Free] /\ reader' = [r \in Readers |-> Quiet]
  BY DEF Restart
<1>2. AssetTypeOK' /\ Counters'
  BY <1>1, IdleTypes DEF AssetIInv, AssetTypeOK, Calls, Readings, Counters, fileVars
<1>3. IndexesSound' /\ DamageCounted'
  BY <1>1 DEF AssetIInv, IndexesSound, Stored, DamageCounted, fileVars
<1>4. PuttersSound' /\ AssetsAcked' /\ ReadersSound' /\ ServedIsRight'
  BY <1>1 DEF PuttersSound, AssetsAcked, ReadersSound, ServedIsRight, Free, Quiet
<1>5. AckedReadable'
  BY <1>1 DEF AssetIInv, AckedReadable, Stored, fileVars
<1> QED
  BY <1>2, <1>3, <1>4, <1>5 DEF AssetIInv

LEMMA AssetInductive == AssetIInv /\ [AssetNext]_assetVars => AssetIInv'
<1> SUFFICES ASSUME AssetIInv, [AssetNext]_assetVars PROVE AssetIInv'
  OBVIOUS
<1>1. CASE Put
  BY <1>1, CallPutStep, QuietPutStep, CommitBlobStep, CommitMappingStep, NoteMappingStep DEF Put
<1>2. CASE Get
  BY <1>2, ServeStep, LookupStep, ReadStep DEF Get
<1>3. CASE \E b \in DOMAIN blobs : Rot(b)
  BY <1>3, RotStep
<1>4. CASE UNCHANGED assetVars
  <2>1. AssetTypeOK' /\ Counters'
    BY <1>4 DEF AssetIInv, AssetTypeOK, Counters, assetVars, fileVars, boundVars
  <2>2. IndexesSound' /\ PuttersSound' /\ AssetsAcked' /\ ReadersSound' /\ DamageCounted'
    BY <1>4 DEF AssetIInv, IndexesSound, Stored, PuttersSound, AssetsAcked, ReadersSound, Authorized,
                DamageCounted, assetVars, fileVars, boundVars
  <2>3. AckedReadable' /\ ServedIsRight'
    BY <1>4 DEF AssetIInv, AckedReadable, Stored, ServedIsRight, Authorized, assetVars, fileVars, boundVars
  <2>4. QED
    BY <2>1, <2>2, <2>3 DEF AssetIInv
<1> QED
  BY <1>1, <1>2, <1>3, <1>4, RecordStep, RestartStep DEF AssetNext

(* The stores of the asset service: a content whose id Put has returned is *)
(* found and read ever after, across concurrent Puts of it and restarts.   *)
THEOREM AckedStays == AssetSpec => []AckedReadable
<1>1. AssetIInv => AckedReadable
  BY DEF AssetIInv
<1> QED
  BY <1>1, AssetInitIInv, AssetInductive, PTL DEF AssetSpec

(* The asset handler: bytes only to whom the authorizer lets see the       *)
(* record, never damaged ones, and no error but for damage.                *)
THEOREM HandlerAnswersRight == AssetSpec => []ServedIsRight
<1>1. AssetIInv => ServedIsRight
  BY DEF AssetIInv
<1> QED
  BY <1>1, AssetInitIInv, AssetInductive, PTL DEF AssetSpec

(* The files, indexes and requests of the asset service stay well formed.  *)
THEOREM AssetStoreTyped == AssetSpec => []AssetTypeOK
<1>1. AssetIInv => AssetTypeOK
  BY DEF AssetIInv
<1> QED
  BY <1>1, AssetInitIInv, AssetInductive, PTL DEF AssetSpec

=============================================================================
