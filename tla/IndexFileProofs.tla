-------------------------- MODULE IndexFileProofs --------------------------
(***************************************************************************)
(* What holds of every PrunedLandmarkLabeling object, for every number of  *)
(* trees, every set of indexes and every width of the integers: no block   *)
(* is lost, Free faults only after an exception, ConstructIndex returns    *)
(* what it promises, and LoadIndex what StoreIndex has stored.             *)
(*                                                                         *)
(* The invariants are inductive once it is said how far a call in progress *)
(* has come: entries it has not filled own no block, and those it has      *)
(* filled say what the index is to say.                                    *)
(*                                                                         *)
(* For the file it must be said in addition which of its digits say what   *)
(* (Says), and that a load has either read what was stored as far as it    *)
(* has come, or run over the end of a file that was cut (ReadTo).          *)
(***************************************************************************)
EXTENDS IndexFile, FiniteSetTheorems, WellFoundedInduction, NaturalsInduction, TLAPS

CallTyped ==
    /\ call \in [op : Constructions \cup {"none", "load"}, v : Nat]
    /\ call.op = "none" => call = Idle
    /\ stream = [digits |-> stream.digits, pos |-> stream.pos, breaks |-> stream.breaks]

\* An object whose entries are missing is idle after an exception, empty, or about to
\* be loaded.
EntriesPresent ==
    at = Null =>
        \/ num_v = 0 /\ call = Idle
        \/ ret.op = "threw" /\ call = Idle
        \/ num_v = 0 /\ call = [op |-> "load", v |-> 0]

Unfilled ==
    call # Idle => \A v \in DOMAIN index : v >= call.v => index[v].blocks = {}

\* What a construction has written so far is what it was given.
Progress ==
    call.op \in Constructions =>
        /\ given \in Indexes /\ Len(given) = num_v
        /\ call.v > 0 => \A v \in DOMAIN index : index[v].trees = given[v].trees
        /\ \A v \in DOMAIN index : v < call.v => index[v].list = given[v].list

Quiet == call # Idle => ret = NotReturned

\* How a construction returned, and what it left.
ResultInv ==
    ret.op \in Constructions =>
        /\ ret.ok /\ ~ret.starved => Contents = given
        /\ ret.starved => at = Null /\ num_v = 0
        /\ ret.ok \/ ret.starved
        /\ ret.op = "construct" => ret.ok # ret.starved

FileInv ==
    /\ IndexFileTypeOK
    /\ CallTyped
    /\ NoLeak
    /\ EntriesPresent
    /\ Unfilled
    /\ Progress
    /\ Quiet
    /\ ResultInv

\* The place behind s labels of an entry is a number.
LEMMA BehindNat ==
    ASSUME NEW pos \in Nat, NEW s \in Nat
    PROVE  /\ CountRead \in Nat
           /\ Behind(pos) \in Nat
           /\ Behind(pos) + s * LabelDigits \in Nat
<1>1. K \in Nat /\ Half \in Nat
    BY FileAssumption
<1>2. Full \in Nat /\ CountRead \in Nat
    BY <1>1 DEF Full, CountRead
<1>3. TreeDigits \in Nat /\ LabelDigits \in Nat
    BY <1>1, <1>2 DEF TreeDigits, LabelDigits, HubRead
<1>4. \A a, b \in Nat : a * b \in Nat
    OBVIOUS
<1>5. K * TreeDigits \in Nat /\ s * LabelDigits \in Nat
    BY <1>1, <1>3, <1>4
<1> QED
    BY <1>2, <1>5 DEF Behind

\* Free and the calls that begin with it release everything, unless Free faults.
LEMMA KeptEmpty ==
    ASSUME IndexFileTypeOK, NoLeak, ~FreeFaults
    PROVE  Kept = {}
<1>1. DOMAIN index = 1..num_v
    BY DEF IndexFileTypeOK, FreeFaults
<1>2. heap = Blocks(1..num_v) \cup ({at} \ {Null})
    BY <1>1 DEF NoLeak
<1> QED
    BY <1>2 DEF Kept

\* The invariant holds of a new object.
LEMMA FileInit == Init => FileInv
<1> SUFFICES ASSUME Init PROVE FileInv
    OBVIOUS
<1>1. DOMAIN index = {} /\ at = Null /\ Null \notin Addr
    BY FileAssumption DEF Init
<1>2. Blocks(DOMAIN index) = {}
    BY <1>1 DEF Blocks
<1> QED
    BY <1>1, <1>2
    DEF Init, FileInv, IndexFileTypeOK, CallTyped, NoLeak, EntriesPresent, Unfilled, Progress,
        Quiet, ResultInv, Idle, Unopened, NotReturned, Constructions

\* New entries: they own no block yet.
LEMMA EntriesReplaced ==
    ASSUME IndexFileTypeOK, NoLeak, ~FreeFaults, NEW n \in Nat, ReplaceEntries(n)
    PROVE  /\ at' \in Addr /\ heap' = {at'} /\ num_v' = n
           /\ DOMAIN index' = 1..n
           /\ \A v \in 1..n : index'[v].blocks = {}
           /\ NoLeak'
<1>1. Kept = {}
    BY KeptEmpty
<1>2. at' \in Addr /\ heap' = {at'}
    BY <1>1 DEF ReplaceEntries
<1>3. num_v' = n /\ index' = [v \in 1..n |-> BlankEntry]
    BY DEF ReplaceEntries
<1>4. BlankEntry.blocks = {}
    BY DEF BlankEntry
<1>5. DOMAIN index' = 1..n /\ \A v \in 1..n : index'[v].blocks = {}
    BY <1>3, <1>4
<1>6. NoLeak'
    BY <1>2, <1>5, FileAssumption DEF NoLeak, Blocks
<1> QED
    BY <1>2, <1>3, <1>5, <1>6

\* A freed object.
LEMMA Freed ==
    ASSUME IndexFileTypeOK, NoLeak, ~FreeFaults, Free
    PROVE  /\ at' = Null /\ heap' = {} /\ num_v' = 0 /\ index' = <<>>
           /\ DOMAIN index' = {}
           /\ NoLeak'
<1>1. at' = Null /\ heap' = {} /\ num_v' = 0 /\ index' = <<>> /\ DOMAIN index' = {}
    BY KeptEmpty DEF Free
<1> QED
    BY <1>1 DEF NoLeak, Blocks

\* One entry is filled, with blocks no one had.
LEMMA EntryFilled ==
    ASSUME FileInv, call.op # "none", call.v \in 1..num_v, at # Null,
           NEW trees, NEW list, FillEntry(call.v, trees, list)
    PROVE  /\ num_v' = num_v /\ at' = at
           /\ DOMAIN index' = DOMAIN index
           /\ index'[call.v].trees = trees /\ index'[call.v].list = list
           /\ \A v \in DOMAIN index : v # call.v => index'[v] = index[v]
           /\ heap' \in SUBSET Addr
           /\ \A v \in DOMAIN index' : index'[v].blocks \in SUBSET Addr
           /\ NoLeak'
<1> DEFINE vacant == {A \in SUBSET (Addr \ heap) : Cardinality(A) = 2}
           new == CHOOSE A \in vacant : TRUE
<1>1. new \in SUBSET (Addr \ heap)
  <2>1. vacant # {}
    BY DEF FillEntry
  <2>2. new \in vacant
    BY <2>1
  <2> QED
    BY <2>2
<1>2. /\ heap' = heap \cup new /\ num_v' = num_v /\ at' = at
      /\ index' = [index EXCEPT ![call.v] = [trees |-> trees, list |-> list, blocks |-> new]]
    BY DEF FillEntry
<1> HIDE DEF new
<1>3. call.v \in DOMAIN index /\ DOMAIN index = 1..num_v
    BY DEF FileInv, IndexFileTypeOK
<1>4. index[call.v].blocks = {}
    BY <1>3 DEF FileInv, Unfilled, Idle, CallTyped
<1>5. /\ DOMAIN index' = DOMAIN index
      /\ index'[call.v] = [trees |-> trees, list |-> list, blocks |-> new]
      /\ \A v \in DOMAIN index : v # call.v => index'[v] = index[v]
    BY <1>2, <1>3
<1>6. Blocks(DOMAIN index)' = Blocks(DOMAIN index) \cup new
    BY <1>3, <1>4, <1>5 DEF Blocks
<1>7. NoLeak'
    BY <1>2, <1>6 DEF FileInv, NoLeak
<1> QED
    BY <1>1, <1>2, <1>5, <1>7 DEF FileInv, IndexFileTypeOK

\* The calls that begin anew: what they forget and what they leave.
LEMMA BeginStep ==
    ASSUME FileInv, Callable,
           \/ \E entries \in Indexes :
                \/ \E op \in Constructions :
                      ConstructBegin(op, entries) \/ ConstructStarved(op, entries)
                \/ ConstructThrows(entries)
           \/ CallFree
           \/ LoadBegin
    PROVE  FileInv'
<1>1. IndexFileTypeOK /\ NoLeak /\ ~FreeFaults /\ CallTyped
    BY DEF FileInv, Callable
<1>2. ASSUME NEW entries \in Indexes, NEW op \in Constructions, ConstructBegin(op, entries)
      PROVE  FileInv'
  <2>1. Len(entries) \in Nat /\ ReplaceEntries(Len(entries))
    BY <1>2, FileAssumption DEF ConstructBegin
  <2>2. /\ at' \in Addr /\ heap' = {at'} /\ num_v' = Len(entries)
        /\ DOMAIN index' = 1..Len(entries)
        /\ \A v \in 1..Len(entries) : index'[v].blocks = {}
        /\ NoLeak'
    BY <1>1, <2>1, EntriesReplaced
  <2>3. /\ call' = [op |-> op, v |-> 0] /\ ret' = NotReturned /\ given' = entries
        /\ stream' = Unopened /\ build' = build
    BY <1>2 DEF ConstructBegin, Calls
  <2>4. IndexFileTypeOK' /\ CallTyped'
    BY <1>1, <2>1, <2>2, <2>3, FileAssumption
    DEF IndexFileTypeOK, CallTyped, Constructions, Unopened
  <2>5. EntriesPresent' /\ Unfilled' /\ Progress' /\ Quiet' /\ ResultInv'
    BY <1>2, <2>1, <2>2, <2>3, FileAssumption
    DEF EntriesPresent, Unfilled, Progress, Quiet, ResultInv, Constructions, NotReturned
  <2> QED
    BY <2>2, <2>4, <2>5 DEF FileInv
<1>3. ASSUME NEW entries \in Indexes, NEW op \in Constructions, ConstructStarved(op, entries)
      PROVE  FileInv'
  <2>1. /\ at' = Null /\ heap' = {} /\ num_v' = 0 /\ index' = <<>> /\ DOMAIN index' = {}
        /\ NoLeak'
    BY <1>1, <1>3, Freed DEF ConstructStarved
  <2>2. /\ call' = Idle /\ ret' = [op |-> op, ok |-> op = "construct_stream", starved |-> TRUE]
        /\ stream' = Unopened /\ build' = build
    BY <1>3 DEF ConstructStarved, Returns
  <2>3. ResultInv'
    <3>1. op = "construct" => ret'.ok = FALSE
      BY <2>2
    <3> QED
      BY <2>1, <2>2, <3>1 DEF ResultInv, Constructions
  <2> QED
    BY <1>1, <2>1, <2>2, <2>3
    DEF FileInv, IndexFileTypeOK, CallTyped, Constructions, Unopened, EntriesPresent, Unfilled,
        Progress, Quiet, Idle
<1>4. ASSUME NEW entries \in Indexes, ConstructThrows(entries)
      PROVE  FileInv'
  <2>1. /\ at' = Null /\ heap' = {} /\ num_v' \in Nat /\ index' = <<>> /\ DOMAIN index' = {}
    BY <1>1, <1>4, KeptEmpty, FileAssumption DEF ConstructThrows
  <2>2. /\ call' = Idle /\ ret' = [op |-> "threw", ok |-> FALSE, starved |-> FALSE]
        /\ stream' = Unopened /\ build' = build
    BY <1>4 DEF ConstructThrows, Returns
  <2>3. NoLeak'
    BY <2>1 DEF NoLeak, Blocks
  <2> QED
    BY <1>1, <2>1, <2>2, <2>3
    DEF FileInv, IndexFileTypeOK, CallTyped, Constructions, Unopened, EntriesPresent, Unfilled,
        Progress, Quiet, ResultInv, Idle
<1>5. ASSUME CallFree
      PROVE  FileInv'
  <2>1. /\ at' = Null /\ heap' = {} /\ num_v' = 0 /\ index' = <<>> /\ DOMAIN index' = {}
        /\ NoLeak'
    BY <1>1, <1>5, Freed DEF CallFree
  <2>2. /\ call' = Idle /\ ret' = [op |-> "free", ok |-> TRUE, starved |-> FALSE]
        /\ stream' = Unopened /\ build' = build
    BY <1>5 DEF CallFree, Returns
  <2> QED
    BY <1>1, <2>1, <2>2
    DEF FileInv, IndexFileTypeOK, CallTyped, Constructions, Unopened, EntriesPresent, Unfilled,
        Progress, Quiet, ResultInv, Idle
<1>6. ASSUME LoadBegin
      PROVE  FileInv'
  <2>1. /\ at' = Null /\ heap' = {} /\ num_v' = 0 /\ index' = <<>> /\ DOMAIN index' = {}
        /\ NoLeak'
    BY <1>1, <1>6, Freed DEF LoadBegin
  <2>2. /\ call' = [op |-> "load", v |-> 0] /\ ret' = NotReturned /\ build' = build
        /\ \E breaks \in BOOLEAN : stream' = [digits |-> file, pos |-> 0, breaks |-> breaks]
    BY <1>6 DEF LoadBegin, Calls
  <2>3. IndexFileTypeOK' /\ CallTyped'
    BY <1>1, <2>1, <2>2 DEF IndexFileTypeOK, CallTyped, Constructions, Idle
  <2> QED
    BY <2>1, <2>2, <2>3
    DEF FileInv, Constructions, EntriesPresent, Unfilled, Progress, Quiet, ResultInv,
        NotReturned
<1> QED
    BY <1>2, <1>3, <1>4, <1>5, <1>6

\* The steps of a construction.
LEMMA ConstructStep ==
    ASSUME FileInv,
           ConstructSearch \/ ConstructInterrupted \/ ConstructCopy \/ ConstructCopyStarved
             \/ ConstructEnd
    PROVE  FileInv'
<1>1. /\ call.op \in Constructions /\ call # Idle /\ at # Null /\ ~FreeFaults
      /\ DOMAIN index = 1..num_v /\ num_v \in Nat
  <2>1. call.op \in Constructions
    BY DEF ConstructSearch, ConstructInterrupted, ConstructCopy, ConstructCopyStarved, ConstructEnd
  <2>2. call # Idle /\ call.op # "load"
    BY <2>1 DEF Constructions, Idle
  <2>3. at # Null
    BY <2>2 DEF FileInv, EntriesPresent
  <2> QED
    BY <2>1, <2>2, <2>3 DEF FileInv, FreeFaults, IndexFileTypeOK
<1>2. IndexFileTypeOK /\ NoLeak /\ CallTyped /\ ret = NotReturned
    BY <1>1 DEF FileInv, Quiet
<1>3. given \in Indexes /\ Len(given) = num_v
    BY <1>1 DEF FileInv, Progress
<1>4. CASE ConstructSearch
  <2>1. /\ num_v' = num_v /\ at' = at /\ heap' = heap /\ ret' = ret /\ given' = given
        /\ stream' = stream /\ build' = build
        /\ call.v = 0 /\ call' = [call EXCEPT !.v = 1]
        /\ index' = [v \in 1..num_v |-> [trees |-> given[v].trees, list |-> index[v].list,
                                         blocks |-> index[v].blocks]]
    BY <1>4 DEF ConstructSearch
  <2>2. \A v \in 1..num_v : index[v].blocks = {}
    BY <1>1, <2>1 DEF FileInv, Unfilled
  <2>3. /\ DOMAIN index' = DOMAIN index
        /\ \A v \in DOMAIN index :
             /\ index'[v].trees = given[v].trees
             /\ index'[v].blocks = index[v].blocks
    BY <1>1, <2>1
  <2>4. call' = [op |-> call.op, v |-> 1]
    BY <1>2, <2>1 DEF CallTyped
  <2>5. IndexFileTypeOK' /\ CallTyped'
    BY <1>1, <1>2, <2>1, <2>3, <2>4 DEF IndexFileTypeOK, CallTyped, Constructions
  <2>6. NoLeak' /\ Unfilled'
    BY <1>1, <1>2, <2>1, <2>2, <2>3, <2>4 DEF NoLeak, Blocks, Unfilled
  <2>7. Progress'
    BY <1>1, <1>3, <2>1, <2>3, <2>4 DEF Progress
  <2>8. EntriesPresent' /\ Quiet' /\ ResultInv'
    BY <1>1, <1>2, <2>1 DEF EntriesPresent, Quiet, ResultInv, NotReturned, Constructions
  <2> QED
    BY <2>5, <2>6, <2>7, <2>8 DEF FileInv
<1>5. CASE ConstructInterrupted
  <2>1. /\ UNCHANGED <<num_v, at, index, heap, given, stream, build>>
        /\ call' = Idle /\ ret' = [op |-> "threw", ok |-> FALSE, starved |-> FALSE]
    BY <1>5 DEF ConstructInterrupted, Returns, objectVars
  <2> QED
    BY <1>1, <1>2, <2>1
    DEF FileInv, IndexFileTypeOK, CallTyped, NoLeak, Blocks, Constructions, EntriesPresent,
        Unfilled, Progress, Quiet, ResultInv, Idle
<1>6. CASE ConstructCopy
  <2>1. /\ call.v \in 1..num_v /\ FillEntry(call.v, index[call.v].trees, given[call.v].list)
        /\ UNCHANGED <<build, ret, given, stream>>
        /\ call' = [call EXCEPT !.v = @ + 1]
    BY <1>6 DEF ConstructCopy
  <2>2. /\ num_v' = num_v /\ at' = at
        /\ DOMAIN index' = DOMAIN index
        /\ index'[call.v].trees = index[call.v].trees
        /\ index'[call.v].list = given[call.v].list
        /\ \A v \in DOMAIN index : v # call.v => index'[v] = index[v]
        /\ heap' \in SUBSET Addr
        /\ \A v \in DOMAIN index' : index'[v].blocks \in SUBSET Addr
        /\ NoLeak'
    BY <1>1, <2>1, EntryFilled DEF Constructions
  <2>3. call' = [op |-> call.op, v |-> call.v + 1] /\ call.v \in Nat
    BY <2>1, <1>2 DEF CallTyped
  <2>4. IndexFileTypeOK' /\ CallTyped'
    BY <1>1, <1>2, <2>1, <2>2, <2>3 DEF IndexFileTypeOK, CallTyped, Constructions
  <2>5. Unfilled'
    BY <1>1, <2>1, <2>2, <2>3 DEF FileInv, Unfilled
  <2>6. Progress'
    BY <1>1, <2>1, <2>2, <2>3 DEF FileInv, Progress
  <2>7. EntriesPresent' /\ Quiet' /\ ResultInv'
    BY <1>1, <1>2, <2>1, <2>2 DEF EntriesPresent, Quiet, ResultInv, NotReturned, Constructions
  <2> QED
    BY <2>2, <2>4, <2>5, <2>6, <2>7 DEF FileInv
<1>7. CASE ConstructCopyStarved
  <2>1. /\ at' = Null /\ heap' = {} /\ num_v' = 0 /\ index' = <<>> /\ DOMAIN index' = {}
        /\ NoLeak'
    BY <1>1, <1>2, <1>7, Freed DEF ConstructCopyStarved
  <2>2. /\ call' = Idle /\ UNCHANGED <<build, stream>>
        /\ ret' = [op |-> call.op, ok |-> call.op = "construct_stream", starved |-> TRUE]
    BY <1>7 DEF ConstructCopyStarved, Returns
  <2>3. ResultInv'
    <3>1. call.op = "construct" => ret'.ok = FALSE
      BY <2>2
    <3> QED
      BY <1>1, <2>1, <2>2, <3>1 DEF ResultInv, Constructions
  <2> QED
    BY <1>2, <2>1, <2>2, <2>3
    DEF FileInv, IndexFileTypeOK, CallTyped, Constructions, EntriesPresent, Unfilled,
        Progress, Quiet, Idle
<1>8. CASE ConstructEnd
  <2>1. /\ UNCHANGED <<num_v, at, index, heap, given, stream, build>> /\ call.v = num_v + 1
        /\ call' = Idle /\ ret' = [op |-> call.op, ok |-> TRUE, starved |-> FALSE]
    BY <1>8 DEF ConstructEnd, Returns, objectVars
  <2>2. /\ \A v \in 1..num_v : index[v].trees = given[v].trees /\ index[v].list = given[v].list
        /\ given = [v \in 1..num_v |-> [trees |-> given[v].trees, list |-> given[v].list]]
    BY <1>1, <1>3, <2>1, FileAssumption DEF FileInv, Progress
  <2>3. Contents = given
    BY <1>1, <2>2 DEF Contents
  <2>4. Contents' = given'
    BY <2>1, <2>3 DEF Contents
  <2> QED
    BY <1>1, <1>2, <2>1, <2>4
    DEF FileInv, IndexFileTypeOK, CallTyped, NoLeak, Blocks, Constructions, EntriesPresent,
        Unfilled, Progress, Quiet, ResultInv, Idle
<1> QED
    BY <1>4, <1>5, <1>6, <1>7, <1>8


\* The steps of a load.
LEMMA LoadStep ==
    ASSUME FileInv, LoadRefused \/ LoadHeader \/ LoadEntry \/ LoadEntryFails \/ LoadEnd
    PROVE  FileInv'
<1>1. call.op = "load" /\ call # Idle /\ call.op \notin Constructions
  <2>1. call = [op |-> "load", v |-> 0] \/ call.op = "load"
    BY DEF LoadRefused, LoadHeader, LoadEntry, LoadEntryFails, LoadEnd
  <2> QED
    BY <2>1 DEF Constructions, Idle
<1>2. IndexFileTypeOK /\ NoLeak /\ CallTyped /\ ret = NotReturned
    BY <1>1 DEF FileInv, Quiet
<1>3. num_v \in Nat /\ ~FreeFaults
    BY <1>1, <1>2 DEF FileInv, EntriesPresent, FreeFaults, IndexFileTypeOK
<1>4. call.v > 0 => at # Null /\ DOMAIN index = 1..num_v
    BY <1>1, <1>2 DEF FileInv, EntriesPresent, IndexFileTypeOK
<1>5. CASE LoadRefused
  <2>1. /\ UNCHANGED <<num_v, at, index, heap, given, stream, build>>
        /\ call' = Idle /\ ret'.op = "load"
    BY <1>5 DEF LoadRefused, Returns, objectVars
  <2>2. call = [op |-> "load", v |-> 0]
    BY <1>5 DEF LoadRefused
  <2>3. EntriesPresent'
    BY <1>1, <2>1, <2>2 DEF FileInv, EntriesPresent
  <2>4. NoLeak'
    BY <1>2, <2>1 DEF NoLeak, Blocks
  <2> QED
    BY <1>1, <1>2, <1>3, <2>1, <2>3, <2>4
    DEF FileInv, IndexFileTypeOK, CallTyped, Constructions, Unfilled, Progress, Quiet,
        ResultInv, Idle
<1>6. CASE LoadHeader
  <2>1. PICK n \in Nat : ReplaceEntries(n)
    BY <1>6 DEF LoadHeader
  <2>2. /\ at' \in Addr /\ heap' = {at'} /\ num_v' = n
        /\ DOMAIN index' = 1..n
        /\ \A v \in 1..n : index'[v].blocks = {}
        /\ NoLeak'
    BY <1>2, <1>3, <2>1, EntriesReplaced
  <2>3. /\ call' = [op |-> "load", v |-> 1] /\ ret' = ret /\ given' = given /\ build' = build
        /\ stream' = [stream EXCEPT !.pos = 2 * CountRead]
    BY <1>6 DEF LoadHeader
  <2>4. 2 * CountRead \in Nat
    BY BehindNat, 0 \in Nat
  <2>5. stream' = [digits |-> stream.digits, pos |-> 2 * CountRead, breaks |-> stream.breaks]
    BY <1>2, <2>3 DEF CallTyped
  <2>6. IndexFileTypeOK' /\ CallTyped'
    BY <1>2, <2>2, <2>3, <2>4, <2>5, FileAssumption
    DEF IndexFileTypeOK, CallTyped, Constructions, Idle
  <2> QED
    BY <1>2, <2>2, <2>3, <2>6, FileAssumption
    DEF FileInv, EntriesPresent, Unfilled, Progress, Quiet, ResultInv, Constructions,
        NotReturned
<1>7. CASE LoadEntry
  <2>1. PICK s \in Nat :
            /\ FillEntry(call.v, TreesAt(stream.pos), ListAt(Behind(stream.pos), s))
            /\ stream' = [stream EXCEPT !.pos = Behind(@) + s * LabelDigits]
    BY <1>7 DEF LoadEntry
  <2>2. /\ call.v \in 1..num_v /\ call' = [call EXCEPT !.v = @ + 1]
        /\ UNCHANGED <<build, ret, given>>
    BY <1>7 DEF LoadEntry
  <2>3. at # Null /\ DOMAIN index = 1..num_v
    BY <1>3, <1>4, <2>2
  <2>4. /\ num_v' = num_v /\ at' = at
        /\ DOMAIN index' = DOMAIN index
        /\ \A v \in DOMAIN index : v # call.v => index'[v] = index[v]
        /\ heap' \in SUBSET Addr
        /\ \A v \in DOMAIN index' : index'[v].blocks \in SUBSET Addr
        /\ NoLeak'
    BY <1>1, <2>1, <2>2, <2>3, EntryFilled
  <2>5. call' = [op |-> "load", v |-> call.v + 1] /\ call.v \in Nat
    BY <1>1, <1>2, <2>2 DEF CallTyped
  <2>6. Behind(stream.pos) + s * LabelDigits \in Nat
    BY <1>2, BehindNat DEF IndexFileTypeOK
  <2>7. stream' = [digits |-> stream.digits, pos |-> Behind(stream.pos) + s * LabelDigits,
                   breaks |-> stream.breaks]
    BY <1>2, <2>1 DEF CallTyped
  <2>8. IndexFileTypeOK' /\ CallTyped'
    BY <1>2, <1>3, <2>2, <2>3, <2>4, <2>5, <2>6, <2>7
    DEF IndexFileTypeOK, CallTyped, Constructions, Idle
  <2>9. Unfilled'
    BY <1>1, <1>3, <2>2, <2>3, <2>4, <2>5 DEF FileInv, Unfilled
  <2> QED
    BY <1>2, <2>2, <2>3, <2>4, <2>5, <2>8, <2>9
    DEF FileInv, EntriesPresent, Progress, Quiet, ResultInv, Constructions, NotReturned
<1>8. CASE LoadEntryFails
  <2>1. Free /\ call' = Idle /\ ret'.op = "load" /\ UNCHANGED <<build, stream>>
    BY <1>8 DEF LoadEntryFails, Returns
  <2>2. /\ at' = Null /\ heap' = {} /\ num_v' = 0 /\ index' = <<>> /\ DOMAIN index' = {}
        /\ NoLeak'
    BY <1>2, <1>3, <2>1, Freed
  <2> QED
    BY <1>2, <2>1, <2>2
    DEF FileInv, IndexFileTypeOK, CallTyped, Constructions, EntriesPresent, Unfilled,
        Progress, Quiet, ResultInv, Idle
<1>9. CASE LoadEnd
  <2>1. /\ UNCHANGED <<num_v, at, index, heap, given, stream, build>>
        /\ call' = Idle /\ ret'.op = "load" /\ call.v = num_v + 1
    BY <1>9 DEF LoadEnd, Returns, objectVars
  <2>2. at # Null
    BY <1>3, <1>4, <2>1
  <2>3. NoLeak'
    BY <1>2, <2>1 DEF NoLeak, Blocks
  <2> QED
    BY <1>2, <1>3, <2>1, <2>2, <2>3
    DEF FileInv, IndexFileTypeOK, CallTyped, Constructions, EntriesPresent, Unfilled,
        Progress, Quiet, ResultInv, Idle
<1> QED
    BY <1>5, <1>6, <1>7, <1>8, <1>9

\* Every step preserves the invariant.
LEMMA FileStep == FileInv /\ [Next]_vars => FileInv'
<1> SUFFICES ASSUME FileInv, [Next]_vars PROVE FileInv'
    OBVIOUS
<1>1. ASSUME NEW entries \in Indexes,
             \/ \E op \in Constructions :
                   ConstructBegin(op, entries) \/ ConstructStarved(op, entries)
             \/ ConstructThrows(entries)
      PROVE  FileInv'
  <2>1. Callable
    BY <1>1 DEF ConstructBegin, ConstructStarved, ConstructThrows
  <2> QED
    BY <1>1, <2>1, BeginStep
<1>2. CASE CallFree
    BY <1>2, BeginStep DEF CallFree
<1>3. CASE LoadBegin
    BY <1>3, BeginStep DEF LoadBegin
<1>4. CASE Step
    BY <1>4, ConstructStep, LoadStep DEF Step
<1>5. CASE Unread \/ Store
  <2>1. /\ UNCHANGED <<num_v, at, index, heap, build>> /\ call = Idle /\ ~FreeFaults
        /\ call' = Idle /\ ret'.op \in {"unread", "store"} /\ stream' = Unopened
    BY <1>5 DEF Unread, Store, Callable, Returns, objectVars
  <2>2. EntriesPresent'
    BY <2>1 DEF FileInv, EntriesPresent, IndexFileTypeOK, FreeFaults
  <2>3. NoLeak'
    BY <2>1 DEF FileInv, NoLeak, Blocks
  <2> QED
    BY <2>1, <2>2, <2>3
    DEF FileInv, IndexFileTypeOK, CallTyped, Constructions, Unopened, Unfilled,
        Progress, Quiet, ResultInv, Idle
<1>6. CASE Restart
  <2>1. /\ build' \in Builds /\ num_v' = 0 /\ at' = Null /\ index' = <<>> /\ DOMAIN index' = {}
        /\ heap' = {} /\ call' = Idle /\ ret' = NotReturned /\ stream' = Unopened
    BY <1>6 DEF Restart
  <2>2. NoLeak'
    BY <2>1 DEF NoLeak, Blocks
  <2> QED
    BY <2>1, <2>2
    DEF FileInv, IndexFileTypeOK, CallTyped, Constructions, Unopened, EntriesPresent, Unfilled,
        Progress, Quiet, ResultInv, Idle, NotReturned
<1>7. CASE UNCHANGED vars
  <2>1. UNCHANGED <<num_v, at, index, heap, build, call, ret, given, stream>>
    BY <1>7 DEF vars, objectVars
  <2>2. NoLeak' /\ (Contents = given => Contents' = given')
    BY <2>1 DEF FileInv, NoLeak, Blocks, Contents
  <2>3. ResultInv'
    BY <2>1, <2>2 DEF FileInv, ResultInv
  <2> QED
    BY <2>1, <2>2, <2>3
    DEF FileInv, IndexFileTypeOK, CallTyped, EntriesPresent, Unfilled, Progress, Quiet
<1> QED
    BY <1>1, <1>2, <1>3, <1>4, <1>5, <1>6, <1>7 DEF Next

\* The invariant holds of every object at any time.
LEMMA FileInvariant == Spec => []FileInv
<1> QED
    BY FileInit, FileStep, PTL DEF Spec

\* The variables keep to their types, whatever is called and whatever fails.
THEOREM FileTypeCorrect == Spec => []IndexFileTypeOK
<1>1. FileInv => IndexFileTypeOK
    BY DEF FileInv
<1> QED
    BY <1>1, FileInvariant, PTL

\* No block memalign has returned is ever lost, however a construction or a load ends.
THEOREM NothingLeaks == Spec => []NoLeak
<1>1. FileInv => NoLeak
    BY DEF FileInv
<1> QED
    BY <1>1, FileInvariant, PTL

\* Free follows the null pointer only after a vector could not be allocated.
THEOREM FreeIsSafe == Spec => []FreeSafe
<1>1. FileInv => FreeSafe
    BY DEF FileInv, EntriesPresent, IndexFileTypeOK, FreeSafe, FreeFaults
<1> QED
    BY <1>1, FileInvariant, PTL

\* After ConstructIndex the object holds the index or nothing, and as the result says, but
\* for the overload that returns true in either case.
THEOREM ConstructReturnsIndex == Spec => []ConstructReturned
<1>1. FileInv => ConstructReturned
    BY DEF FileInv, ResultInv, ConstructReturned, Constructions
<1> QED
    BY <1>1, FileInvariant, PTL

(***************************************************************************)
(* What a refused load leaves behind.                                      *)
(***************************************************************************)
\* The header of a file is read into an object that has been freed, and the entries read
\* so far have their arrays.
LoadFresh ==
    call.op = "load" => /\ call.v = 0 => at = Null /\ num_v = 0
                        /\ \A v \in 1..num_v : v < call.v => index[v].blocks # {}

\* A load frees the object before it reads, and again when an entry cannot be read.
LEMMA RefusedStep == FileInv /\ LoadFresh /\ FailedLoadEmpty /\ [Next]_vars
                        => LoadFresh' /\ FailedLoadEmpty'
<1> SUFFICES ASSUME FileInv, LoadFresh, FailedLoadEmpty, [Next]_vars
             PROVE  LoadFresh' /\ FailedLoadEmpty'
    OBVIOUS
<1>1. CASE LoadBegin
  <2>1. /\ at' = Null /\ num_v' = 0 /\ ret' = NotReturned
    BY <1>1 DEF LoadBegin, Free, Calls
  <2>2. call' = [op |-> "load", v |-> 0]
    BY <1>1 DEF LoadBegin, Calls
  <2> QED
    BY <2>1, <2>2 DEF LoadFresh, FailedLoadEmpty, NotReturned
<1>2. CASE LoadRefused
  <2>1. at' = Null /\ num_v' = 0 /\ call' = Idle
    BY <1>2 DEF LoadRefused, LoadFresh, Returns, objectVars
  <2> QED
    BY <2>1 DEF LoadFresh, FailedLoadEmpty, Idle
<1>3. CASE LoadEntryFails
  <2>1. at' = Null /\ num_v' = 0 /\ call' = Idle
    BY <1>3 DEF LoadEntryFails, Free, Returns
  <2> QED
    BY <2>1 DEF LoadFresh, FailedLoadEmpty, Idle
<1>4. CASE LoadEnd
  <2>1. /\ ret' = [op |-> "load", ok |-> GoodAt(stream.pos), starved |-> FALSE]
        /\ stream' = stream /\ call' = Idle /\ num_v' = num_v /\ index' = index
        /\ call.op = "load" /\ call.v = num_v + 1 /\ num_v \in Nat
    BY <1>4 DEF LoadEnd, Returns, objectVars, FileInv, IndexFileTypeOK
  <2>2. ~ret'.ok => ~GoodAt(stream.pos)'
    BY <2>1 DEF GoodAt
  <2>3. \A v \in 1..num_v : index[v].blocks # {}
    BY <2>1 DEF LoadFresh
  <2>4. \A v \in 1..num_v' : index'[v].blocks # {}
    BY <2>1, <2>3
  <2> QED
    BY <2>1, <2>2, <2>4 DEF LoadFresh, FailedLoadEmpty, Idle
<1>5. CASE LoadHeader \/ LoadEntry
  <2>1. /\ call \in [op : Constructions \cup {"none", "load"}, v : Nat]
        /\ call # Idle => ret = NotReturned
    BY DEF FileInv, CallTyped, Quiet
  <2>2. call.op = "load" /\ ret' = ret
    <3>1. CASE LoadHeader
      BY <3>1 DEF LoadHeader
    <3>2. CASE LoadEntry
      BY <3>2 DEF LoadEntry
    <3> QED
      BY <1>5, <3>1, <3>2
  <2>3. ret' = NotReturned
    BY <2>1, <2>2 DEF Idle
  <2>4. CASE LoadHeader
    <3>1. call'.v = 1 /\ num_v' \in Nat
      <4>1. call' = [call EXCEPT !.v = 1]
        BY <2>4 DEF LoadHeader
      <4>2. num_v' \in Nat
        BY <2>4 DEF LoadHeader, ReplaceEntries
      <4> QED
        BY <2>1, <4>1, <4>2
    <3> QED
      BY <2>3, <3>1 DEF LoadFresh, FailedLoadEmpty, NotReturned
  <2>5. CASE LoadEntry
    <3>1. PICK s : FillEntry(call.v, TreesAt(stream.pos), ListAt(Behind(stream.pos), s))
      BY <2>5 DEF LoadEntry
    <3>2. call.v \in 1..num_v /\ call' = [call EXCEPT !.v = @ + 1] /\ num_v \in Nat
      BY <2>5 DEF LoadEntry, FileInv, IndexFileTypeOK
    <3>3. PICK blocks \in SUBSET (Addr \ heap) :
              /\ Cardinality(blocks) = 2
              /\ index' = [index EXCEPT ![call.v] =
                     [trees |-> TreesAt(stream.pos), list |-> ListAt(Behind(stream.pos), s),
                      blocks |-> blocks]]
              /\ num_v' = num_v
      <4> DEFINE vacant == {A \in SUBSET (Addr \ heap) : Cardinality(A) = 2}
      <4>1. vacant # {} /\ (CHOOSE A \in vacant : TRUE) \in vacant
        BY <3>1 DEF FillEntry
      <4> QED
        BY <3>1, <4>1 DEF FillEntry
    <3>4. blocks # {}
      BY <3>3, FS_EmptySet
    <3>5. call'.v = call.v + 1 /\ call.v \in Nat /\ call.v # 0
      BY <2>1, <3>2
    <3>6. ASSUME NEW v \in 1..num_v', v < call'.v PROVE index'[v].blocks # {}
      <4>1. v \in 1..num_v /\ v <= call.v
        BY <3>3, <3>5, <3>6
      <4>2. CASE v = call.v
        <5>1. v \in DOMAIN index
          BY <2>2, <3>2, <4>2 DEF FileInv, IndexFileTypeOK, EntriesPresent, Idle
        <5> QED
          BY <3>3, <3>4, <4>2, <5>1
      <4>3. CASE v # call.v
        <5>1. index[v].blocks # {}
          BY <2>2, <3>2, <3>5, <4>1, <4>3 DEF LoadFresh
        <5>2. index'[v] = index[v]
          <6>1. v \in DOMAIN index
            BY <2>2, <3>2, <4>1 DEF FileInv, IndexFileTypeOK, EntriesPresent, Idle
          <6> QED
            BY <3>3, <4>3, <6>1
        <5> QED
          BY <5>1, <5>2
      <4> QED
        BY <4>2, <4>3
    <3> QED
      BY <2>3, <3>5, <3>6 DEF LoadFresh, FailedLoadEmpty, NotReturned
  <2> QED
    BY <1>5, <2>4, <2>5
<1>6. ASSUME \/ ConstructSearch \/ ConstructInterrupted \/ ConstructCopy
             \/ ConstructCopyStarved \/ ConstructEnd
      PROVE  LoadFresh' /\ FailedLoadEmpty'
  <2>1. /\ call \in [op : Constructions \cup {"none", "load"}, v : Nat]
        /\ call.op \in Constructions /\ ret = NotReturned
    <3>1. call.op \in Constructions
      BY <1>6 DEF ConstructSearch, ConstructInterrupted, ConstructCopy, ConstructCopyStarved,
          ConstructEnd
    <3> QED
      BY <3>1 DEF FileInv, CallTyped, Quiet, Idle, Constructions
  <2>2. call' = Idle \/ call'.op = call.op
    BY <1>6, <2>1 DEF ConstructSearch, ConstructInterrupted, ConstructCopy,
        ConstructCopyStarved, ConstructEnd, Returns
  <2>3. ret' = NotReturned \/ ret'.op \in Constructions \cup {"threw"}
    BY <1>6, <2>1 DEF ConstructSearch, ConstructInterrupted, ConstructCopy,
        ConstructCopyStarved, ConstructEnd, Returns
  <2> QED
    BY <2>1, <2>2, <2>3 DEF LoadFresh, FailedLoadEmpty, NotReturned, Idle, Constructions
<1>7. ASSUME \/ \E entries \in Indexes :
                  \/ \E op \in Constructions :
                        ConstructBegin(op, entries) \/ ConstructStarved(op, entries)
                  \/ ConstructThrows(entries)
             \/ Unread \/ CallFree \/ Store \/ Restart
      PROVE  LoadFresh' /\ FailedLoadEmpty'
  <2>1. /\ call' = Idle \/ call'.op \in Constructions
        /\ ret' = NotReturned \/ ret'.op \in Constructions \cup {"threw", "unread", "free", "store"}
    BY <1>7 DEF ConstructBegin, ConstructStarved, ConstructThrows, Unread, CallFree, Store,
        Restart, Returns, Calls
  <2> QED
    BY <2>1 DEF LoadFresh, FailedLoadEmpty, NotReturned, Idle, Constructions
<1>8. CASE UNCHANGED vars
    BY <1>8 DEF vars, objectVars, LoadFresh, FailedLoadEmpty, GoodAt
<1> QED
    BY <1>1, <1>2, <1>3, <1>4, <1>5, <1>6, <1>7, <1>8 DEF Next, Step

\* A load that fails leaves an empty object, or one with all its arrays if the stream had
\* failed behind LoadIndex's back.
THEOREM FailedLoadsAreEmpty == Spec => []FailedLoadEmpty
<1>1. Init => LoadFresh /\ FailedLoadEmpty
    BY DEF Init, LoadFresh, FailedLoadEmpty, NotReturned, Idle
<1> QED
    BY <1>1, RefusedStep, FileInvariant, PTL DEF Spec

(***************************************************************************)
(* Numbers.                                                                *)
(***************************************************************************)
\* The product of two numbers is one.
LEMMA Products == \A a, b \in Nat : a * b \in Nat
  OBVIOUS

\* Induction over the numbers, for a set of them.
LEMMA SetInduction ==
    ASSUME NEW S, 0 \in S, \A n \in Nat : n \in S => n + 1 \in S
    PROVE  Nat \subseteq S
<1> DEFINE R == {ss \in Nat \X Nat : ss[1] < ss[2]}
           T == Nat \ S
<1>1. IsWellFoundedOn(R, Nat)
  BY NatLessThanWellFounded DEF OpToRel
<1>2. SUFFICES ASSUME T # {} PROVE FALSE
  OBVIOUS
<1>3. PICK x \in T : \A y \in T : ~ (<<y, x>> \in R)
  <2>1. T \subseteq Nat
    OBVIOUS
  <2> HIDE DEF R, T
  <2> QED BY <1>1, <1>2, <2>1, WFMin
<1>4. x \in Nat /\ x \notin S /\ x # 0
  BY <1>3
<1>5. x - 1 \in T /\ <<x - 1, x>> \in R
  <2>1. x - 1 \in Nat /\ (x - 1) + 1 = x
    BY <1>4
  <2> QED BY <1>4, <2>1
<1> QED BY <1>3, <1>5

\* f takes the value b at 0, and after each value the next.
Recurs(f, S, b, next) ==
    f \in [Nat -> S] /\ f[0] = b /\ \A n \in Nat : f[n + 1] = next[n][f[n]]

\* Recursion over the numbers.
LEMMA RecursionExists ==
    ASSUME NEW S, NEW b \in S, NEW next \in [Nat -> [S -> S]]
    PROVE  \E f : Recurs(f, S, b, next)
<1> DEFINE Upto(n, f) == /\ f \in [0..n -> S] /\ f[0] = b
                         /\ \A m \in Nat : m < n => f[m + 1] = next[m][f[m]]
           Ex == {n \in Nat : \E f : Upto(n, f)}
           Same == {m \in Nat : \A i, j \in Nat : \A f, g :
                        m <= i /\ m <= j /\ Upto(i, f) /\ Upto(j, g) => f[m] = g[m]}
<1>1. Nat \subseteq Ex
  <2>1. 0 \in Ex
    <3>1. Upto(0, [m \in 0..0 |-> b])
      OBVIOUS
    <3> QED BY <3>1
  <2>2. ASSUME NEW n \in Nat, n \in Ex PROVE n + 1 \in Ex
    <3>1. PICK f : Upto(n, f)
      BY <2>2
    <3> DEFINE h == [m \in 0..(n + 1) |-> IF m = n + 1 THEN next[n][f[n]] ELSE f[m]]
    <3>2. f[n] \in S /\ next[n][f[n]] \in S
      BY <3>1
    <3>3. h \in [0..(n + 1) -> S] /\ h[0] = b
      BY <3>1, <3>2
    <3>4. ASSUME NEW m \in Nat, m < n + 1 PROVE h[m + 1] = next[m][h[m]]
      <4>1. CASE m = n
        <5>1. n \in 0..(n + 1) /\ n + 1 \in 0..(n + 1) /\ n # n + 1
          OBVIOUS
        <5> QED BY <4>1, <5>1
      <4>2. CASE m < n
        <5>1. m \in 0..(n + 1) /\ m + 1 \in 0..(n + 1) /\ m # n + 1 /\ m + 1 # n + 1
          BY <4>2
        <5>2. f[m + 1] = next[m][f[m]]
          BY <4>2, <3>1
        <5> QED BY <5>1, <5>2
      <4> QED BY <4>1, <4>2, <3>4
    <3>5. Upto(n + 1, h)
      BY <3>3, <3>4
    <3> HIDE DEF h, Upto
    <3> QED BY <3>5
  <2> HIDE DEF Ex
  <2> QED BY <2>1, <2>2, SetInduction
<1>2. Nat \subseteq Same
  <2>1. 0 \in Same
    OBVIOUS
  <2>2. ASSUME NEW m \in Nat, m \in Same PROVE m + 1 \in Same
    <3>1. SUFFICES ASSUME NEW i \in Nat, NEW j \in Nat, NEW f, NEW g,
                          m + 1 <= i, m + 1 <= j, Upto(i, f), Upto(j, g)
                   PROVE  f[m + 1] = g[m + 1]
      OBVIOUS
    <3>2. f[m] = g[m]
      <4>1. m <= i /\ m <= j
        BY <3>1
      <4> HIDE DEF Upto
      <4> QED BY <2>2, <3>1, <4>1
    <3>3. m < i /\ m < j
      BY <3>1
    <3>4. f[m + 1] = next[m][f[m]] /\ g[m + 1] = next[m][g[m]]
      BY <3>1, <3>3
    <3> QED BY <3>2, <3>4
  <2> HIDE DEF Same
  <2> QED BY <2>1, <2>2, SetInduction
<1> DEFINE part == [n \in Nat |-> CHOOSE f : Upto(n, f)]
<1>3. \A n \in Nat : Upto(n, part[n])
  <2>1. \A n \in Nat : \E f : Upto(n, f)
    BY <1>1
  <2> HIDE DEF Upto
  <2> QED BY <2>1
<1> HIDE DEF part
<1> DEFINE f == [n \in Nat |-> part[n][n]]
<1>4. f \in [Nat -> S] /\ f[0] = b
  BY <1>3
<1>5. ASSUME NEW n \in Nat PROVE f[n + 1] = next[n][f[n]]
  <2>1. Upto(n + 1, part[n + 1]) /\ Upto(n, part[n])
    BY <1>3
  <2>2. part[n + 1][n] = part[n][n]
    <3> HIDE DEF Upto
    <3>1. n \in Same /\ n <= n + 1 /\ n <= n
      BY <1>2
    <3> QED BY <2>1, <3>1
  <2> QED BY <2>1, <2>2
<1>6. Recurs(f, S, b, next)
  BY <1>4, <1>5 DEF Recurs
<1> QED BY <1>6

(***************************************************************************)
(* Digits.                                                                 *)
(***************************************************************************)
\* What digits are worth.
LEMMA WorthEquation ==
    /\ Worth \in [Nat -> Nat \ {0}]
    /\ Worth[0] = 1
    /\ \A n \in Nat : Worth[n + 1] = Base * Worth[n]
<1> DEFINE S == Nat \ {0}
           next == [n \in Nat |-> [x \in S |-> Base * x]]
<1>1. Base \in Nat /\ Base > 0
  BY FileAssumption
<1>2. \A x \in S : Base * x \in S
  BY <1>1
<1>3. next \in [Nat -> [S -> S]]
  BY <1>2
<1>4. PICK f : Recurs(f, S, 1, next)
  <2>1. 1 \in S
    OBVIOUS
  <2> HIDE DEF next, S
  <2> QED BY <1>3, <2>1, RecursionExists
<1>5. \A n \in Nat : f[n + 1] = Base * f[n]
  BY <1>4 DEF Recurs
<1>6. f = [n \in Nat |-> IF n = 0 THEN 1 ELSE Base * f[n - 1]]
  <2>1. ASSUME NEW n \in Nat PROVE f[n] = IF n = 0 THEN 1 ELSE Base * f[n - 1]
    <3>1. n # 0 => n - 1 \in Nat /\ (n - 1) + 1 = n
      OBVIOUS
    <3> QED BY <1>4, <1>5, <3>1 DEF Recurs
  <2> QED BY <2>1, <1>4 DEF Recurs
<1>7. Worth = [n \in Nat |-> IF n = 0 THEN 1 ELSE Base * Worth[n - 1]]
  BY <1>6 DEF Worth
<1> HIDE DEF S
<1>8. ASSUME NEW n \in Nat PROVE Worth[n] = f[n]
  <2> DEFINE T == {k \in Nat : Worth[k] = f[k]}
  <2>1. 0 \in T
    BY <1>7, <1>4 DEF Recurs
  <2>2. \A k \in Nat : k \in T => k + 1 \in T
    BY <1>7, <1>5
  <2>3. Nat \subseteq T
    <3> HIDE DEF T
    <3> QED BY <2>1, <2>2, SetInduction
  <2> QED BY <2>3
<1>9. Worth = f
  BY <1>4, <1>7, <1>8 DEF Recurs
<1> QED BY <1>4, <1>5, <1>9 DEF S, Recurs

\* The second digit is worth a base.
LEMMA WorthOne == Worth[1] = Base
<1>1. Worth[0] = 1 /\ Worth[0 + 1] = Base * Worth[0] /\ 0 + 1 = 1
  BY ONLY WorthEquation, 0 \in Nat
<1>2. Base \in Nat
  BY FileAssumption
<1> QED BY ONLY <1>1, <1>2

\* Dividing twice.
LEMMA DivideTwice ==
    ASSUME NEW n \in Nat, NEW p \in Nat, p > 0, NEW b \in Nat, b > 0
    PROVE  n % (b * p) = (n % p) + p * ((n \div p) % b)
<1> DEFINE q == n \div p
           r == n % p
           a == q \div b
           c == q % b
<1>1. q \in Nat /\ r \in 0..(p - 1) /\ n = p * q + r
  OBVIOUS
<1>2. a \in Nat /\ c \in 0..(b - 1) /\ q = b * a + c
  BY <1>1
<1> HIDE DEF q, r, a, c
<1>3. n = (b * p) * a + (p * c + r)
  BY <1>1, <1>2
<1>4. p * c <= p * (b - 1)
  BY <1>2
<1>5. p * (b - 1) = b * p - p
  OBVIOUS
<1>6. p * c + r \in Nat /\ p * c + r < b * p /\ b * p \in Nat /\ b * p > 0
  BY <1>1, <1>2, <1>4, <1>5
<1> DEFINE m == b * p
           e == p * c + r
<1>7. n = m * a + e /\ e \in Nat /\ e < m /\ m \in Nat /\ m > 0
  BY <1>3, <1>6
<1>8. n % m = e
  <2> HIDE DEF m, e
  <2> QED BY <1>2, <1>7
<1> QED BY <1>8 DEF q, r, c

\* A number is read back from its digits.
LEMMA NumberOfDigits ==
    ASSUME NEW n \in Nat, NEW w \in Nat, n < Worth[w]
    PROVE  Number(Digits(n, w)) = n
<1> DEFINE D == Digits(n, w)
           f == [i \in 0..w |-> n % Worth[i]]
           Adds(g) == g = [i \in 0..Len(D) |->
                             IF i = 0 THEN 0 ELSE g[i - 1] + Worth[i - 1] * D[i]]
<1>1. D = [i \in 1..w |-> (n \div Worth[i - 1]) % Base] /\ Len(D) = w
  BY DEF Digits
<1>2. \A i \in Nat : Worth[i] \in Nat /\ Worth[i] > 0
  BY WorthEquation
<1>3. Base \in Nat /\ Base > 0
  BY FileAssumption
<1>4. ASSUME NEW i \in 1..w PROVE f[i] = f[i - 1] + Worth[i - 1] * D[i]
  <2>1. i - 1 \in Nat /\ i - 1 \in 0..w /\ i \in 0..w /\ (i - 1) + 1 = i
    OBVIOUS
  <2>2. Worth[i] = Base * Worth[i - 1]
    BY <2>1, WorthEquation
  <2>3. n % (Base * Worth[i - 1]) = (n % Worth[i - 1]) + Worth[i - 1] * ((n \div Worth[i - 1]) % Base)
    BY <1>2, <1>3, <2>1, DivideTwice
  <2> QED BY <1>1, <2>1, <2>2, <2>3
<1>5. f[0] = 0
  BY WorthEquation
<1> HIDE DEF D
<1>6. Adds(f)
  <2>1. f = [i \in 0..Len(D) |-> f[i]]
    BY <1>1
  <2>2. \A i \in 0..Len(D) : i # 0 => i \in 1..w
    BY <1>1
  <2> HIDE DEF f
  <2> QED BY <1>4, <1>5, <2>1, <2>2
<1> DEFINE number == CHOOSE g : Adds(g)
<1>7. Adds(number)
  <2> HIDE DEF f, Adds
  <2> QED BY <1>6
<1>8. Number(D) = number[Len(D)]
  BY DEF Number
<1> HIDE DEF number
<1> DEFINE Same == {i \in Nat : i <= w => number[i] = f[i]}
<1>9. Nat \subseteq Same
  <2>1. 0 \in Same
    BY <1>1, <1>5, <1>7
  <2>2. ASSUME NEW i \in Nat, i \in Same PROVE i + 1 \in Same
    <3>1. SUFFICES ASSUME i + 1 <= w PROVE number[i + 1] = f[i + 1]
      OBVIOUS
    <3>2. number[i] = f[i] /\ i + 1 \in 1..w /\ (i + 1) - 1 = i /\ i + 1 \in 0..Len(D)
      BY <1>1, <2>2, <3>1
    <3>3. number[i + 1] = number[i] + Worth[i] * D[i + 1]
      BY <1>7, <3>2
    <3>4. f[i + 1] = f[i] + Worth[i] * D[i + 1]
      <4> HIDE DEF f
      <4> QED BY <1>4, <3>2
    <3> QED BY <3>2, <3>3, <3>4
  <2> HIDE DEF Same
  <2> QED BY <2>1, <2>2, SetInduction
<1>10. number[w] = n % Worth[w]
  <2>1. f[w] = n % Worth[w]
    OBVIOUS
  <2>2. w \in Same
    <3> HIDE DEF Same
    <3> QED BY <1>9
  <2> HIDE DEF f
  <2> QED BY <2>1, <2>2
<1>11. n % Worth[w] = n
  BY <1>2
<1> QED BY <1>1, <1>8, <1>10, <1>11 DEF D

(***************************************************************************)
(* Sequences.                                                              *)
(***************************************************************************)
Listed(s) == \E S : s \in Seq(S)

\* A sequence is a function on the numbers up to its length.
LEMMA ListedLen ==
    ASSUME NEW s, Listed(s)
    PROVE  Len(s) \in Nat /\ DOMAIN s = 1..Len(s) /\ s = [i \in 1..Len(s) |-> s[i]]
  BY DEF Listed

\* Such a function is a sequence.
LEMMA ListedFunction ==
    ASSUME NEW n \in Nat, NEW s, s = [i \in 1..n |-> s[i]]
    PROVE  Listed(s) /\ Len(s) = n
<1> DEFINE S == {s[i] : i \in 1..n}
<1>1. s \in [1..n -> S]
  <2>1. \A i \in 1..n : s[i] \in S
    OBVIOUS
  <2> HIDE DEF S
  <2> QED BY <2>1
<1> HIDE DEF S
<1>2. s \in Seq(S) /\ Len(s) = n
  BY <1>1
<1> QED BY <1>2 DEF Listed

\* Two sequences, one behind the other.
LEMMA ListedConcat ==
    ASSUME NEW s, NEW t, Listed(s), Listed(t)
    PROVE  /\ Listed(s \o t)
           /\ Len(s \o t) = Len(s) + Len(t)
           /\ \A i \in 1..Len(s) : (s \o t)[i] = s[i]
           /\ \A i \in 1..Len(t) : (s \o t)[Len(s) + i] = t[i]
<1>1. PICK S : s \in Seq(S)
  BY DEF Listed
<1>2. PICK T : t \in Seq(T)
  BY DEF Listed
<1>3. s \in Seq(S \cup T) /\ t \in Seq(S \cup T)
  BY <1>1, <1>2
<1>4. s \o t \in Seq(S \cup T)
  BY <1>3
<1>5. Listed(s \o t)
  BY <1>4 DEF Listed
<1> QED BY <1>3, <1>5

\* Where the sequences of a flattened sequence end.
Ends(end, seqs, m) ==
    /\ end \in [0..m -> Nat] /\ end[0] = 0
    /\ \A i \in 1..m : end[i] = end[i - 1] + Len(seqs[i])

\* A sequence that has these sequences one behind the other.
Placed(flat, seqs, m) ==
    \E end : /\ Ends(end, seqs, m) /\ end[m] = Len(flat)
            /\ \A i \in 1..m : \A j \in 1..Len(seqs[i]) : flat[end[i - 1] + j] = seqs[i][j]

\* g appends one of these sequences after the other.
Appends(g, seqs, m) ==
    /\ g[0] = <<>>
    /\ \A n \in Nat : n + 1 <= m => g[n + 1] = g[n] \o seqs[n + 1]

\* A place in a sequence is a place in a longer one.
LEMMA PlaceWithin ==
    ASSUME NEW a \in Nat, NEW j \in Nat, j >= 1, NEW l \in Nat, a + j <= l, NEW more \in Nat
    PROVE  a + j \in 1..l /\ a + j <= l + more
  OBVIOUS

\* Sequences appended one after the other end up one behind the other.
LEMMA AppendedPlaced ==
    ASSUME NEW S, NEW m \in Nat, NEW seqs, NEW g \in [Nat -> Seq(S)], Appends(g, seqs, m),
           \A i \in 1..m : seqs[i] \in Seq(S)
    PROVE  Placed(g[m], seqs, m)
<1> DEFINE end == [n \in 0..m |-> Len(g[n])]
           Here(n) == \A i \in 1..m : i <= n => \A j \in 1..Len(seqs[i]) :
                        /\ Len(g[i - 1]) + j <= Len(g[n])
                        /\ g[n][Len(g[i - 1]) + j] = seqs[i][j]
           Good == {n \in Nat : n <= m => Here(n)}
<1>1. ASSUME NEW n \in Nat, n + 1 <= m
      PROVE  /\ Len(g[n]) \in Nat /\ Len(seqs[n + 1]) \in Nat
             /\ Len(g[n + 1]) = Len(g[n]) + Len(seqs[n + 1])
             /\ \A j \in 1..Len(g[n]) : g[n + 1][j] = g[n][j]
             /\ \A j \in 1..Len(seqs[n + 1]) : g[n + 1][Len(g[n]) + j] = seqs[n + 1][j]
  <2>1. g[n + 1] = g[n] \o seqs[n + 1]
    BY <1>1 DEF Appends
  <2>2. g[n] \in Seq(S)
    OBVIOUS
  <2>3. seqs[n + 1] \in Seq(S)
    <3>1. n + 1 \in 1..m
      BY <1>1
    <3> QED BY <3>1
  <2>4. Listed(g[n]) /\ Listed(seqs[n + 1])
    BY ONLY <2>2, <2>3 DEF Listed
  <2> DEFINE x == g[n]
             y == seqs[n + 1]
  <2>5. /\ Len(x \o y) = Len(x) + Len(y)
        /\ \A j \in 1..Len(x) : (x \o y)[j] = x[j]
        /\ \A j \in 1..Len(y) : (x \o y)[Len(x) + j] = y[j]
    <3> HIDE DEF x, y
    <3> QED BY ONLY <2>4, ListedConcat
  <2>6. Len(x) \in Nat /\ Len(y) \in Nat
    BY ONLY <2>2, <2>3
  <2> QED BY ONLY <2>1, <2>5, <2>6
<1>2. \A n \in Nat : Len(g[n]) \in Nat
  OBVIOUS
<1>3. Len(g[0]) = 0
  BY DEF Appends
<1>4. Ends(end, seqs, m) /\ end[m] = Len(g[m])
  <2>1. ASSUME NEW i \in 1..m PROVE end[i] = end[i - 1] + Len(seqs[i])
    <3>1. /\ i - 1 \in Nat /\ (i - 1) + 1 = i /\ (i - 1) + 1 <= m
          /\ i - 1 \in 0..m /\ i \in 0..m
      OBVIOUS
    <3>2. Len(g[i]) = Len(g[i - 1]) + Len(seqs[i])
      BY ONLY <1>1, <3>1
    <3> QED BY ONLY <3>1, <3>2
  <2>2. end \in [0..m -> Nat] /\ end[0] = 0 /\ end[m] = Len(g[m])
    BY ONLY <1>2, <1>3, m \in Nat
  <2> HIDE DEF end
  <2> QED BY ONLY <2>1, <2>2 DEF Ends
<1>5. Nat \subseteq Good
  <2>1. 0 \in Good
    OBVIOUS
  <2>2. ASSUME NEW n \in Nat, n \in Good PROVE n + 1 \in Good
    <3>1. ASSUME n + 1 <= m, NEW i \in 1..m, i <= n + 1, NEW j \in 1..Len(seqs[i])
          PROVE  /\ Len(g[i - 1]) + j <= Len(g[n + 1])
                 /\ g[n + 1][Len(g[i - 1]) + j] = seqs[i][j]
      <4>1. n \in Nat /\ m \in Nat /\ i \in 1..m /\ j \in 1..Len(seqs[i]) /\ i <= n + 1
        BY ONLY <3>1, n \in Nat, m \in Nat
      <4>2. /\ Len(g[n]) \in Nat /\ Len(seqs[n + 1]) \in Nat
            /\ Len(g[n + 1]) = Len(g[n]) + Len(seqs[n + 1])
            /\ \A k \in 1..Len(g[n]) : g[n + 1][k] = g[n][k]
            /\ \A k \in 1..Len(seqs[n + 1]) : g[n + 1][Len(g[n]) + k] = seqs[n + 1][k]
        BY ONLY <1>1, <3>1, n \in Nat
      <4>3. CASE i = n + 1
        <5>1. i - 1 = n
          BY <4>3
        <5>2. j \in 1..Len(seqs[n + 1]) /\ j \in Nat /\ j <= Len(seqs[n + 1])
          BY ONLY <4>1, <4>2, <4>3
        <5>3. g[i - 1] = g[n] /\ seqs[i] = seqs[n + 1]
          BY ONLY <4>3, <5>1
        <5>4. g[n + 1][Len(g[n]) + j] = seqs[n + 1][j]
          BY ONLY <4>2, <5>2
        <5>5. Len(g[n]) + j <= Len(g[n + 1])
          BY ONLY <4>2, <5>2
        <5> QED BY ONLY <5>3, <5>4, <5>5
      <4>4. CASE i <= n
        <5>1. /\ Len(g[i - 1]) + j <= Len(g[n])
              /\ g[n][Len(g[i - 1]) + j] = seqs[i][j]
          <6>1. n <= m
            BY <3>1
          <6> QED BY ONLY <2>2, <4>1, <4>4, <6>1
        <5>2. Len(g[i - 1]) \in Nat /\ j \in Nat /\ j >= 1
          <6>1. i - 1 \in Nat
            OBVIOUS
          <6>2. Len(seqs[i]) \in Nat
            OBVIOUS
          <6> QED BY ONLY <1>2, <4>1, <6>1, <6>2
        <5>3. Len(g[n]) \in Nat /\ Len(seqs[n + 1]) \in Nat
          BY ONLY <4>2
        <5>4. /\ Len(g[i - 1]) + j \in 1..Len(g[n])
              /\ Len(g[i - 1]) + j <= Len(g[n]) + Len(seqs[n + 1])
          BY ONLY <5>1, <5>2, <5>3, PlaceWithin
        <5> QED BY ONLY <4>2, <5>1, <5>4
      <4>5. i = n + 1 \/ i <= n
        BY ONLY <4>1
      <4> QED BY ONLY <4>3, <4>4, <4>5
    <3>2. n + 1 <= m => Here(n + 1)
      BY ONLY <3>1
    <3> HIDE DEF Here
    <3> QED BY ONLY <3>2, n \in Nat
  <2> HIDE DEF Good
  <2> QED BY <2>1, <2>2, SetInduction
<1>6. m \in Good
  <2> HIDE DEF Good
  <2> QED BY ONLY <1>5, m \in Nat
<1>7. ASSUME NEW i \in 1..m, NEW j \in 1..Len(seqs[i]) PROVE g[m][end[i - 1] + j] = seqs[i][j]
  <2>1. i <= m /\ m <= m /\ i - 1 \in 0..m
    OBVIOUS
  <2> QED BY ONLY <1>6, <1>7, <2>1
<1> HIDE DEF end
<1> QED BY ONLY <1>4, <1>7 DEF Placed

\* FlattenSeq puts sequences one behind the other.
LEMMA Flattened ==
    ASSUME NEW m \in Nat, NEW seqs, seqs = [i \in 1..m |-> seqs[i]],
           \A i \in 1..m : Listed(seqs[i])
    PROVE  Listed(FlattenSeq(seqs)) /\ Placed(FlattenSeq(seqs), seqs, m)
<1>1. Listed(seqs) /\ Len(seqs) = m
  BY ListedFunction
<1>2. CASE m = 0
  <2>1. FlattenSeq(seqs) = seqs
    BY <1>1, <1>2 DEF FlattenSeq
  <2> DEFINE end == [i \in 0..0 |-> 0]
  <2>2. Ends(end, seqs, m) /\ end[m] = 0
    BY ONLY <1>2 DEF Ends
  <2>3. \A i \in 1..m : FALSE
    BY ONLY <1>2
  <2> HIDE DEF end
  <2>4. Placed(seqs, seqs, m)
    BY ONLY <1>1, <1>2, <2>2, <2>3 DEF Placed
  <2> QED BY ONLY <1>1, <2>1, <2>4
<1>3. CASE m > 0
  <2> DEFINE S == UNION {{seqs[i][j] : j \in 1..Len(seqs[i])} : i \in 1..m}
             next == [n \in Nat |-> [x \in Seq(S) |->
                        IF n + 1 <= m THEN x \o seqs[n + 1] ELSE x]]
  <2>1. ASSUME NEW i \in 1..m PROVE seqs[i] \in Seq(S)
    <3>1. Len(seqs[i]) \in Nat /\ seqs[i] = [j \in 1..Len(seqs[i]) |-> seqs[i][j]]
      BY ListedLen
    <3>2. \A j \in 1..Len(seqs[i]) : seqs[i][j] \in S
      OBVIOUS
    <3> HIDE DEF S
    <3>3. seqs[i] \in [1..Len(seqs[i]) -> S]
      BY ONLY <3>1, <3>2
    <3> QED BY ONLY <3>1, <3>3
  <2> HIDE DEF S
  <2>2. next \in [Nat -> [Seq(S) -> Seq(S)]]
    <3>1. ASSUME NEW n \in Nat, NEW x \in Seq(S)
          PROVE  (IF n + 1 <= m THEN x \o seqs[n + 1] ELSE x) \in Seq(S)
      <4>1. CASE n + 1 <= m
        <5>1. seqs[n + 1] \in Seq(S)
          BY <2>1, <4>1
        <5> QED BY <4>1, <5>1
      <4>2. CASE ~(n + 1 <= m)
        BY <4>2
      <4> QED BY <4>1, <4>2
    <3> QED BY ONLY <3>1
  <2>3. PICK g : Recurs(g, Seq(S), <<>>, next)
    <3>1. <<>> \in Seq(S)
      OBVIOUS
    <3> HIDE DEF next
    <3> QED BY <2>2, <3>1, RecursionExists
  <2>4. g \in [Nat -> Seq(S)] /\ g[0] = <<>>
    BY ONLY <2>3 DEF Recurs
  <2>5. \A n \in Nat : n + 1 <= m => g[n + 1] = g[n] \o seqs[n + 1]
    <3>1. \A n \in Nat : g[n] \in Seq(S) /\ g[n + 1] = next[n][g[n]]
      <4> HIDE DEF next
      <4> QED BY ONLY <2>3 DEF Recurs
    <3> QED BY ONLY <3>1
  <2> HIDE DEF next
  <2> DEFINE Flattens(f) == f = [i \in 1..m |-> IF i = 1 THEN seqs[i] ELSE f[i - 1] \o seqs[i]]
             h == [i \in 1..m |-> g[i]]
             flatten == CHOOSE f : Flattens(f)
  <2>6. g[1] = seqs[1]
    <3>1. 1 \in 1..m /\ 0 \in Nat /\ 0 + 1 = 1 /\ 0 + 1 <= m
      BY <1>3
    <3>2. <<>> \o seqs[1] = seqs[1]
      BY <2>1, <3>1
    <3> QED BY ONLY <2>4, <2>5, <3>1, <3>2
  <2>7. Flattens(h)
    <3>1. ASSUME NEW i \in 1..m
          PROVE  h[i] = IF i = 1 THEN seqs[i] ELSE h[i - 1] \o seqs[i]
      <4>1. i # 1 => i - 1 \in 1..m /\ i - 1 \in Nat /\ (i - 1) + 1 = i /\ (i - 1) + 1 <= m
        OBVIOUS
      <4>2. i # 1 => g[i] = g[i - 1] \o seqs[i]
        BY ONLY <2>5, <4>1
      <4> QED BY ONLY <2>6, <4>1, <4>2, i \in 1..m
    <3> QED BY ONLY <3>1
  <2>8. Flattens(flatten)
    <3> HIDE DEF h, Flattens
    <3> QED BY ONLY <2>7
  <2>9. FlattenSeq(seqs) = flatten[m]
    <3> HIDE DEF h
    <3> QED BY <1>1, <1>3 DEF FlattenSeq
  <2> HIDE DEF flatten, h
  <2> DEFINE Same == {n \in Nat : n + 1 <= m => flatten[n + 1] = g[n + 1]}
  <2>10. Nat \subseteq Same
    <3>1. 0 \in Same
      <4>1. 1 \in 1..m /\ 0 + 1 = 1
        BY <1>3
      <4>2. flatten[1] = seqs[1]
        BY ONLY <2>8, <4>1
      <4> QED BY ONLY <2>6, <4>1, <4>2
    <3>2. ASSUME NEW n \in Nat, n \in Same PROVE n + 1 \in Same
      <4> DEFINE k == (n + 1) + 1
      <4>1. SUFFICES ASSUME k <= m PROVE flatten[k] = g[k]
        OBVIOUS
      <4>2. k \in 1..m /\ k # 1 /\ k - 1 = n + 1 /\ n + 1 \in Nat /\ n + 1 <= m
        BY ONLY <4>1, n \in Nat, m \in Nat
      <4>3. flatten[n + 1] = g[n + 1]
        BY ONLY <3>2, <4>2
      <4>4. flatten[k] = flatten[k - 1] \o seqs[k]
        <5> HIDE DEF k
        <5> QED BY ONLY <2>8, <4>2
      <4>5. g[k] = g[n + 1] \o seqs[k]
        BY ONLY <2>5, <4>1, <4>2
      <4> QED BY ONLY <4>2, <4>3, <4>4, <4>5
    <3> HIDE DEF Same
    <3> QED BY ONLY <3>1, <3>2, SetInduction
  <2>11. FlattenSeq(seqs) = g[m]
    <3>1. m - 1 \in Nat /\ (m - 1) + 1 = m
      BY <1>3
    <3>2. m - 1 \in Same
      <4> HIDE DEF Same
      <4> QED BY ONLY <2>10, <3>1
    <3> QED BY ONLY <2>9, <3>1, <3>2, m \in Nat
  <2>12. Placed(g[m], seqs, m)
    <3>1. Appends(g, seqs, m)
      BY ONLY <2>4, <2>5 DEF Appends
    <3>2. g \in [Nat -> Seq(S)]
      BY <2>4
    <3> QED BY ONLY <2>1, <3>1, <3>2, m \in Nat, AppendedPlaced
  <2>13. Listed(g[m])
    BY ONLY <2>4, m \in Nat DEF Listed
  <2> QED BY ONLY <2>11, <2>12, <2>13
<1> QED BY ONLY <1>2, <1>3, m \in Nat

\* m sequences of length l, and a sequence that has them one behind the other.
Blocked(seqs, m, l) ==
    /\ seqs = [i \in 1..m |-> seqs[i]]
    /\ \A i \in 1..m : Listed(seqs[i]) /\ Len(seqs[i]) = l

InBlocks(flat, seqs, m, l) ==
    /\ Listed(flat) /\ Len(flat) = m * l
    /\ \A i \in 1..m : \A j \in 1..l : flat[(i - 1) * l + j] = seqs[i][j]

\* So it does with sequences of one length, each of which begins at a multiple of it.
LEMMA EqualFlattened ==
    ASSUME NEW m \in Nat, NEW l \in Nat, NEW seqs, Blocked(seqs, m, l)
    PROVE  InBlocks(FlattenSeq(seqs), seqs, m, l)
<1> DEFINE flat == FlattenSeq(seqs)
<1>1. Listed(flat) /\ Placed(flat, seqs, m)
  BY Flattened DEF Blocked
<1> HIDE DEF flat
<1>2. PICK end : /\ Ends(end, seqs, m) /\ end[m] = Len(flat)
                 /\ \A i \in 1..m : \A j \in 1..Len(seqs[i]) : flat[end[i - 1] + j] = seqs[i][j]
  BY <1>1 DEF Placed
<1> DEFINE Even == {n \in Nat : n <= m => end[n] = n * l}
<1>3. Nat \subseteq Even
  <2>1. 0 \in Even
    BY <1>2 DEF Ends
  <2>2. ASSUME NEW n \in Nat, n \in Even PROVE n + 1 \in Even
    <3>1. ASSUME n + 1 <= m PROVE end[n + 1] = (n + 1) * l
      <4>1. n + 1 \in 1..m /\ (n + 1) - 1 = n /\ n <= m
        BY <3>1
      <4>2. end[n + 1] = end[n] + l
        BY <1>2, <4>1 DEF Ends, Blocked
      <4>3. end[n] = n * l
        BY <2>2, <4>1
      <4>4. (n + 1) * l = n * l + l
        OBVIOUS
      <4> QED BY <4>2, <4>3, <4>4
    <3> QED BY <3>1
  <2> HIDE DEF Even
  <2> QED BY <2>1, <2>2, SetInduction
<1>4. ASSUME NEW n \in 0..m PROVE end[n] = n * l
  <2>1. n \in Even
    <3> HIDE DEF Even
    <3> QED BY <1>3
  <2> QED BY <2>1
<1>5. Len(flat) = m * l
  <2>1. m \in 0..m
    OBVIOUS
  <2> QED BY <1>2, <1>4, <2>1
<1>6. ASSUME NEW i \in 1..m, NEW j \in 1..l PROVE flat[(i - 1) * l + j] = seqs[i][j]
  <2>1. i - 1 \in 0..m /\ j \in 1..Len(seqs[i])
    BY DEF Blocked
  <2>2. end[i - 1] = (i - 1) * l
    BY <1>4, <2>1
  <2> QED BY <1>2, <2>1, <2>2
<1> QED BY <1>1, <1>5, <1>6 DEF flat, InBlocks

(***************************************************************************)
(* What a file says.                                                       *)
(***************************************************************************)
\* The digits of x follow the place pos, as far as s goes.
Holds(s, pos, x, width) ==
    \A i \in 1..width : pos + i <= Len(s) => s[pos + i] = Digits(x, width)[i]

\* The digits of a number say the number.
LEMMA DigitsListed ==
    ASSUME NEW x, NEW w \in Nat
    PROVE  /\ Listed(Digits(x, w)) /\ Len(Digits(x, w)) = w
           /\ Holds(Digits(x, w), 0, x, w)
<1>1. Digits(x, w) = [i \in 1..w |-> Digits(x, w)[i]]
  BY DEF Digits
<1>2. Listed(Digits(x, w)) /\ Len(Digits(x, w)) = w
  <2> DEFINE d == Digits(x, w)
  <2> HIDE DEF d
  <2> QED BY <1>1, ListedFunction DEF d
<1>3. \A i \in 1..w : 0 + i = i
  OBVIOUS
<1> QED BY <1>2, <1>3 DEF Holds

\* A part of a sequence says the same in it.
LEMMA HoldsMoved ==
    ASSUME NEW e, NEW s, NEW p \in Nat, NEW q \in Nat, NEW x, NEW w \in Nat,
           Len(e) \in Nat, q + w <= Len(e), Holds(e, q, x, w),
           \A j \in 1..Len(e) : s[p + j] = e[j]
    PROVE  Holds(s, p + q, x, w)
<1>1. SUFFICES ASSUME NEW i \in 1..w PROVE s[(p + q) + i] = Digits(x, w)[i]
  BY DEF Holds
<1>2. q + i \in 1..Len(e) /\ q + i <= Len(e) /\ p + (q + i) = (p + q) + i
  OBVIOUS
<1>3. e[q + i] = Digits(x, w)[i]
  BY <1>2 DEF Holds
<1>4. s[p + (q + i)] = e[q + i]
  BY <1>2
<1> QED BY <1>2, <1>3, <1>4

\* What either of two sequences says, both say.
LEMMA HoldsConcat ==
    ASSUME NEW s, NEW t, Listed(s), Listed(t), NEW x, NEW w \in Nat, NEW q \in Nat
    PROVE  /\ Holds(s, q, x, w) /\ q + w <= Len(s) => Holds(s \o t, q, x, w)
           /\ Holds(t, q, x, w) /\ q + w <= Len(t) => Holds(s \o t, Len(s) + q, x, w)
<1> DEFINE u == s \o t
<1>1. /\ Len(s) \in Nat /\ Len(t) \in Nat
      /\ \A j \in 1..Len(s) : u[j] = s[j]
      /\ \A j \in 1..Len(t) : u[Len(s) + j] = t[j]
  BY ListedConcat, ListedLen
<1> HIDE DEF u
<1>2. ASSUME Holds(s, q, x, w), q + w <= Len(s) PROVE Holds(u, q, x, w)
  <2>1. \A j \in 1..Len(s) : u[0 + j] = s[j]
    BY <1>1
  <2>2. Holds(u, 0 + q, x, w)
    BY <1>1, <1>2, <2>1, HoldsMoved, 0 \in Nat
  <2> QED BY <2>2
<1>3. ASSUME Holds(t, q, x, w), q + w <= Len(t) PROVE Holds(u, Len(s) + q, x, w)
  BY <1>1, <1>3, HoldsMoved
<1> QED BY <1>2, <1>3 DEF u

\* A part of a file says the same, as far as it goes.
LEMMA HoldsCut ==
    ASSUME NEW s, Listed(s), NEW n \in 0..Len(s), NEW pos \in Nat, NEW x, NEW w \in Nat,
           Holds(s, pos, x, w)
    PROVE  Holds(SubSeq(s, 1, n), pos, x, w)
<1>1. PICK S : s \in Seq(S)
  BY DEF Listed
<1>2. Len(SubSeq(s, 1, n)) = n /\ \A i \in 1..n : SubSeq(s, 1, n)[i] = s[i]
  BY <1>1
<1>3. Len(s) \in Nat
  BY <1>1
<1>4. SUFFICES ASSUME NEW i \in 1..w, pos + i <= n
               PROVE  SubSeq(s, 1, n)[pos + i] = Digits(x, w)[i]
  BY <1>2 DEF Holds
<1>5. pos + i \in 1..n /\ pos + i <= Len(s)
  BY <1>3, <1>4
<1> QED BY <1>2, <1>5 DEF Holds

\* What the stream says is what is read from it.
LEMMA FieldRead ==
    ASSUME Listed(stream.digits), NEW pos \in Nat, NEW w \in Nat, NEW x \in 0..(Worth[w] - 1),
           Holds(stream.digits, pos, x, w), pos + w <= Len(stream.digits)
    PROVE  Field(pos, w) = x
<1> DEFINE s == stream.digits
           d == Digits(x, w)
<1>1. PICK S : s \in Seq(S)
  BY DEF Listed
<1>2. Len(d) = w /\ d = [i \in 1..w |-> d[i]]
  BY DigitsListed DEF Digits
<1> HIDE DEF d
<1>3. Len(s) \in Nat
  BY <1>1
<1>4. SubSeq(s, pos + 1, pos + w) = d
  <2> DEFINE r == SubSeq(s, pos + 1, pos + w)
  <2>1. r = [i \in 1..w |-> s[pos + i]]
    <3>1. (pos + w) - (pos + 1) + 1 = w
      OBVIOUS
    <3>2. \A i \in 1..w : (pos + 1) + i - 1 = pos + i
      OBVIOUS
    <3>3. r \in Seq(S) /\ Len(r) = w /\ \A i \in 1..w : r[i] = s[pos + i]
      BY <1>1, <1>3
    <3> HIDE DEF r
    <3>4. r = [i \in 1..Len(r) |-> r[i]]
      BY <3>3 DEF Listed
    <3> QED BY <3>3, <3>4
  <2>2. \A i \in 1..w : s[pos + i] = d[i]
    <3>1. \A i \in 1..w : pos + i <= Len(s)
      BY <1>3
    <3> QED BY <3>1 DEF Holds, d
  <2> HIDE DEF r
  <2> QED BY <1>2, <2>1, <2>2
<1>5. Number(d) = x
  <2>1. Worth[w] \in Nat
    BY WorthEquation
  <2>2. x \in Nat /\ x < Worth[w]
    BY <2>1
  <2> QED BY <2>2, NumberOfDigits DEF d
<1> QED BY <1>4, <1>5 DEF Field

\* The widths of trees and labels.
LEMMA Widths ==
    /\ K \in Nat /\ Half \in Nat /\ Half > 0 /\ Full \in Nat /\ Full = Half + Half
    /\ TreeDigits \in Nat /\ TreeDigits = 1 + Full + Full
    /\ HubWritten = Half /\ CountRead = Half
<1>1. K \in Nat /\ Half \in Nat /\ Half > 0
  BY FileAssumption
<1> QED BY <1>1 DEF Full, TreeDigits, HubWritten, CountRead

TreeAt(s, p, t) ==
    /\ Holds(s, p, t[1], 1)
    /\ Holds(s, p + 1, t[2], Full)
    /\ Holds(s, p + (1 + Full), t[3], Full)

LabelAt(s, p, l) == Holds(s, p, l[1], Half) /\ Holds(s, p + Half, l[2], 1)

\* The place of the labels of an entry behind its begin, and the digits it takes.
LabelsBehind == K * TreeDigits + Half
EntryLen(entry) == LabelsBehind + Len(entry.list) * (Half + 1)

EntryAt(s, pos, entry) ==
    /\ \A i \in 1..K : TreeAt(s, pos + (i - 1) * TreeDigits, entry.trees[i])
    /\ Holds(s, pos + K * TreeDigits, Len(entry.list), Half)
    /\ \A i \in 1..Len(entry.list) :
          LabelAt(s, pos + (LabelsBehind + (i - 1) * (Half + 1)), entry.list[i])

TreeWrite(t) == Digits(t[1], 1) \o Digits(t[2], Full) \o Digits(t[3], Full)
LabelWrite(l) == Digits(l[1], HubWritten) \o Digits(l[2], 1)

\* A tree as it is written.
LEMMA TreeWritten ==
    ASSUME NEW t
    PROVE  /\ Listed(TreeWrite(t)) /\ Len(TreeWrite(t)) = TreeDigits
           /\ TreeAt(TreeWrite(t), 0, t)
<1> DEFINE a == Digits(t[1], 1)
           b == Digits(t[2], Full)
           c == Digits(t[3], Full)
<1>1. /\ Listed(a) /\ Len(a) = 1 /\ Holds(a, 0, t[1], 1)
      /\ Listed(b) /\ Len(b) = Full /\ Holds(b, 0, t[2], Full)
      /\ Listed(c) /\ Len(c) = Full /\ Holds(c, 0, t[3], Full)
  BY DigitsListed, Widths
<1> HIDE DEF a, b, c
<1>2. Listed(a \o b) /\ Len(a \o b) = 1 + Full
  <2>1. Listed(a \o b) /\ Len(a \o b) = Len(a) + Len(b)
    BY ONLY <1>1, ListedConcat
  <2> QED BY ONLY <1>1, <2>1
<1>3. Listed(a \o b \o c) /\ Len(a \o b \o c) = 1 + Full + Full
  BY <1>1, <1>2, ListedConcat
<1>4. Holds(a \o b, 0, t[1], 1) /\ Holds(a \o b, 1, t[2], Full)
  <2>1. 0 + 1 <= Len(a) /\ 0 + Full <= Len(b) /\ Len(a) + 0 = 1
    BY <1>1, Widths
  <2>2. Holds(a \o b, 0, t[1], 1)
    BY <1>1, <2>1, Widths, HoldsConcat, 0 \in Nat, 1 \in Nat
  <2>3. Holds(a \o b, Len(a) + 0, t[2], Full)
    BY <1>1, <2>1, Widths, HoldsConcat, 0 \in Nat
  <2> QED BY <2>1, <2>2, <2>3
<1>5. /\ Holds(a \o b \o c, 0, t[1], 1) /\ Holds(a \o b \o c, 1, t[2], Full)
      /\ Holds(a \o b \o c, 1 + Full, t[3], Full)
  <2> DEFINE ab == a \o b
  <2>0. Listed(ab) /\ Len(ab) = 1 + Full /\ Holds(ab, 0, t[1], 1) /\ Holds(ab, 1, t[2], Full)
    BY <1>2, <1>4
  <2> HIDE DEF ab
  <2>1. 0 + 1 <= Len(ab) /\ 1 + Full <= Len(ab) /\ 0 + Full <= Len(c) /\ Len(ab) + 0 = 1 + Full
    BY <1>1, <2>0, Widths
  <2>2. Holds(ab \o c, 0, t[1], 1)
    BY <1>1, <2>0, <2>1, HoldsConcat, 0 \in Nat, 1 \in Nat
  <2>3. Holds(ab \o c, 1, t[2], Full)
    BY <1>1, <2>0, <2>1, Widths, HoldsConcat, 1 \in Nat
  <2>4. Holds(ab \o c, Len(ab) + 0, t[3], Full)
    BY <1>1, <2>0, <2>1, Widths, HoldsConcat, 0 \in Nat
  <2> QED BY <2>1, <2>2, <2>3, <2>4 DEF ab
<1>6. 0 + 1 = 1 /\ 0 + (1 + Full) = 1 + Full
  BY Widths
<1> QED BY <1>3, <1>5, <1>6, Widths DEF TreeWrite, TreeAt, a, b, c

\* A label as it is written.
LEMMA LabelWritten ==
    ASSUME NEW l
    PROVE  /\ Listed(LabelWrite(l)) /\ Len(LabelWrite(l)) = Half + 1
           /\ LabelAt(LabelWrite(l), 0, l)
<1> DEFINE a == Digits(l[1], Half)
           b == Digits(l[2], 1)
<1>1. /\ Listed(a) /\ Len(a) = Half /\ Holds(a, 0, l[1], Half)
      /\ Listed(b) /\ Len(b) = 1 /\ Holds(b, 0, l[2], 1)
  BY DigitsListed, Widths
<1> HIDE DEF a, b
<1>2. Listed(a \o b) /\ Len(a \o b) = Half + 1
  <2>1. Listed(a \o b) /\ Len(a \o b) = Len(a) + Len(b)
    BY ONLY <1>1, ListedConcat
  <2> QED BY ONLY <1>1, <2>1
<1>3. 0 + Half <= Len(a) /\ 0 + 1 <= Len(b) /\ Len(a) + 0 = Half /\ 0 + Half = Half
  BY <1>1, Widths
<1>4. Holds(a \o b, 0, l[1], Half)
  BY <1>1, <1>3, Widths, HoldsConcat, 0 \in Nat
<1>5. Holds(a \o b, Len(a) + 0, l[2], 1)
  BY <1>1, <1>3, HoldsConcat, 0 \in Nat, 1 \in Nat
<1> QED BY <1>2, <1>3, <1>4, <1>5, Widths DEF LabelWrite, LabelAt, a, b

\* A tree in a part of a file.
LEMMA TreeMoved ==
    ASSUME NEW e, NEW s, NEW p \in Nat, NEW q \in Nat, NEW t,
           Len(e) \in Nat, q + TreeDigits <= Len(e), TreeAt(e, q, t),
           \A j \in 1..Len(e) : s[p + j] = e[j]
    PROVE  TreeAt(s, p + q, t)
<1>1. /\ q + 1 \in Nat /\ q + (1 + Full) \in Nat
      /\ q + 1 <= Len(e) /\ (q + 1) + Full <= Len(e) /\ (q + (1 + Full)) + Full <= Len(e)
      /\ p + (q + 1) = (p + q) + 1 /\ p + (q + (1 + Full)) = (p + q) + (1 + Full)
  BY Widths
<1>2. Holds(s, p + q, t[1], 1)
  BY <1>1, HoldsMoved, 1 \in Nat DEF TreeAt
<1>3. Holds(s, p + (q + 1), t[2], Full)
  BY <1>1, HoldsMoved, Widths DEF TreeAt
<1>4. Holds(s, p + (q + (1 + Full)), t[3], Full)
  BY <1>1, HoldsMoved, Widths DEF TreeAt
<1> QED BY <1>1, <1>2, <1>3, <1>4 DEF TreeAt

\* A label in a part of a file.
LEMMA LabelMoved ==
    ASSUME NEW e, NEW s, NEW p \in Nat, NEW q \in Nat, NEW l,
           Len(e) \in Nat, q + (Half + 1) <= Len(e), LabelAt(e, q, l),
           \A j \in 1..Len(e) : s[p + j] = e[j]
    PROVE  LabelAt(s, p + q, l)
<1>1. /\ q + Half \in Nat /\ q + Half <= Len(e) /\ (q + Half) + 1 <= Len(e)
      /\ p + (q + Half) = (p + q) + Half
  BY Widths
<1>2. Holds(s, p + q, l[1], Half)
  BY <1>1, HoldsMoved, Widths DEF LabelAt
<1>3. Holds(s, p + (q + Half), l[2], 1)
  BY <1>1, HoldsMoved, 1 \in Nat DEF LabelAt
<1> QED BY <1>1, <1>2, <1>3 DEF LabelAt

\* A block of a row of equal blocks lies in the row.
LEMMA BlockWithin ==
    ASSUME NEW m \in Nat, NEW l \in Nat, NEW i \in 1..m
    PROVE  (i - 1) * l \in Nat /\ (i - 1) * l + l <= m * l
<1>1. (i - 1) * l + l = i * l
  OBVIOUS
<1>2. i * l <= m * l
  OBVIOUS
<1>3. i - 1 \in Nat
  OBVIOUS
<1>4. \A a, b \in Nat : a * b \in Nat
  BY Products
<1> QED BY <1>1, <1>2, <1>3, <1>4

\* An entry in a file.
LEMMA EntryMoved ==
    ASSUME NEW e, NEW s, NEW p \in Nat, NEW entry, Len(entry.list) \in Nat,
           Len(e) = EntryLen(entry), EntryAt(e, 0, entry),
           \A j \in 1..Len(e) : s[p + j] = e[j]
    PROVE  EntryAt(s, p, entry)
<1> DEFINE n == Len(entry.list)
           t == K * TreeDigits
           l == n * (Half + 1)
<1>1. t \in Nat /\ l \in Nat /\ Len(e) = t + Half + l
  <2>1. Half + 1 \in Nat
    BY Widths
  <2>2. \A a, b \in Nat : a * b \in Nat
    BY Products
  <2>3. t \in Nat /\ l \in Nat
    BY <2>1, <2>2, Widths
  <2> QED BY <2>3, Widths DEF EntryLen, LabelsBehind
<1>2. Len(e) \in Nat
  <2> HIDE DEF t, l
  <2> QED BY <1>1, Widths
<1>3. ASSUME NEW i \in 1..K PROVE TreeAt(s, p + (i - 1) * TreeDigits, entry.trees[i])
  <2> DEFINE q == (i - 1) * TreeDigits
  <2>1. q \in Nat /\ q + TreeDigits <= t
    BY Widths, BlockWithin
  <2>2. TreeAt(e, 0 + q, entry.trees[i])
    BY DEF EntryAt
  <2> HIDE DEF q, t, l
  <2>3. 0 + q = q /\ q + TreeDigits <= Len(e)
    BY <1>1, <2>1, Widths
  <2>4. TreeAt(s, p + q, entry.trees[i])
    BY <1>2, <2>1, <2>2, <2>3, TreeMoved
  <2> QED BY <2>4 DEF q
<1>4. Holds(s, p + t, n, Half)
  <2>1. Holds(e, 0 + t, n, Half)
    BY DEF EntryAt
  <2> HIDE DEF t, l, n
  <2>2. 0 + t = t /\ t + Half <= Len(e)
    BY <1>1, Widths
  <2> QED BY <1>1, <1>2, <2>1, <2>2, HoldsMoved, Widths
<1>5. ASSUME NEW i \in 1..n
      PROVE  LabelAt(s, p + (LabelsBehind + (i - 1) * (Half + 1)), entry.list[i])
  <2> DEFINE r == (i - 1) * (Half + 1)
             q == LabelsBehind + r
  <2>1. r \in Nat /\ r + (Half + 1) <= l
    <3>1. Half + 1 \in Nat
      BY Widths
    <3> HIDE DEF n
    <3>2. n \in Nat
      BY DEF n
    <3> QED BY <3>1, <3>2, BlockWithin
  <2>2. LabelAt(e, 0 + q, entry.list[i])
    BY DEF EntryAt
  <2>3. LabelsBehind = t + Half
    BY DEF LabelsBehind
  <2> HIDE DEF r, t, l, n
  <2>4. q \in Nat /\ 0 + q = q /\ q + (Half + 1) <= Len(e)
    BY <1>1, <2>1, <2>3, Widths
  <2> HIDE DEF q
  <2>5. LabelAt(s, p + q, entry.list[i])
    BY <1>2, <2>2, <2>4, LabelMoved
  <2> QED BY <2>5 DEF q, r
<1> QED BY <1>3, <1>4, <1>5 DEF EntryAt

\* The least number of a set.
LEMMA Least ==
    ASSUME NEW S, S \subseteq Nat, S # {}
    PROVE  Min(S) \in S
<1> DEFINE R == {ss \in Nat \X Nat : ss[1] < ss[2]}
<1>1. IsWellFoundedOn(R, Nat)
  BY NatLessThanWellFounded DEF OpToRel
<1>2. PICK x \in S : \A y \in S : ~ (<<y, x>> \in R)
  <2> HIDE DEF R
  <2> QED BY <1>1, WFMin
<1>3. ASSUME NEW y \in S PROVE x <= y
  <2>1. x \in Nat /\ y \in Nat
    OBVIOUS
  <2>2. ~(y < x)
    BY <1>2, <2>1
  <2> QED BY <2>1, <2>2
<1> QED BY <1>3 DEF Min

\* A list is written up to a label of it, its last if no other is a sentinel.
LEMMA SentinelPlace ==
    ASSUME NEW list, Len(list) \in Nat, \E i \in 1..Len(list) : list[i][1] = num_v
    PROVE  /\ SentinelAt(list) \in 1..Len(list)
           /\ (\A i \in 1..Len(list) : list[i][1] = num_v <=> i = Len(list))
                => SentinelAt(list) = Len(list)
<1> DEFINE I == {i \in 1..Len(list) : list[i][1] = num_v}
<1>1. I \subseteq Nat /\ I # {}
  OBVIOUS
<1>2. SentinelAt(list) = Min(I)
  <2>1. SentinelAt(list) = IF I # {} THEN Min(I) ELSE 0
    BY DEF SentinelAt, SelectInSeq
  <2> HIDE DEF I
  <2> QED BY <1>1, <2>1
<1>3. Min(I) \in I
  <2> HIDE DEF I
  <2> QED BY <1>1, Least
<1> QED BY <1>2, <1>3

\* An entry as it is written.
LEMMA EntryWritten ==
    ASSUME NEW entry, SentinelAt(entry.list) \in Nat
    PROVE  /\ Listed(EntryDigits(entry))
           /\ SentinelAt(entry.list) = Len(entry.list)
                => /\ Len(EntryDigits(entry)) = EntryLen(entry)
                   /\ EntryAt(EntryDigits(entry), 0, entry)
<1> DEFINE s == SentinelAt(entry.list)
           trees == [i \in 1..K |-> TreeWrite(entry.trees[i])]
           labels == [i \in 1..s |-> LabelWrite(entry.list[i])]
           a == FlattenSeq(trees)
           b == Digits(s, Half)
           c == FlattenSeq(labels)
           t == K * TreeDigits
           l == s * (Half + 1)
<1>1. EntryDigits(entry) = (a \o b) \o c
  BY DEF EntryDigits, TreeWrite, LabelWrite
<1>2. /\ Listed(a) /\ Len(a) = t
      /\ \A i \in 1..K : \A j \in 1..TreeDigits :
            a[(i - 1) * TreeDigits + j] = TreeWrite(entry.trees[i])[j]
  <2>1. trees = [i \in 1..K |-> trees[i]] /\ \A i \in 1..K : trees[i] = TreeWrite(entry.trees[i])
    OBVIOUS
  <2>2. \A i \in 1..K : Listed(trees[i]) /\ Len(trees[i]) = TreeDigits
    BY TreeWritten
  <2> HIDE DEF trees
  <2>3. Blocked(trees, K, TreeDigits)
    BY ONLY <2>1, <2>2 DEF Blocked
  <2>4. InBlocks(FlattenSeq(trees), trees, K, TreeDigits)
    BY ONLY <2>3, Widths, EqualFlattened
  <2> QED BY <2>1, <2>4 DEF InBlocks
<1>3. /\ Listed(c) /\ Len(c) = l
      /\ \A i \in 1..s : \A j \in 1..(Half + 1) :
            c[(i - 1) * (Half + 1) + j] = LabelWrite(entry.list[i])[j]
  <2>1. labels = [i \in 1..s |-> labels[i]] /\ \A i \in 1..s : labels[i] = LabelWrite(entry.list[i])
    OBVIOUS
  <2>2. \A i \in 1..s : Listed(labels[i]) /\ Len(labels[i]) = Half + 1
    BY LabelWritten
  <2>3. Half + 1 \in Nat /\ s \in Nat
    BY Widths
  <2> HIDE DEF labels, s
  <2>4. Blocked(labels, s, Half + 1)
    BY ONLY <2>1, <2>2 DEF Blocked
  <2>5. InBlocks(FlattenSeq(labels), labels, s, Half + 1)
    BY ONLY <2>3, <2>4, EqualFlattened
  <2> QED BY <2>1, <2>5 DEF InBlocks
<1>4. Listed(b) /\ Len(b) = Half /\ Holds(b, 0, s, Half)
  BY DigitsListed, Widths
<1>5. t \in Nat /\ l \in Nat /\ s \in Nat /\ Half \in Nat
  <2>1. \A x, y \in Nat : x * y \in Nat
    BY Products
  <2>2. Half + 1 \in Nat
    BY Widths
  <2> QED BY <2>1, <2>2, Widths
<1> HIDE DEF trees, labels, a, b, c, t, l
<1> DEFINE ab == a \o b
           e == ab \o c
<1>6. /\ Listed(ab) /\ Len(ab) = t + Half
      /\ \A j \in 1..t : ab[j] = a[j]
      /\ \A j \in 1..Half : ab[t + j] = b[j]
  BY ONLY <1>2, <1>4, ListedConcat
<1> HIDE DEF ab
<1>7. /\ Listed(e) /\ Len(e) = (t + Half) + l
      /\ \A j \in 1..(t + Half) : e[j] = ab[j]
      /\ \A j \in 1..l : e[(t + Half) + j] = c[j]
  BY ONLY <1>3, <1>6, ListedConcat
<1> HIDE DEF e
<1>8. EntryDigits(entry) = e
  BY <1>1 DEF e, ab
<1>9. ASSUME NEW i \in 1..K PROVE TreeAt(e, 0 + (i - 1) * TreeDigits, entry.trees[i])
  <2> DEFINE q == (i - 1) * TreeDigits
             w == TreeWrite(entry.trees[i])
  <2>1. q \in Nat /\ q + TreeDigits <= t
    BY Widths, BlockWithin DEF t
  <2>2. Listed(w) /\ Len(w) = TreeDigits /\ TreeAt(w, 0, entry.trees[i])
    BY TreeWritten
  <2>3. \A j \in 1..TreeDigits : a[q + j] = w[j]
    BY <1>2
  <2> HIDE DEF q, w
  <2>4. ASSUME NEW j \in 1..TreeDigits PROVE e[q + j] = w[j]
    <3>1. q + j \in 1..t /\ q + j \in 1..(t + Half)
      BY <1>5, <2>1, Widths
    <3> QED BY <1>6, <1>7, <2>3, <3>1
  <2>5. 0 + TreeDigits <= Len(w) /\ Len(w) \in Nat /\ q + 0 = q /\ 0 + q = q
    BY ONLY <2>1, <2>2, Widths
  <2>6. \A j \in 1..Len(w) : e[q + j] = w[j]
    BY <2>2, <2>4
  <2>7. TreeAt(e, q + 0, entry.trees[i])
    BY ONLY <2>1, <2>2, <2>5, <2>6, 0 \in Nat, TreeMoved
  <2> QED BY <2>5, <2>7 DEF q
<1>10. Holds(e, 0 + t, s, Half)
  <2>1. ASSUME NEW j \in 1..Half PROVE e[t + j] = b[j]
    <3>1. t + j \in 1..(t + Half)
      BY <1>5
    <3> QED BY <1>6, <1>7, <3>1
  <2>2. \A j \in 1..Len(b) : e[t + j] = b[j]
    BY <1>4, <2>1
  <2>3. 0 + Half <= Len(b) /\ Len(b) \in Nat /\ t + 0 = 0 + t
    BY <1>4, <1>5
  <2>4. Holds(e, t + 0, s, Half)
    BY ONLY <1>4, <1>5, <2>2, <2>3, 0 \in Nat, HoldsMoved
  <2> QED BY <2>3, <2>4
<1>11. ASSUME NEW i \in 1..s
       PROVE  LabelAt(e, 0 + (LabelsBehind + (i - 1) * (Half + 1)), entry.list[i])
  <2> DEFINE r == (i - 1) * (Half + 1)
             q == LabelsBehind + r
             w == LabelWrite(entry.list[i])
  <2>1. r \in Nat /\ r + (Half + 1) <= l
    <3>1. Half + 1 \in Nat
      BY Widths
    <3> HIDE DEF s
    <3> QED BY <1>5, <3>1, BlockWithin DEF l
  <2>2. Listed(w) /\ Len(w) = Half + 1 /\ LabelAt(w, 0, entry.list[i])
    BY LabelWritten
  <2>3. \A j \in 1..(Half + 1) : c[r + j] = w[j]
    BY <1>3
  <2>4. LabelsBehind = t + Half
    BY DEF LabelsBehind, t
  <2> HIDE DEF r, w, s
  <2>5. ASSUME NEW j \in 1..(Half + 1) PROVE e[q + j] = w[j]
    <3>1. r + j \in 1..l /\ q + j = (t + Half) + (r + j)
      BY <1>5, <2>1, <2>4
    <3> QED BY <1>7, <2>3, <3>1
  <2>6. q \in Nat /\ 0 + (Half + 1) <= Len(w) /\ Len(w) \in Nat /\ q + 0 = q /\ 0 + q = q
    BY <1>5, <2>1, <2>2, <2>4
  <2> HIDE DEF q
  <2>7. \A j \in 1..Len(w) : e[q + j] = w[j]
    BY <2>2, <2>5
  <2>8. LabelAt(e, q + 0, entry.list[i])
    BY ONLY <2>2, <2>6, <2>7, 0 \in Nat, LabelMoved
  <2> QED BY <2>6, <2>8 DEF q, r
<1>12. ASSUME s = Len(entry.list)
       PROVE  Len(EntryDigits(entry)) = EntryLen(entry) /\ EntryAt(EntryDigits(entry), 0, entry)
  <2>1. EntryLen(entry) = (t + Half) + l
    BY <1>12 DEF EntryLen, LabelsBehind, t, l
  <2>2. EntryAt(e, 0, entry)
    <3> HIDE DEF s
    <3>1. Holds(e, 0 + K * TreeDigits, s, Half)
      BY <1>10 DEF t
    <3> QED BY <1>9, <1>11, <1>12, <3>1 DEF EntryAt
  <2> QED BY <1>7, <1>8, <2>1, <2>2
<1> QED BY <1>7, <1>8, <1>12

\* A cut file says of an entry what is left.
LEMMA EntryCut ==
    ASSUME NEW s, Listed(s), NEW n \in 0..Len(s), NEW pos \in Nat, NEW entry,
           Len(entry.list) \in Nat, EntryAt(s, pos, entry)
    PROVE  EntryAt(SubSeq(s, 1, n), pos, entry)
<1> DEFINE r == SubSeq(s, 1, n)
           m == Len(entry.list)
           t == K * TreeDigits
<1>1. ASSUME NEW q \in Nat, NEW x, NEW w \in Nat, Holds(s, q, x, w) PROVE Holds(r, q, x, w)
  BY <1>1, HoldsCut
<1>2. \A a, b \in Nat : a * b \in Nat
  BY Products
<1>3. t \in Nat /\ Half + 1 \in Nat
  BY <1>2, Widths
<1>4. ASSUME NEW i \in 1..K PROVE TreeAt(r, pos + (i - 1) * TreeDigits, entry.trees[i])
  <2> DEFINE q == pos + (i - 1) * TreeDigits
  <2>1. i - 1 \in Nat
    OBVIOUS
  <2>2. (i - 1) * TreeDigits \in Nat
    BY <1>2, <2>1, Widths
  <2>3. TreeAt(s, q, entry.trees[i])
    BY DEF EntryAt
  <2>4. q \in Nat
    BY <2>2
  <2> HIDE DEF q, r
  <2>5. q + 1 \in Nat /\ q + (1 + Full) \in Nat
    BY <2>4, Widths
  <2>6. Holds(r, q, entry.trees[i][1], 1)
    BY ONLY <1>1, <2>3, <2>4, 1 \in Nat DEF TreeAt
  <2>7. Holds(r, q + 1, entry.trees[i][2], Full)
    BY ONLY <1>1, <2>3, <2>5, Widths DEF TreeAt
  <2>8. Holds(r, q + (1 + Full), entry.trees[i][3], Full)
    BY ONLY <1>1, <2>3, <2>5, Widths DEF TreeAt
  <2>9. TreeAt(r, q, entry.trees[i])
    BY ONLY <2>6, <2>7, <2>8 DEF TreeAt
  <2> QED BY <2>9 DEF q
<1>5. Holds(r, pos + t, m, Half)
  <2>1. Holds(s, pos + t, m, Half)
    BY DEF EntryAt
  <2> HIDE DEF t, m, r
  <2>2. pos + t \in Nat
    BY <1>3
  <2> QED BY ONLY <1>1, <2>1, <2>2, Widths
<1>6. ASSUME NEW i \in 1..m
      PROVE  LabelAt(r, pos + (LabelsBehind + (i - 1) * (Half + 1)), entry.list[i])
  <2> DEFINE b == (i - 1) * (Half + 1)
             q == pos + (LabelsBehind + b)
  <2>1. i - 1 \in Nat
    <3> HIDE DEF m
    <3>1. m \in Nat
      BY DEF m
    <3> QED BY <3>1
  <2>2. b \in Nat
    BY <1>2, <1>3, <2>1
  <2>3. LabelsBehind = t + Half
    BY DEF LabelsBehind
  <2>4. LabelAt(s, q, entry.list[i])
    BY DEF EntryAt
  <2> HIDE DEF b, t, r, m
  <2>5. q \in Nat
    BY <1>3, <2>2, <2>3, Widths
  <2> HIDE DEF q
  <2>6. q + Half \in Nat
    BY <2>5, Widths
  <2>7. Holds(r, q, entry.list[i][1], Half)
    BY ONLY <1>1, <2>4, <2>5, Widths DEF LabelAt
  <2>8. Holds(r, q + Half, entry.list[i][2], 1)
    BY ONLY <1>1, <2>4, <2>6, 1 \in Nat DEF LabelAt
  <2>9. LabelAt(r, q, entry.list[i])
    BY ONLY <2>7, <2>8 DEF LabelAt
  <2> QED BY <2>9 DEF q, b
<1> QED BY <1>4, <1>5, <1>6 DEF EntryAt

\* Where the entries of an index begin in its file, and where the last one ends.
Starts(start, entries) ==
    /\ start \in [1..(Len(entries) + 1) -> Nat]
    /\ start[1] = Full
    /\ \A v \in 1..Len(entries) : start[v + 1] = start[v] + EntryLen(entries[v])

\* As far as it goes, the file says what the index says.
Says(s, entries, start) ==
    /\ Listed(s) /\ Len(s) <= start[Len(entries) + 1]
    /\ Holds(s, 0, Len(entries), Half)
    /\ Holds(s, Half, K, Half)
    /\ \A v \in 1..Len(entries) : EntryAt(s, start[v], entries[v])

\* The lists of a complete index are sequences.
LEMMA CompleteList ==
    ASSUME NEW entries, Complete(entries), NEW v \in 1..Len(entries)
    PROVE  Len(entries[v].list) \in Nat
<1> DEFINE S == (0..(Worth[Half] - 1)) \X (0..(Base - 1))
<1>1. entries[v].list \in Seq(S)
  BY DEF Complete
<1> HIDE DEF S
<1> QED BY <1>1

\* The lists of a complete index end in their only sentinel.
LEMMA CompleteEntry ==
    ASSUME NEW entries, Complete(entries), Len(entries) = num_v, NEW v \in 1..num_v
    PROVE  /\ Len(entries[v].list) \in Nat /\ Len(entries[v].list) > 0
           /\ Len(entries[v].list) < Worth[Half] \div 2
           /\ SentinelAt(entries[v].list) = Len(entries[v].list)
<1> DEFINE list == entries[v].list
           S == (0..(Worth[Half] - 1)) \X (0..(Base - 1))
<1>1. list \in Seq(S) /\ Len(list) \in Int32 \ {0}
  BY DEF Complete
<1>2. \A i \in 1..Len(list) : list[i][1] = num_v <=> i = Len(list)
  BY DEF Complete
<1> HIDE DEF S
<1>3. Len(list) \in Nat
  BY <1>1
<1> HIDE DEF list
<1>4. Len(list) > 0 /\ Len(list) \in 1..Len(list)
  BY <1>1, <1>3
<1>5. Len(list) < Worth[Half] \div 2
  <2>1. Worth[Half] \div 2 \in Int
    <3>1. Worth[Half] \in Int
      BY WorthEquation, Widths
    <3> QED BY <3>1
  <2> QED BY <1>1, <1>3, <2>1 DEF Int32
<1>6. SentinelAt(list) = Len(list)
  BY <1>2, <1>3, <1>4, SentinelPlace
<1> QED BY <1>3, <1>4, <1>5, <1>6 DEF list

\* A file of a narrow header, and every part of it from its begin.
LEMMA FileWritten ==
    ASSUME build = "narrow", num_v \in Nat, NEW entries, Complete(entries), Len(entries) = num_v
    PROVE  \E start : /\ Starts(start, entries)
                     /\ Len(FileOf(entries)) = start[num_v + 1]
                     /\ Says(FileOf(entries), entries, start)
<1> DEFINE a == Digits(num_v, Half)
           b == Digits(K, Half)
           seqs == [v \in 1..num_v |-> EntryDigits(entries[v])]
           c == FlattenSeq(seqs)
<1>1. FileOf(entries) = (a \o b) \o c
  BY DEF FileOf, CountWritten
<1>2. /\ Listed(a) /\ Len(a) = Half /\ Holds(a, 0, num_v, Half)
      /\ Listed(b) /\ Len(b) = Half /\ Holds(b, 0, K, Half)
  BY DigitsListed, Widths
<1>3. ASSUME NEW v \in 1..num_v
      PROVE  /\ Len(entries[v].list) \in Nat
             /\ Listed(EntryDigits(entries[v]))
             /\ Len(EntryDigits(entries[v])) = EntryLen(entries[v])
             /\ EntryAt(EntryDigits(entries[v]), 0, entries[v])
  BY CompleteEntry, EntryWritten
<1>4. \A v \in 1..num_v : seqs[v] = EntryDigits(entries[v])
  OBVIOUS
<1>5. Listed(c) /\ Placed(c, seqs, num_v)
  <2>1. seqs = [v \in 1..num_v |-> seqs[v]] /\ \A v \in 1..num_v : Listed(seqs[v])
    BY <1>3
  <2> HIDE DEF seqs
  <2> QED BY <2>1, Flattened
<1> HIDE DEF seqs, a, b, c
<1>6. PICK end : /\ Ends(end, seqs, num_v) /\ end[num_v] = Len(c)
                 /\ \A v \in 1..num_v : \A j \in 1..Len(seqs[v]) : c[end[v - 1] + j] = seqs[v][j]
  BY <1>5 DEF Placed
<1> DEFINE ab == a \o b
           s == ab \o c
           start == [v \in 1..(num_v + 1) |-> Full + end[v - 1]]
<1>7. Listed(ab) /\ Len(ab) = Full
  <2>1. Listed(ab) /\ Len(ab) = Len(a) + Len(b)
    BY ONLY <1>2, ListedConcat
  <2> QED BY <1>2, <2>1, Widths
<1>8. Holds(ab, 0, num_v, Half) /\ Holds(ab, Half, K, Half)
  <2>1. 0 + Half <= Len(a) /\ 0 + Half <= Len(b) /\ Len(a) + 0 = Half
    BY <1>2, Widths
  <2>2. Holds(ab, 0, num_v, Half)
    BY <1>2, <2>1, Widths, HoldsConcat, 0 \in Nat
  <2>3. Holds(ab, Len(a) + 0, K, Half)
    BY <1>2, <2>1, Widths, HoldsConcat, 0 \in Nat
  <2> QED BY <2>1, <2>2, <2>3
<1> HIDE DEF ab
<1>9. /\ Listed(s) /\ Len(s) = Full + Len(c)
      /\ \A j \in 1..Len(c) : s[Full + j] = c[j]
  BY ONLY <1>5, <1>7, ListedConcat
<1>10. Holds(s, 0, num_v, Half) /\ Holds(s, Half, K, Half)
  <2>1. 0 + Half <= Len(ab) /\ Half + Half <= Len(ab)
    BY <1>7, Widths
  <2> QED BY <1>5, <1>7, <1>8, <2>1, Widths, HoldsConcat, 0 \in Nat
<1> HIDE DEF s
<1>11. Starts(start, entries)
  <2>1. ASSUME NEW v \in 1..(num_v + 1) PROVE start[v] = Full + end[v - 1] /\ start[v] \in Nat
    <3>1. v - 1 \in 0..num_v
      OBVIOUS
    <3>2. end[v - 1] \in Nat
      BY <1>6, <3>1 DEF Ends
    <3> QED BY <3>2, Widths
  <2>2. start[1] = Full
    <3>1. 1 \in 1..(num_v + 1) /\ 1 - 1 = 0 /\ end[0] = 0
      BY <1>6 DEF Ends
    <3> QED BY <2>1, <3>1, Widths
  <2>3. ASSUME NEW v \in 1..num_v PROVE start[v + 1] = start[v] + EntryLen(entries[v])
    <3>1. v + 1 \in 1..(num_v + 1) /\ v \in 1..(num_v + 1) /\ (v + 1) - 1 = v
      OBVIOUS
    <3>2. end[v] = end[v - 1] + EntryLen(entries[v])
      BY <1>3, <1>4, <1>6 DEF Ends
    <3>3. end[v - 1] \in Nat /\ end[v] \in Nat
      <4>1. v \in 0..num_v /\ v - 1 \in 0..num_v
        OBVIOUS
      <4> QED BY <1>6, <4>1 DEF Ends
    <3>4. EntryLen(entries[v]) = end[v] - end[v - 1]
      <4>1. EntryLen(entries[v]) \in Nat
        <5>1. Listed(EntryDigits(entries[v])) /\ Len(EntryDigits(entries[v])) = EntryLen(entries[v])
          BY <1>3
        <5> QED BY ONLY <5>1, ListedLen
      <4> QED BY <3>2, <3>3, <4>1
    <3>5. start[v] = Full + end[v - 1] /\ start[v + 1] = Full + end[v]
      BY <2>1, <3>1
    <3> HIDE DEF start
    <3> QED BY <3>3, <3>4, <3>5, Widths
  <2>4. start \in [1..(num_v + 1) -> Nat]
    BY <2>1
  <2> HIDE DEF start
  <2> QED BY <2>2, <2>3, <2>4 DEF Starts
<1>12. ASSUME NEW v \in 1..num_v PROVE EntryAt(s, start[v], entries[v])
  <2> DEFINE e == EntryDigits(entries[v])
  <2>1. Listed(e) /\ Len(e) = EntryLen(entries[v]) /\ EntryAt(e, 0, entries[v]) /\ seqs[v] = e
    BY <1>3, <1>4
  <2> HIDE DEF e
  <2>2. /\ v \in 1..(num_v + 1) /\ v \in 0..num_v /\ v - 1 \in 0..num_v
    OBVIOUS
  <2>3. start[v] = Full + end[v - 1] /\ start[v] \in Nat
    BY <1>6, <2>2, Widths DEF Ends
  <2> HIDE DEF start
  <2>4. Len(e) \in Nat
    BY <2>1, ListedLen
  <2>5. end[v - 1] \in Nat /\ end[v - 1] + Len(e) <= Len(c)
    <3>1. end[v] = end[v - 1] + Len(e) /\ end[v - 1] \in Nat /\ end[v] \in Nat
      BY <1>6, <2>1, <2>2 DEF Ends
    <3> DEFINE Low == {n \in Nat : v + n <= num_v => end[v] <= end[v + n]}
    <3>2. 0 \in Low
      BY <3>1
    <3>3. ASSUME NEW n \in Nat, n \in Low PROVE n + 1 \in Low
      <4>1. SUFFICES ASSUME v + (n + 1) <= num_v PROVE end[v] <= end[v + (n + 1)]
        OBVIOUS
      <4>2. /\ v + (n + 1) \in 1..num_v /\ (v + (n + 1)) - 1 = v + n /\ v + n <= num_v
            /\ v + n \in 0..num_v
        BY <4>1
      <4>3. end[v + (n + 1)] = end[v + n] + Len(seqs[v + (n + 1)])
        BY <1>6, <4>2 DEF Ends
      <4>4. Len(seqs[v + (n + 1)]) \in Nat
        BY <1>3, <1>4, <4>2, ListedLen
      <4>5. end[v + n] \in Nat
        BY <1>6, <4>2 DEF Ends
      <4> QED BY <3>1, <3>3, <4>2, <4>3, <4>4, <4>5
    <3>4. Nat \subseteq Low
      <4> HIDE DEF Low
      <4> QED BY <3>2, <3>3, SetInduction
    <3>5. num_v - v \in Nat /\ v + (num_v - v) = num_v
      OBVIOUS
    <3>6. end[v] <= end[num_v]
      BY <3>4, <3>5
    <3> QED BY <1>6, <3>1, <3>6
  <2>6. ASSUME NEW j \in 1..Len(e) PROVE s[start[v] + j] = e[j]
    <3>1. Len(c) \in Nat
      BY <1>5, ListedLen
    <3>2. end[v - 1] + j \in 1..Len(c) /\ start[v] + j = Full + (end[v - 1] + j)
      BY <2>3, <2>4, <2>5, <3>1, Widths
    <3>3. c[end[v - 1] + j] = e[j]
      BY <1>6, <2>1
    <3> QED BY <1>9, <3>2, <3>3
  <2>7. Len(entries[v].list) \in Nat
    BY <1>3
  <2> QED BY ONLY <2>1, <2>3, <2>6, <2>7, EntryMoved
<1>13. Len(s) = start[num_v + 1]
  <2>1. num_v + 1 \in 1..(num_v + 1) /\ (num_v + 1) - 1 = num_v
    OBVIOUS
  <2> QED BY <1>6, <1>9, <2>1
<1>14. Says(s, entries, start) /\ Len(s) = start[num_v + 1]
  <2>1. Len(s) <= start[num_v + 1]
    <3>1. Len(s) \in Nat
      BY <1>9, ListedLen
    <3> QED BY <1>13, <3>1
  <2> HIDE DEF start
  <2> QED BY <1>9, <1>10, <1>12, <1>13, <2>1 DEF Says
<1>15. FileOf(entries) = s
  BY <1>1 DEF s, ab
<1> HIDE DEF start
<1> QED BY <1>11, <1>14, <1>15

\* Lists that have a sentinel can be written.
LEMMA FileListed ==
    ASSUME num_v \in Nat, NEW entries,
           \A v \in 1..num_v : SentinelAt(entries[v].list) \in Nat
    PROVE  /\ Listed(FileOf(entries))
           /\ build = "wide" => Holds(FileOf(entries), 0, num_v, Full)
<1> DEFINE a == Digits(num_v, CountWritten)
           b == Digits(K, CountWritten)
           seqs == [v \in 1..num_v |-> EntryDigits(entries[v])]
           c == FlattenSeq(seqs)
<1>0. CountWritten \in Nat
  BY Widths DEF CountWritten
<1>1. FileOf(entries) = (a \o b) \o c
  BY DEF FileOf
<1>2. /\ Listed(a) /\ Len(a) = CountWritten /\ Holds(a, 0, num_v, CountWritten)
      /\ Listed(b) /\ Len(b) = CountWritten
  BY <1>0, DigitsListed
<1>3. Listed(c)
  <2>1. seqs = [v \in 1..num_v |-> seqs[v]] /\ \A v \in 1..num_v : Listed(seqs[v])
    BY EntryWritten
  <2> HIDE DEF seqs
  <2> QED BY <2>1, Flattened
<1> HIDE DEF a, b, c
<1>4. Listed(a \o b) /\ Len(a \o b) = CountWritten + CountWritten
  <2>1. Listed(a \o b) /\ Len(a \o b) = Len(a) + Len(b)
    BY ONLY <1>2, ListedConcat
  <2> QED BY ONLY <1>2, <2>1
<1>5. Listed((a \o b) \o c)
  BY <1>3, <1>4, ListedConcat
<1>6. 0 + CountWritten <= Len(a) /\ 0 + CountWritten <= Len(a \o b)
  BY <1>0, <1>2, <1>4
<1>7. Holds(a \o b, 0, num_v, CountWritten)
  BY <1>0, <1>2, <1>6, HoldsConcat, 0 \in Nat
<1>8. Holds((a \o b) \o c, 0, num_v, CountWritten)
  BY <1>0, <1>3, <1>4, <1>6, <1>7, HoldsConcat, 0 \in Nat
<1>9. build = "wide" => CountWritten = Full
  BY DEF CountWritten
<1> QED BY <1>1, <1>5, <1>8, <1>9

\* Only the trees and the lists of the entries reach the file.
LEMMA SameFile ==
    ASSUME NEW one, NEW other,
           \A v \in 1..num_v : one[v].trees = other[v].trees /\ one[v].list = other[v].list
    PROVE  FileOf(one) = FileOf(other)
<1>1. \A v \in 1..num_v : EntryDigits(one[v]) = EntryDigits(other[v])
  BY DEF EntryDigits
<1>2. [v \in 1..num_v |-> EntryDigits(one[v])] = [v \in 1..num_v |-> EntryDigits(other[v])]
  BY <1>1
<1> QED BY <1>2 DEF FileOf

(***************************************************************************)
(* What is read.                                                           *)
(***************************************************************************)
LEMMA WorthGrows ==
    ASSUME NEW n \in Nat, NEW k \in Nat
    PROVE  Worth[n] <= Worth[n + k]
<1> DEFINE S == {i \in Nat : Worth[n] <= Worth[n + i]}
<1>1. 0 \in S
  BY WorthEquation
<1>2. ASSUME NEW i \in Nat, i \in S PROVE i + 1 \in S
  <2>1. n + i \in Nat /\ (n + i) + 1 = n + (i + 1)
    OBVIOUS
  <2>2. Worth[n + (i + 1)] = Base * Worth[n + i]
    BY <2>1, WorthEquation
  <2>3. Worth[n] \in Nat /\ Worth[n + i] \in Nat /\ Worth[n + (i + 1)] \in Nat
    BY WorthEquation
  <2>4. Base \in Nat /\ Base >= 1
    BY FileAssumption
  <2>5. \A x \in Nat : Base * x >= x
    BY <2>4
  <2> QED BY <1>2, <2>2, <2>3, <2>5
<1>3. Nat \subseteq S
  <2> HIDE DEF S
  <2> QED BY <1>1, <1>2, SetInduction
<1> QED BY <1>3

\* Half of what a digit is worth is less.
LEMMA HalfWorth ==
    ASSUME NEW w \in Nat
    PROVE  /\ Worth[w] \in Nat /\ Worth[w] \div 2 \in Nat /\ Worth[w] \div 2 <= Worth[w]
           /\ Worth[w] \div 2 < Worth[w]
<1>1. Worth[w] \in Nat /\ Worth[w] > 0
  BY WorthEquation
<1> QED BY <1>1

\* A count that fits is read as it was written.
LEMMA CountReadAt ==
    ASSUME Listed(stream.digits), NEW pos \in Nat, NEW x \in Nat, x < Worth[Half] \div 2,
           Holds(stream.digits, pos, x, Half), pos + Half <= Len(stream.digits)
    PROVE  Count(pos) = {x}
<1>0. Half \in Nat
  BY Widths
<1>1. x \in 0..(Worth[Half] - 1)
  <2>1. /\ Worth[Half] \in Nat /\ Worth[Half] \div 2 \in Nat /\ Worth[Half] \div 2 <= Worth[Half]
    BY ONLY <1>0, HalfWorth
  <2>2. x <= Worth[Half] - 1
    <3> DEFINE h == Worth[Half] \div 2
               m == Worth[Half]
    <3>1. x < h /\ h \in Nat /\ m \in Nat /\ h <= m
      BY <2>1
    <3> HIDE DEF h, m
    <3>2. x <= m - 1
      BY <3>1
    <3> QED BY <3>2 DEF m
  <2> QED BY <2>2, <2>1
<1>2. Field(pos, Half) = x
  BY <1>1, FieldRead, Widths
<1>3. Signed(x, Half) = x
  BY HalfWorth, Widths DEF Signed
<1>4. x # Uninit
  BY WidthAssumption
<1> QED BY <1>2, <1>3, <1>4, Widths DEF Count

\* The lower half of a count below the size of a 32-bit integer is the count, and the
\* upper half is 0.
LEMMA WideCount ==
    ASSUME NEW s, NEW n \in Nat, n < Worth[Half], Holds(s, 0, n, Full), Len(s) \in Nat
    PROVE  Holds(s, 0, n, Half) /\ Holds(s, Half, 0, Half)
<1>1. ASSUME NEW i \in 1..Half, 0 + i <= Len(s) PROVE s[0 + i] = Digits(n, Half)[i]
  <2>1. i \in 1..Full
    BY Widths
  <2>2. s[0 + i] = Digits(n, Full)[i]
    BY <1>1, <2>1 DEF Holds
  <2>3. Digits(n, Full)[i] = Digits(n, Half)[i]
    BY <2>1 DEF Digits
  <2> QED BY <2>2, <2>3
<1>2. ASSUME NEW i \in 1..Half, Half + i <= Len(s) PROVE s[Half + i] = Digits(0, Half)[i]
  <2>1. Half + i \in 1..Full /\ 0 + (Half + i) = Half + i /\ i - 1 \in Nat
        /\ (Half + i) - 1 = Half + (i - 1)
    BY Widths
  <2>2. s[Half + i] = Digits(n, Full)[Half + i]
    <3>1. s[0 + (Half + i)] = Digits(n, Full)[Half + i]
      BY <1>2, <2>1 DEF Holds
    <3> QED BY <2>1, <3>1
  <2>3. Digits(n, Full)[Half + i] = (n \div Worth[Half + (i - 1)]) % Base
    BY <2>1 DEF Digits
  <2>4. Digits(0, Half)[i] = (0 \div Worth[i - 1]) % Base
    BY DEF Digits
  <2>5. n < Worth[Half + (i - 1)] /\ Worth[Half + (i - 1)] \in Nat /\ Worth[Half] \in Nat
    <3>1. Half \in Nat /\ Half + (i - 1) \in Nat
      BY <2>1, Widths
    <3>2. Worth[Half] <= Worth[Half + (i - 1)]
      BY ONLY <2>1, <3>1, WorthGrows
    <3>3. Worth[Half + (i - 1)] \in Nat /\ Worth[Half] \in Nat
      BY ONLY <3>1, WorthEquation
    <3> QED BY <3>2, <3>3
  <2>6. n \div Worth[Half + (i - 1)] = 0
    <3> DEFINE d == Worth[Half + (i - 1)]
    <3>1. d \in Nat /\ n < d
      BY <2>5
    <3> HIDE DEF d
    <3>2. n \div d = 0
      BY <3>1
    <3> QED BY <3>2 DEF d
  <2>7. 0 \div Worth[i - 1] = 0
    <3> DEFINE d == Worth[i - 1]
    <3>1. d \in Nat /\ d > 0
      BY <2>1, WorthEquation
    <3> HIDE DEF d
    <3>2. 0 \div d = 0
      BY <3>1
    <3> QED BY <3>2 DEF d
  <2> QED BY <2>2, <2>3, <2>4, <2>6, <2>7
<1> QED BY <1>1, <1>2 DEF Holds

\* A list some of whose digits were not there.
Lost(list) == list = <<>> \/ (Len(list) \in Nat \ {0} /\ list[Len(list)][2] = Uninit)

\* If the stream ends before the list does, a field of the last label is missing.
LEMMA ListLost ==
    ASSUME NEW p \in Nat, NEW s \in Nat, Len(stream.digits) \in Nat,
           ~GoodAt(p + s * LabelDigits)
    PROVE  Lost(ListAt(p, s))
<1> DEFINE list == ListAt(p, s)
<1>1. HubRead \in Nat /\ LabelDigits \in Nat /\ LabelDigits = HubRead + 1
  BY Widths DEF HubRead, LabelDigits
<1>2. CASE s = 0
  <2>1. list = <<>>
    BY <1>2 DEF ListAt
  <2> QED BY <2>1 DEF Lost
<1>3. CASE s > 0
  <2> DEFINE q == p + (s - 1) * LabelDigits
  <2>1. list = [i \in 1..s |-> list[i]] /\ s \in 1..s
    BY <1>3 DEF ListAt
  <2>2. Len(list) = s
    <3> HIDE DEF list
    <3> QED BY <2>1
  <2>3. list[s] = <<Field(q, HubRead), Field(q + HubRead, 1)>>
    BY <2>1 DEF ListAt
  <2>4. (q + HubRead) + 1 = p + s * LabelDigits
    <3>1. (s - 1) * LabelDigits = s * LabelDigits - LabelDigits
      BY <1>1
    <3>2. s * LabelDigits \in Nat
      <4>1. \A a, b \in Nat : a * b \in Nat
        BY Products
      <4> QED BY <1>1, <4>1
    <3> QED BY <1>1, <3>1, <3>2
  <2> HIDE DEF q
  <2>5. Field(q + HubRead, 1) = Uninit
    BY <2>4 DEF Field, GoodAt
  <2> QED BY <1>3, <2>2, <2>3, <2>5 DEF Lost
<1> QED BY <1>2, <1>3

\* An entry whose digits are there is read as it was written.
LEMMA EntryRead ==
    ASSUME build = "narrow", Listed(stream.digits), NEW pos \in Nat, NEW entry,
           entry.trees \in [1..K -> (0..(Base - 1)) \X (0..(Worth[Full] - 1)) \X (0..(Worth[Full] - 1))],
           entry.list \in Seq((0..(Worth[Half] - 1)) \X (0..(Base - 1))),
           Len(entry.list) < Worth[Half] \div 2,
           EntryAt(stream.digits, pos, entry), GoodAt(Behind(pos))
    PROVE  /\ SizeAt(pos) = {Len(entry.list)}
           /\ TreesAt(pos) = entry.trees
           /\ Behind(pos) + Len(entry.list) * LabelDigits = pos + EntryLen(entry)
           /\ GoodAt(pos + EntryLen(entry))
                => ListAt(Behind(pos), Len(entry.list)) = entry.list
<1> DEFINE n == Len(entry.list)
           t == K * TreeDigits
           d == stream.digits
<1>1. n \in Nat
  OBVIOUS
<1>2. \A a, b \in Nat : a * b \in Nat
  BY Products
<1>3. t \in Nat /\ Half + 1 \in Nat
  BY <1>2, Widths
<1>4. HubRead = Half /\ LabelDigits = Half + 1 /\ LabelsBehind = t + Half
  BY DEF HubRead, LabelDigits, LabelsBehind
<1>5. Behind(pos) = (pos + t) + Half /\ SizeAt(pos) = Count(pos + t)
  BY DEF Behind, SizeAt, CountRead
<1>6. Len(d) \in Nat /\ (pos + t) + Half <= Len(d)
  BY <1>5, ListedLen DEF GoodAt
<1>7. Worth[1] = Base
  BY WorthOne
<1>8. SizeAt(pos) = {n}
  <2>1. Holds(d, pos + t, n, Half)
    BY DEF EntryAt
  <2> HIDE DEF t, n
  <2>2. pos + t \in Nat
    BY <1>3
  <2>3. n < Worth[Half] \div 2
    BY DEF n
  <2> QED BY ONLY <1>1, <1>5, <1>6, <2>1, <2>2, <2>3, Listed(stream.digits), CountReadAt
<1>9. ASSUME NEW i \in 1..K
      PROVE  LET p == pos + (i - 1) * TreeDigits
             IN  <<Field(p, 1), Field(p + 1, Full), Field(p + 1 + Full, Full)>> = entry.trees[i]
  <2> DEFINE q == (i - 1) * TreeDigits
             p == pos + q
             x == entry.trees[i]
  <2>1. q \in Nat /\ q + TreeDigits <= t
    BY Widths, BlockWithin
  <2>2. TreeAt(d, p, x)
    BY DEF EntryAt
  <2>3. /\ x[1] \in 0..(Base - 1) /\ x[2] \in 0..(Worth[Full] - 1) /\ x[3] \in 0..(Worth[Full] - 1)
        /\ x = <<x[1], x[2], x[3]>>
    <3> DEFINE A == 0..(Base - 1)
               B == 0..(Worth[Full] - 1)
    <3>1. x \in A \X B \X B
      BY ONLY i \in 1..K, entry.trees \in [1..K -> A \X B \X B]
    <3> HIDE DEF A, B, x
    <3>2. x[1] \in A /\ x[2] \in B /\ x[3] \in B /\ x = <<x[1], x[2], x[3]>>
      BY ONLY <3>1
    <3> QED BY <3>2 DEF A, B
  <2> HIDE DEF q, t, x
  <2>4. p \in Nat /\ p + 1 \in Nat /\ p + (1 + Full) \in Nat
        /\ p + 1 + Full = p + (1 + Full)
    BY ONLY <2>1, Widths, pos \in Nat
  <2>5. p + 1 <= Len(d) /\ (p + 1) + Full <= Len(d) /\ (p + (1 + Full)) + Full <= Len(d)
    BY <1>3, <1>6, <2>1, Widths
  <2> HIDE DEF p
  <2>6. Field(p, 1) = x[1]
    <3>1. x[1] \in 0..(Worth[1] - 1)
      BY <1>7, <2>3
    <3>2. Holds(stream.digits, p, x[1], 1)
      BY <2>2 DEF TreeAt
    <3> QED BY ONLY <2>4, <2>5, <3>1, <3>2, Listed(stream.digits), 1 \in Nat, FieldRead
  <2>7. Field(p + 1, Full) = x[2]
    <3>2. Holds(stream.digits, p + 1, x[2], Full)
      BY <2>2 DEF TreeAt
    <3> QED BY ONLY <2>3, <2>4, <2>5, <3>2, Listed(stream.digits), Widths, FieldRead
  <2>8. Field(p + (1 + Full), Full) = x[3]
    <3>2. Holds(stream.digits, p + (1 + Full), x[3], Full)
      BY <2>2 DEF TreeAt
    <3> QED BY ONLY <2>3, <2>4, <2>5, <3>2, Listed(stream.digits), Widths, FieldRead
  <2>9. <<Field(p, 1), Field(p + 1, Full), Field(p + 1 + Full, Full)>> = x
    BY ONLY <2>3, <2>4, <2>6, <2>7, <2>8
  <2> QED BY <2>9 DEF p, q, x
<1>10. TreesAt(pos) = entry.trees
  BY <1>9 DEF TreesAt
<1>11. Behind(pos) + n * LabelDigits = pos + EntryLen(entry)
  <2> DEFINE l == n * (Half + 1)
  <2>1. l \in Nat
    BY <1>1, <1>2, <1>3
  <2>2. EntryLen(entry) = (t + Half) + l
    BY <1>4 DEF EntryLen
  <2> HIDE DEF l, t, n
  <2>3. Behind(pos) + l = pos + EntryLen(entry)
    BY <1>3, <1>5, <2>1, <2>2, Widths
  <2> QED BY <1>4, <2>3 DEF l
<1>12. ASSUME GoodAt(pos + EntryLen(entry)), NEW i \in 1..n
       PROVE  LET p == Behind(pos) + (i - 1) * LabelDigits
              IN  <<Field(p, HubRead), Field(p + HubRead, 1)>> = entry.list[i]
  <2> DEFINE r == (i - 1) * (Half + 1)
             p == Behind(pos) + r
             x == entry.list[i]
             l == n * (Half + 1)
  <2>1. r \in Nat /\ r + (Half + 1) <= l
    <3> HIDE DEF n
    <3> QED BY <1>1, <1>3, BlockWithin
  <2>2. LabelAt(d, pos + (LabelsBehind + r), x)
    BY DEF EntryAt
  <2>3. x[1] \in 0..(Worth[Half] - 1) /\ x[2] \in 0..(Base - 1) /\ x = <<x[1], x[2]>>
    OBVIOUS
  <2>4. Behind(pos) + l <= Len(d)
    BY <1>4, <1>11, <1>12 DEF GoodAt
  <2> HIDE DEF r, t, x, l, n
  <2>5. pos + (LabelsBehind + r) = p /\ p \in Nat /\ p + Half \in Nat
    BY ONLY <1>3, <1>4, <1>5, <2>1, Widths, pos \in Nat
  <2>6. Behind(pos) \in Nat
    BY ONLY <1>3, <1>5, Widths, pos \in Nat
  <2>7. l \in Nat
    BY <1>1, <1>2, <1>3 DEF l
  <2>8. p + Half <= Len(d) /\ (p + Half) + 1 <= Len(d)
    BY <1>6, <2>1, <2>4, <2>6, <2>7, Widths
  <2>9. LabelAt(d, p, x)
    BY <2>2, <2>5
  <2> HIDE DEF p
  <2>10. Field(p, Half) = x[1]
    <3>1. Holds(stream.digits, p, x[1], Half)
      BY <2>9 DEF LabelAt
    <3> QED BY ONLY <2>3, <2>5, <2>8, <3>1, Listed(stream.digits), Widths, FieldRead
  <2>11. Field(p + Half, 1) = x[2]
    <3>1. Holds(stream.digits, p + Half, x[2], 1)
      BY <2>9 DEF LabelAt
    <3>2. x[2] \in 0..(Worth[1] - 1)
      BY <1>7, <2>3
    <3> QED BY ONLY <2>5, <2>8, <3>1, <3>2, Listed(stream.digits), 1 \in Nat, FieldRead
  <2>12. <<Field(p, HubRead), Field(p + HubRead, 1)>> = x
    BY ONLY <1>4, <2>3, <2>10, <2>11
  <2> QED BY <1>4, <2>12 DEF p, r, x
<1>13. ASSUME GoodAt(pos + EntryLen(entry)) PROVE ListAt(Behind(pos), n) = entry.list
  <2>1. entry.list = [i \in 1..n |-> entry.list[i]]
    OBVIOUS
  <2> QED BY <1>12, <1>13, <2>1 DEF ListAt
<1> QED BY <1>8, <1>10, <1>11, <1>13

(***************************************************************************)
(* The file, and a load of it.                                             *)
(***************************************************************************)
\* Counts fit in 32 bits, and entries that have not been filled have no labels.
Counted ==
    /\ num_v < Worth[Half] \div 2
    /\ \A v \in DOMAIN index : Len(index[v].list) \in Nat
    /\ call # Idle => \A v \in DOMAIN index : v >= call.v => index[v].list = <<>>

\* What a program compiled with a narrow header can store is complete.
Sound ==
    build = "narrow" /\ call = Idle /\ ~FreeFaults => Complete(Contents) \/ ~Storable

\* The stream has ended, and unless there was no entry, labels are missing.
Overrun ==
    /\ ~GoodAt(stream.pos)
    /\ call.v = 1 \/ \E v \in 1..(call.v - 1) : Lost(index[v].list)

\* A wide header does not write the count the file is read with.
WideFile ==
    stored.build = "wide" =>
        /\ Listed(file)
        /\ \E n \in Nat : n < Worth[Half] \div 2 /\ Holds(file, 0, n, Full)
        /\ call.op = "load" /\ call.v > 0 => Overrun

\* What has been read so far is what was stored, or the file was cut.
ReadTo(start) ==
    \/ /\ GoodAt(stream.pos)
       /\ num_v = Len(stored.entries) /\ stream.pos = start[call.v]
       /\ \A v \in 1..(call.v - 1) : /\ index[v].trees = stored.entries[v].trees
                                     /\ index[v].list = stored.entries[v].list
    \/ ~stored.whole /\ Overrun

FileAt(start) ==
    /\ Starts(start, stored.entries)
    /\ Says(file, stored.entries, start)
    /\ stored.whole => Len(file) = start[Len(stored.entries) + 1]
    /\ build = "narrow" /\ call.op = "load" /\ call.v > 0 => ReadTo(start)

NarrowFile ==
    stored.build = "narrow" =>
        /\ Complete(stored.entries) /\ Len(stored.entries) \in Nat
        /\ stored.entries = [v \in 1..Len(stored.entries) |->
                                [trees |-> stored.entries[v].trees, list |-> stored.entries[v].list]]
        /\ \E start : FileAt(start)

TripInv ==
    /\ stored.build \in Builds
    /\ Counted
    /\ Sound
    /\ LoadFresh
    /\ call.op = "load" => stream.digits = file
    /\ WideFile
    /\ NarrowFile
    /\ LoadedIsStored
    /\ NarrowStoredLoads

\* Small counts fit in 32 bits.
LEMMA SmallCounts ==
    /\ Worth[Half] \div 2 \in Nat /\ Worth[Half] \div 2 > 0
    /\ 0 \in Int32
    /\ \A n \in Int32 : n < Worth[Half] \div 2
<1>1. Half - 1 \in Nat /\ 1 + (Half - 1) = Half /\ Half \in Nat
  BY Widths
<1>2. Worth[1] <= Worth[Half]
  BY <1>1, WorthGrows, 1 \in Nat
<1>3. Worth[1] = Base
  BY WorthOne
<1> DEFINE w == Worth[Half]
<1>4. w \in Nat /\ w >= 2
  <2>1. Worth[Half] \in Nat
    BY ONLY <1>1, WorthEquation
  <2>2. Base \in Nat /\ Base >= 2
    BY FileAssumption
  <2> QED BY ONLY <1>2, <1>3, <2>1, <2>2
<1> HIDE DEF w
<1>5. w \div 2 \in Nat /\ w \div 2 > 0
  BY <1>4
<1> DEFINE h == w \div 2
<1>6. Int32 = (-h)..(h - 1)
  BY DEF Int32, w
<1> HIDE DEF h
<1>7. h \in Nat /\ h > 0
  BY <1>5 DEF h
<1> QED BY <1>6, <1>7 DEF h, w

\* An index without entries is complete.
LEMMA EmptyComplete ==
    ASSUME NEW n \in Nat, n = 0, NEW e, e = [v \in 1..n |-> e[v]]
    PROVE  Complete(e)
<1>1. Len(e) = 0
  BY ListedFunction
<1> QED BY <1>1, SmallCounts DEF Complete

\* A freed object can be stored.
LEMMA FreedCounted ==
    ASSUME num_v' = 0, index' = <<>>
    PROVE  Counted' /\ Sound'
<1>1. DOMAIN index' = {} /\ DOMAIN index' = 1..0
  OBVIOUS
<1>2. Contents' = [v \in 1..0 |-> Contents'[v]]
  BY <1>1 DEF Contents
<1>3. Complete(Contents')
  <2> DEFINE e == Contents'
  <2>1. e = [v \in 1..0 |-> e[v]]
    BY <1>2
  <2> HIDE DEF e
  <2>2. Complete(e)
    BY <2>1, EmptyComplete, 0 \in Nat
  <2> QED BY <2>2 DEF e
<1> QED BY <1>1, <1>3, SmallCounts DEF Counted, Sound

\* The steps that neither write the file nor read an entry.
LEMMA FileLeft ==
    ASSUME TripInv, UNCHANGED fileVars, call'.op = "load" => call'.v = 0
    PROVE  stored'.build \in Builds /\ WideFile' /\ NarrowFile'
<1>1. file' = file /\ stored' = stored
  BY DEF fileVars
<1>2. ~(call'.op = "load" /\ call'.v > 0)
  OBVIOUS
<1>3. WideFile'
  BY <1>1, <1>2 DEF TripInv, WideFile
<1>4. NarrowFile'
  <2>1. SUFFICES ASSUME stored'.build = "narrow"
                 PROVE  /\ Complete(stored'.entries) /\ Len(stored'.entries) \in Nat
                        /\ stored'.entries = [v \in 1..Len(stored'.entries) |->
                              [trees |-> stored'.entries[v].trees, list |-> stored'.entries[v].list]]
                        /\ \E start : FileAt(start)'
    BY DEF NarrowFile
  <2>2. PICK start : FileAt(start)
    BY <1>1, <2>1 DEF TripInv, NarrowFile
  <2>3. FileAt(start)'
    BY <1>1, <1>2, <2>2 DEF FileAt
  <2> QED BY <1>1, <2>1, <2>3 DEF TripInv, NarrowFile
<1> QED BY <1>1, <1>3, <1>4 DEF TripInv

\* Such steps that end no load.
LEMMA NoLoadEnds ==
    ASSUME TripInv, UNCHANGED fileVars, call'.op = "load" => call'.v = 0 /\ stream'.digits = file,
           ret'.op # "load", LoadFresh', Counted', Sound'
    PROVE  TripInv'
<1>1. stored'.build \in Builds /\ WideFile' /\ NarrowFile' /\ file' = file
  BY FileLeft DEF fileVars
<1>2. LoadedIsStored' /\ NarrowStoredLoads'
  BY DEF LoadedIsStored, NarrowStoredLoads, StoredLoads
<1> QED BY <1>1, <1>2 DEF TripInv

\* The calls that begin anew.
LEMMA TripBegin ==
    ASSUME FileInv, FileInv', TripInv, LoadFresh',
           \/ \E entries \in Indexes :
                \/ \E op \in Constructions :
                      ConstructBegin(op, entries) \/ ConstructStarved(op, entries)
                \/ ConstructThrows(entries)
           \/ CallFree
           \/ LoadBegin
           \/ Restart
    PROVE  TripInv'
<1>1. ASSUME NEW entries \in Indexes, NEW op \in Constructions, ConstructBegin(op, entries)
      PROVE  TripInv'
  <2>1. /\ call' = [op |-> op, v |-> 0] /\ ret' = NotReturned /\ UNCHANGED fileVars
        /\ num_v' = Len(entries) /\ index' = [v \in 1..Len(entries) |-> BlankEntry]
    BY <1>1 DEF ConstructBegin, ReplaceEntries, Calls
  <2>2. Len(entries) < Worth[Half] \div 2
    BY SmallCounts, WidthAssumption DEF Complete
  <2>3. \A v \in DOMAIN index' : index'[v].list = <<>>
    BY <2>1 DEF BlankEntry
  <2>4. Len(<<>>) = 0
    OBVIOUS
  <2>5. Counted'
    BY <2>1, <2>2, <2>3, <2>4 DEF Counted
  <2>6. Sound' /\ call'.op # "load" /\ ret'.op # "load"
    BY <2>1 DEF Sound, Idle, Constructions, NotReturned
  <2> QED BY <2>1, <2>5, <2>6, NoLoadEnds
<1>2. ASSUME NEW entries \in Indexes, NEW op \in Constructions, ConstructStarved(op, entries)
      PROVE  TripInv'
  <2>1. /\ call'.op # "load" /\ ret'.op # "load" /\ UNCHANGED fileVars
        /\ num_v' = 0 /\ index' = <<>>
    BY <1>2 DEF ConstructStarved, Free, Returns, Idle, Constructions
  <2> QED BY <2>1, FreedCounted, NoLoadEnds
<1>3. ASSUME NEW entries \in Indexes, ConstructThrows(entries) PROVE TripInv'
  <2>1. /\ call' = Idle /\ call'.op # "load" /\ ret'.op # "load" /\ UNCHANGED fileVars
        /\ num_v' = Len(entries) /\ index' = <<>> /\ at' = Null /\ entries # <<>>
    BY <1>3 DEF ConstructThrows, Returns, Idle
  <2>2. Len(entries) < Worth[Half] \div 2
    BY SmallCounts, WidthAssumption DEF Complete
  <2>3. DOMAIN index' = {}
    BY <2>1
  <2>4. Counted'
    BY <2>1, <2>2, <2>3 DEF Counted
  <2>5. Len(entries) \in Nat /\ Len(entries) # 0
    <3>1. /\ Len(entries) \in Nat
          /\ entries = [v \in 1..Len(entries) |->
                           [trees |-> entries[v].trees, list |-> entries[v].list]]
      BY FileAssumption
    <3>2. ASSUME Len(entries) = 0 PROVE entries = <<>>
      <4>1. \A v \in 1..0 : FALSE
        OBVIOUS
      <4> QED BY <3>1, <3>2, <4>1
    <3> QED BY <2>1, <3>1, <3>2
  <2>6. Sound'
    BY <2>1, <2>5 DEF Sound, FreeFaults
  <2> QED BY <2>1, <2>4, <2>6, NoLoadEnds
<1>4. CASE CallFree
  <2>1. /\ call'.op # "load" /\ ret'.op # "load" /\ UNCHANGED fileVars
        /\ num_v' = 0 /\ index' = <<>>
    BY <1>4 DEF CallFree, Free, Returns, Idle
  <2> QED BY <2>1, FreedCounted, NoLoadEnds
<1>5. CASE LoadBegin
  <2>1. /\ call'.v = 0 /\ stream'.digits = file /\ ret'.op # "load" /\ UNCHANGED fileVars
        /\ num_v' = 0 /\ index' = <<>>
    BY <1>5 DEF LoadBegin, Free, Calls, NotReturned
  <2> QED BY <2>1, FreedCounted, NoLoadEnds
<1>6. CASE Restart
  <2>1. /\ call'.op # "load" /\ ret'.op # "load" /\ UNCHANGED fileVars
        /\ num_v' = 0 /\ index' = <<>>
    BY <1>6 DEF Restart, Idle, NotReturned
  <2> QED BY <2>1, FreedCounted, NoLoadEnds
<1> QED BY <1>1, <1>2, <1>3, <1>4, <1>5, <1>6

\* The steps of a construction.
LEMMA TripConstruct ==
    ASSUME FileInv, FileInv', TripInv, LoadFresh',
           \/ ConstructSearch \/ ConstructInterrupted \/ ConstructCopy
           \/ ConstructCopyStarved \/ ConstructEnd
    PROVE  TripInv'
<1>1. call.op \in Constructions
  BY DEF ConstructSearch, ConstructInterrupted, ConstructCopy, ConstructCopyStarved,
         ConstructEnd
<1>2. /\ call # Idle /\ call.op # "load" /\ call.op # "none"
      /\ ret = NotReturned /\ num_v \in Nat /\ call.v \in Nat
      /\ call \in [op : Constructions \cup {"none", "load"}, v : Nat]
  BY <1>1 DEF FileInv, IndexFileTypeOK, CallTyped, Quiet, Idle, Constructions
<1>3. at # Null /\ DOMAIN index = 1..num_v
  BY <1>1, <1>2 DEF FileInv, IndexFileTypeOK, EntriesPresent, Constructions
<1>4. given \in Indexes /\ Complete(given) /\ Len(given) = num_v
  BY <1>1, WidthAssumption DEF FileInv, Progress
<1>5. CASE ConstructSearch
  <2>1. /\ call' = [call EXCEPT !.v = 1] /\ call.v = 0 /\ ret' = ret /\ num_v' = num_v
        /\ UNCHANGED fileVars
        /\ index' = [v \in 1..num_v |-> [trees |-> given[v].trees, list |-> index[v].list,
                                         blocks |-> index[v].blocks]]
    BY <1>5 DEF ConstructSearch
  <2>2. call'.op = call.op /\ call' # Idle /\ ret'.op # "load"
    BY <1>2, <2>1 DEF Idle, NotReturned
  <2>3. \A v \in 1..num_v : index'[v].list = index[v].list /\ v >= call.v
    BY <2>1
  <2>4. Counted'
    BY <1>2, <1>3, <2>1, <2>3 DEF TripInv, Counted
  <2>5. Sound'
    BY <2>2 DEF Sound
  <2> QED BY <1>2, <2>1, <2>2, <2>4, <2>5, NoLoadEnds
<1>6. CASE ConstructInterrupted
  <2>1. /\ call' = Idle /\ ret'.op # "load" /\ UNCHANGED <<build, objectVars, fileVars>>
        /\ call.v = 0
    BY <1>6 DEF ConstructInterrupted, Returns
  <2>2. \A v \in 1..num_v : index[v].list = <<>>
    BY <1>2, <1>3, <2>1 DEF TripInv, Counted
  <2>3. num_v' = num_v /\ index' = index /\ at' = at
    BY <2>1 DEF objectVars
  <2>4. Counted'
    BY <2>1, <2>3 DEF TripInv, Counted
  <2>5. Sound'
    <3>1. CASE num_v = 0
      <4> DEFINE e == Contents'
      <4>1. e = [v \in 1..num_v |-> e[v]]
        BY <1>3, <2>3 DEF Contents
      <4> HIDE DEF e
      <4>2. Complete(e)
        BY <1>2, <3>1, <4>1, EmptyComplete
      <4> QED BY <4>2 DEF Sound, e
    <3>2. CASE num_v > 0
      <4>1. 1 \in 1..num_v'
        BY <1>2, <2>3, <3>2
      <4>2. ~Storable'
        BY <2>2, <2>3, <4>1 DEF Storable
      <4> QED BY <4>2 DEF Sound
    <3> QED BY <1>2, <3>1, <3>2
  <2>6. call'.op # "load"
    BY <2>1 DEF Idle
  <2> QED BY <2>1, <2>4, <2>5, <2>6, NoLoadEnds
<1>7. CASE ConstructCopy
  <2>1. /\ call.v \in 1..num_v /\ call' = [call EXCEPT !.v = @ + 1] /\ ret' = ret
        /\ UNCHANGED fileVars
        /\ FillEntry(call.v, index[call.v].trees, given[call.v].list)
    BY <1>7 DEF ConstructCopy
  <2>2. /\ num_v' = num_v /\ DOMAIN index' = DOMAIN index
        /\ index'[call.v].list = given[call.v].list
        /\ \A v \in DOMAIN index : v # call.v => index'[v] = index[v]
    BY <1>2, <1>3, <2>1, EntryFilled
  <2>3. Len(given[call.v].list) \in Nat
    BY <1>4, <2>1 DEF Complete
  <2>4. /\ call'.op = call.op /\ call'.v = call.v + 1 /\ call' # Idle /\ ret'.op # "load"
    BY <1>2, <2>1 DEF Idle, NotReturned
  <2>5. \A v \in 1..num_v : Len(index'[v].list) \in Nat
    BY <1>3, <2>2, <2>3 DEF TripInv, Counted
  <2>6. \A v \in 1..num_v : v >= call.v + 1 => index'[v].list = <<>>
    <3>1. \A v \in 1..num_v : v >= call.v + 1 => v # call.v /\ v >= call.v
      BY <1>2
    <3> QED BY <1>2, <1>3, <2>2, <3>1 DEF TripInv, Counted
  <2>7. Counted'
    BY <1>3, <2>2, <2>4, <2>5, <2>6 DEF TripInv, Counted
  <2>8. Sound'
    BY <2>4 DEF Sound
  <2> QED BY <1>2, <2>1, <2>4, <2>7, <2>8, NoLoadEnds
<1>8. CASE ConstructCopyStarved
  <2>1. /\ call'.op # "load" /\ ret'.op # "load" /\ UNCHANGED fileVars
        /\ num_v' = 0 /\ index' = <<>>
    BY <1>2, <1>8 DEF ConstructCopyStarved, Free, Returns, Idle
  <2> QED BY <2>1, FreedCounted, NoLoadEnds
<1>9. CASE ConstructEnd
  <2>1. /\ call' = Idle /\ ret' = [op |-> call.op, ok |-> TRUE, starved |-> FALSE]
        /\ UNCHANGED <<build, objectVars, fileVars, given>>
    BY <1>9 DEF ConstructEnd, Returns
  <2>2. Contents' = given'
    BY <1>1, <2>1 DEF FileInv, ResultInv
  <2>3. Sound'
    BY <1>4, <2>1, <2>2 DEF Sound
  <2>4. Counted'
    BY <2>1 DEF TripInv, Counted, objectVars
  <2>5. call'.op # "load" /\ ret'.op # "load"
    BY <1>2, <2>1 DEF Idle
  <2> QED BY <2>1, <2>3, <2>4, <2>5, NoLoadEnds
<1> QED BY <1>5, <1>6, <1>7, <1>8, <1>9

\* A cut file says of the index what is left.
LEMMA SaysCut ==
    ASSUME NEW entries, Len(entries) \in Nat, Complete(entries), NEW start,
           Starts(start, entries), NEW s, Says(s, entries, start), NEW n \in 0..Len(s)
    PROVE  Says(SubSeq(s, 1, n), entries, start) /\ Len(SubSeq(s, 1, n)) = n
<1> DEFINE r == SubSeq(s, 1, n)
<1>1. Listed(s) /\ Len(s) \in Nat
  BY ListedLen DEF Says
<1>2. Listed(r) /\ Len(r) = n
  <2>1. PICK S : s \in Seq(S)
    BY <1>1 DEF Listed
  <2>2. r \in Seq(S) /\ Len(r) = n
    BY <2>1
  <2> QED BY <2>2 DEF Listed
<1>3. Holds(r, 0, Len(entries), Half) /\ Holds(r, Half, K, Half)
  BY <1>1, HoldsCut, Widths, 0 \in Nat DEF Says
<1>4. ASSUME NEW v \in 1..Len(entries) PROVE EntryAt(r, start[v], entries[v])
  <2>1. start[v] \in Nat
    <3>1. v \in 1..(Len(entries) + 1)
      OBVIOUS
    <3> QED BY <3>1 DEF Starts
  <2>2. Len(entries[v].list) \in Nat
    BY CompleteList
  <2>3. EntryAt(s, start[v], entries[v])
    BY DEF Says
  <2> QED BY ONLY <1>1, <2>1, <2>2, <2>3, n \in 0..Len(s), EntryCut
<1>5. Len(r) <= start[Len(entries) + 1]
  <2>1. Len(entries) + 1 \in 1..(Len(entries) + 1)
    OBVIOUS
  <2>2. start[Len(entries) + 1] \in Nat
    BY <2>1 DEF Starts
  <2>3. Len(s) <= start[Len(entries) + 1]
    BY DEF Says
  <2> QED BY <1>1, <1>2, <2>2, <2>3
<1> QED BY <1>2, <1>3, <1>4, <1>5 DEF Says

\* A store writes the index, or the begin of it.
LEMMA TripStore ==
    ASSUME FileInv, FileInv', TripInv, LoadFresh', Store
    PROVE  TripInv'
<1> DEFINE whole == FileOf(index)
<1>1. PICK n \in 0..Len(whole) :
        /\ file' = SubSeq(whole, 1, n)
        /\ stored' = [entries |-> Contents, build |-> build, whole |-> n = Len(whole)]
        /\ call' = Idle /\ ret'.op = "store"
  BY DEF Store, Returns
<1>2. /\ Storable /\ call = Idle /\ ~FreeFaults /\ num_v \in Nat /\ build \in Builds
      /\ UNCHANGED <<build, objectVars>> /\ Counted
  BY DEF Store, Callable, FileInv, IndexFileTypeOK, TripInv
<1>3. DOMAIN index = 1..num_v
  BY <1>2 DEF FileInv, IndexFileTypeOK, FreeFaults
<1>4. /\ Contents = [v \in 1..num_v |-> Contents[v]] /\ Len(Contents) = num_v
      /\ Contents = [v \in 1..num_v |-> [trees |-> Contents[v].trees, list |-> Contents[v].list]]
      /\ \A v \in 1..num_v : index[v].trees = Contents[v].trees /\ index[v].list = Contents[v].list
  <2>1. Contents = [v \in 1..num_v |-> [trees |-> index[v].trees, list |-> index[v].list]]
    BY <1>3 DEF Contents
  <2> DEFINE e == Contents
  <2> HIDE DEF e
  <2>2. e = [v \in 1..num_v |-> [trees |-> index[v].trees, list |-> index[v].list]]
    BY <2>1 DEF e
  <2>3. \A v \in 1..num_v : e[v] = [trees |-> index[v].trees, list |-> index[v].list]
    BY <2>2
  <2>4. ASSUME NEW v \in 1..num_v
        PROVE  index[v].trees = e[v].trees /\ index[v].list = e[v].list
    <3>1. e[v] = [trees |-> index[v].trees, list |-> index[v].list]
      BY ONLY <2>3, v \in 1..num_v
    <3> QED BY ONLY <3>1
  <2>5. e = [v \in 1..num_v |-> e[v]]
    BY <2>2, <2>3
  <2>6. e = [v \in 1..num_v |-> [trees |-> e[v].trees, list |-> e[v].list]]
    BY <2>2, <2>4
  <2>7. Len(e) = num_v
    BY ONLY <1>2, <2>5, ListedFunction
  <2> QED BY <2>4, <2>5, <2>6, <2>7 DEF e
<1>5. \A v \in 1..num_v : SentinelAt(index[v].list) \in Nat
  <2>1. TAKE v \in 1..num_v
  <2>2. Len(index[v].list) \in Nat
    BY <1>2, <1>3 DEF Counted
  <2>3. \E i \in 1..Len(index[v].list) : index[v].list[i][1] = num_v
    BY <1>2 DEF Storable
  <2>4. SentinelAt(index[v].list) \in 1..Len(index[v].list)
    BY <2>2, <2>3, SentinelPlace
  <2> QED BY <2>2, <2>4
<1>6. Listed(whole) /\ (build = "wide" => Holds(whole, 0, num_v, Full))
  BY <1>2, <1>5, FileListed
<1>7. whole = FileOf(Contents)
  BY <1>4, SameFile
<1> HIDE DEF whole
<1>8. Listed(file')
  <2>1. PICK S : whole \in Seq(S)
    BY <1>6 DEF Listed
  <2>2. file' \in Seq(S)
    BY <1>1, <2>1
  <2> QED BY <2>2 DEF Listed
<1>9. WideFile'
  <2>1. SUFFICES ASSUME stored'.build = "wide"
                 PROVE  \E m \in Nat : m < Worth[Half] \div 2 /\ Holds(file', 0, m, Full)
    BY <1>1, <1>8 DEF WideFile, Idle
  <2>2. Holds(whole, 0, num_v, Full)
    BY <1>1, <1>6, <2>1
  <2>3. Holds(file', 0, num_v, Full)
    BY <1>1, <1>6, <2>2, HoldsCut, Widths, 0 \in Nat
  <2> QED BY <1>2, <2>3 DEF Counted
<1>10. NarrowFile'
  <2>1. SUFFICES ASSUME stored'.build = "narrow" PROVE NarrowFile'
    BY DEF NarrowFile
  <2>2. build = "narrow" /\ stored'.entries = Contents /\ stored'.whole = (n = Len(whole))
    BY <1>1, <2>1
  <2> DEFINE e == Contents
  <2>3. Complete(e)
    BY <1>2, <2>2 DEF TripInv, Sound
  <2> HIDE DEF e
  <2>4. Len(e) = num_v /\ whole = FileOf(e) /\ stored'.entries = e
    BY <1>4, <1>7, <2>2 DEF e
  <2>5. PICK start : Starts(start, e) /\ Len(whole) = start[num_v + 1] /\ Says(whole, e, start)
    BY <1>2, <2>2, <2>3, <2>4, FileWritten
  <2>6. Says(file', e, start) /\ Len(file') = n
    BY <1>1, <1>2, <2>3, <2>4, <2>5, SaysCut
  <2>7. FileAt(start)'
    BY <1>1, <2>2, <2>4, <2>5, <2>6 DEF FileAt, Idle
  <2>8. e = [v \in 1..num_v |-> [trees |-> e[v].trees, list |-> e[v].list]]
    BY <1>4 DEF e
  <2> QED BY <1>2, <2>3, <2>4, <2>7, <2>8 DEF NarrowFile
<1>11. num_v' = num_v /\ index' = index /\ at' = at /\ build' = build
  BY <1>2 DEF objectVars
<1>12. Sound' /\ Counted'
  <2>1. Counted'
    BY <1>1, <1>2, <1>11 DEF Counted
  <2>2. Contents' = Contents /\ (Storable' <=> Storable) /\ (FreeFaults' <=> FreeFaults)
    BY <1>11 DEF Contents, Storable, FreeFaults
  <2>3. Sound'
    BY <1>2, <1>11, <2>2 DEF TripInv, Sound
  <2> QED BY <2>1, <2>3
<1>13. LoadedIsStored' /\ NarrowStoredLoads' /\ (call'.op = "load" => stream'.digits = file')
  BY <1>1 DEF LoadedIsStored, NarrowStoredLoads, StoredLoads, Idle
<1>14. stored'.build \in Builds
  BY <1>1, <1>2
<1> QED BY <1>9, <1>10, <1>12, <1>13, <1>14 DEF TripInv

\* The steps that leave the object and the file alone.
LEMMA TripStill ==
    ASSUME FileInv, FileInv', TripInv, LoadFresh', Unread \/ UNCHANGED vars
    PROVE  TripInv'
<1>1. CASE Unread
  <2>1. /\ call = Idle /\ call' = Idle /\ ret'.op = "unread"
        /\ UNCHANGED <<num_v, index, at, build>> /\ UNCHANGED fileVars
    BY <1>1 DEF Unread, Callable, Returns, objectVars
  <2>2. Counted'
    BY <2>1 DEF TripInv, Counted
  <2>3. Contents' = Contents /\ (Storable' <=> Storable) /\ (FreeFaults' <=> FreeFaults)
    BY <2>1 DEF Contents, Storable, FreeFaults
  <2>4. Sound'
    BY <2>1, <2>3 DEF TripInv, Sound
  <2> QED BY <2>1, <2>2, <2>4, NoLoadEnds DEF Idle
<1>2. CASE UNCHANGED vars
  <2>1. UNCHANGED <<num_v, at, index, heap, build, call, ret, given, stream, file, stored>>
    BY <1>2 DEF vars, objectVars, fileVars
  <2>2. Counted' /\ Contents' = Contents /\ (Storable' <=> Storable) /\ (FreeFaults' <=> FreeFaults)
    BY <2>1 DEF TripInv, Counted, Contents, Storable, FreeFaults
  <2>3. Sound'
    BY <2>1, <2>2 DEF TripInv, Sound
  <2>4. Overrun' <=> Overrun
    BY <2>1 DEF Overrun, GoodAt
  <2>5. WideFile'
    BY <2>1, <2>4 DEF TripInv, WideFile
  <2>6. \A start : FileAt(start) => FileAt(start)'
    BY <2>1, <2>4 DEF FileAt, ReadTo, GoodAt
  <2>7. NarrowFile'
    BY <2>1, <2>6 DEF TripInv, NarrowFile
  <2>8. LoadedIsStored' /\ NarrowStoredLoads'
    BY <2>1, <2>2 DEF TripInv, LoadedIsStored, NarrowStoredLoads, StoredLoads
  <2> QED BY <2>1, <2>2, <2>3, <2>5, <2>7, <2>8 DEF TripInv
<1> QED BY <1>1, <1>2

\* The digits of an entry can be counted.
LEMMA EntryLenNat ==
    ASSUME NEW entry, Len(entry.list) \in Nat
    PROVE  EntryLen(entry) \in Nat
<1>1. \A a, b \in Nat : a * b \in Nat
  BY Products
<1> DEFINE n == Len(entry.list)
           t == K * TreeDigits
           l == n * (Half + 1)
<1>2. t \in Nat /\ l \in Nat
  <2>1. Half + 1 \in Nat
    BY Widths
  <2> HIDE DEF n
  <2>2. n \in Nat
    BY DEF n
  <2> QED BY <1>1, <2>1, <2>2, Widths
<1>3. EntryLen(entry) = (t + Half) + l
  BY DEF EntryLen, LabelsBehind
<1> HIDE DEF t, l
<1> QED BY <1>2, <1>3, Widths

\* The entries of a file follow each other.
LEMMA StartsGrow ==
    ASSUME NEW entries, Len(entries) \in Nat, Complete(entries), NEW start,
           Starts(start, entries), NEW v \in 1..(Len(entries) + 1)
    PROVE  start[v] \in Nat /\ start[v] <= start[Len(entries) + 1]
<1> DEFINE n == Len(entries)
           Low == {k \in Nat : v + k <= n + 1 => start[v] <= start[v + k]}
<1>1. /\ start \in [1..(n + 1) -> Nat]
      /\ \A w \in 1..n : start[w + 1] = start[w] + EntryLen(entries[w])
  BY DEF Starts
<1>2. start[v] \in Nat
  BY <1>1
<1>3. \A w \in 1..n : EntryLen(entries[w]) \in Nat
  <2>1. TAKE w \in 1..n
  <2>2. Len(entries[w].list) \in Nat
    BY CompleteList
  <2> QED BY ONLY <2>2, EntryLenNat
<1> HIDE DEF n
<1>4. n \in Nat /\ v \in 1..(n + 1)
  BY DEF n
<1>5. 0 \in Low
  BY <1>2, <1>4
<1>6. ASSUME NEW k \in Nat, k \in Low PROVE k + 1 \in Low
  <2>1. SUFFICES ASSUME v + (k + 1) <= n + 1 PROVE start[v] <= start[v + (k + 1)]
    OBVIOUS
  <2>2. v + k \in 1..n /\ v + k <= n + 1 /\ (v + k) + 1 = v + (k + 1) /\ v + k \in 1..(n + 1)
        /\ v + (k + 1) \in 1..(n + 1)
    BY <1>4, <2>1
  <2>3. start[v + (k + 1)] = start[v + k] + EntryLen(entries[v + k])
    BY <1>1, <2>2
  <2>4. EntryLen(entries[v + k]) \in Nat /\ start[v + k] \in Nat
    BY <1>1, <1>3, <2>2
  <2>5. start[v] <= start[v + k]
    BY <1>6, <2>2
  <2> QED BY <1>2, <2>3, <2>4, <2>5
<1>7. Nat \subseteq Low
  <2> HIDE DEF Low
  <2> QED BY <1>5, <1>6, SetInduction
<1>8. (n + 1) - v \in Nat /\ v + ((n + 1) - v) = n + 1
  BY <1>4
<1>9. start[v] <= start[n + 1]
  BY <1>7, <1>8
<1> QED BY <1>2, <1>9 DEF n

\* What is known of the file while it is loaded.
LEMMA LoadedFile ==
    ASSUME FileInv, TripInv, call.op = "load"
    PROVE  /\ stream.digits = file /\ Listed(file) /\ Len(file) \in Nat
           /\ stored.build = "wide" \/ stored.build = "narrow"
           /\ build = "wide" \/ build = "narrow"
           /\ stream.pos \in Nat
<1>1. stored.build = "wide" \/ stored.build = "narrow"
  BY FileAssumption DEF TripInv
<1>2. build = "wide" \/ build = "narrow"
  BY FileAssumption DEF FileInv, IndexFileTypeOK
<1>3. Listed(file)
  BY <1>1 DEF TripInv, WideFile, NarrowFile, FileAt, Says
<1> QED BY <1>1, <1>2, <1>3, ListedLen DEF TripInv, FileInv, IndexFileTypeOK

\* The header of a file a wide header has written names no trees.
LEMMA WideHeader ==
    ASSUME FileInv, TripInv, call.op = "load", stored.build = "wide"
    PROVE  /\ Half <= Len(file) => \E n \in Nat : n < Worth[Half] \div 2 /\ Count(0) = {n}
           /\ GoodAt(2 * CountRead) => Count(CountRead) = {0}
<1>1. stream.digits = file /\ Listed(file) /\ Len(file) \in Nat
  BY LoadedFile
<1>2. PICK n \in Nat : n < Worth[Half] \div 2 /\ Holds(file, 0, n, Full)
  BY DEF TripInv, WideFile
<1>3. n < Worth[Half]
  <2>1. Half \in Nat
    BY Widths
  <2> DEFINE h == Worth[Half] \div 2
             w == Worth[Half]
  <2>2. h \in Nat /\ w \in Nat /\ h <= w
    BY ONLY <2>1, HalfWorth
  <2>3. n < h
    BY <1>2
  <2> HIDE DEF h, w
  <2>4. n < w
    BY <2>2, <2>3
  <2> QED BY <2>4 DEF w
<1>4. Holds(file, 0, n, Half) /\ Holds(file, Half, 0, Half)
  BY ONLY <1>1, <1>2, <1>3, n \in Nat, WideCount
<1>5. ASSUME Half <= Len(file) PROVE Count(0) = {n}
  <2>1. 0 + Half <= Len(stream.digits)
    BY <1>1, <1>5, Widths
  <2>2. Listed(stream.digits) /\ Holds(stream.digits, 0, n, Half)
    BY <1>1, <1>4
  <2> QED BY ONLY <1>2, <2>1, <2>2, n \in Nat, 0 \in Nat, CountReadAt
<1>6. ASSUME GoodAt(2 * CountRead) PROVE Count(CountRead) = {0}
  <2>1. Half + Half <= Len(stream.digits) /\ CountRead = Half /\ Half \in Nat
    BY <1>6, Widths DEF GoodAt
  <2>2. Listed(stream.digits) /\ Holds(stream.digits, Half, 0, Half)
    BY <1>1, <1>4
  <2>3. 0 < Worth[Half] \div 2
    BY SmallCounts
  <2>4. Count(Half) = {0}
    BY ONLY <2>1, <2>2, <2>3, 0 \in Nat, CountReadAt
  <2> QED BY <2>1, <2>4
<1> QED BY <1>2, <1>5, <1>6

\* The header of a file a narrow header has written is read as it was written.
LEMMA NarrowHeader ==
    ASSUME FileInv, TripInv, call.op = "load", stored.build = "narrow"
    PROVE  /\ Len(stored.entries) < Worth[Half] \div 2
           /\ Half <= Len(file) => Count(0) = {Len(stored.entries)}
           /\ GoodAt(2 * CountRead) => Count(CountRead) = {K} /\ Half <= Len(file)
<1> DEFINE n == Len(stored.entries)
<1>1. stream.digits = file /\ Listed(file) /\ Len(file) \in Nat
  BY LoadedFile
<1>2. PICK start : FileAt(start)
  BY DEF TripInv, NarrowFile
<1>3. Holds(stream.digits, 0, n, Half) /\ Holds(stream.digits, Half, K, Half)
  BY <1>1, <1>2 DEF FileAt, Says
<1>4. n \in Nat /\ n < Worth[Half] \div 2
  BY SmallCounts DEF TripInv, NarrowFile, Complete
<1>5. K \in Nat /\ K < Worth[Half] \div 2
  BY SmallCounts, WidthAssumption, FileAssumption
<1>6. Listed(stream.digits)
  BY <1>1
<1> HIDE DEF n
<1>7. ASSUME Half <= Len(file) PROVE Count(0) = {n}
  <2>1. 0 + Half <= Len(stream.digits)
    BY <1>1, <1>7, Widths
  <2> QED BY ONLY <1>3, <1>4, <1>6, <2>1, 0 \in Nat, CountReadAt
<1>8. ASSUME GoodAt(2 * CountRead) PROVE Count(CountRead) = {K} /\ Half <= Len(file)
  <2>1. Half + Half <= Len(stream.digits) /\ CountRead = Half /\ Half \in Nat
    BY <1>8, Widths DEF GoodAt
  <2>2. Count(Half) = {K}
    BY ONLY <1>3, <1>5, <1>6, <2>1, CountReadAt
  <2> QED BY <1>1, <2>1, <2>2
<1> QED BY <1>4, <1>7, <1>8 DEF n

\* The count of entries is never too large.
LEMMA HeaderCount ==
    ASSUME FileInv, TripInv, call.op = "load", NEW n \in Count(0)
    PROVE  n < Worth[Half] \div 2
<1>1. CASE Half <= Len(file)
  BY <1>1, LoadedFile, WideHeader, NarrowHeader
<1>2. CASE ~(Half <= Len(file))
  <2>1. ~(0 + Half <= Len(stream.digits))
    BY <1>2, LoadedFile, Widths
  <2>2. Field(0, CountRead) = Uninit
    BY <2>1, Widths DEF Field
  <2>3. Count(0) = Garbage
    BY <2>2 DEF Count, Signed
  <2> QED BY <2>3, WidthAssumption, SmallCounts
<1> QED BY <1>1, <1>2

\* The header is read: either it says what was written, or the stream has ended.
LEMMA TripHeader ==
    ASSUME K > 0, FileInv, FileInv', TripInv, LoadFresh', LoadHeader
    PROVE  TripInv'
<1>1. PICK n \in Count(0) \cap Nat : ReplaceEntries(n)
  BY DEF LoadHeader
<1>2. /\ call = [op |-> "load", v |-> 0] /\ call' = [call EXCEPT !.v = 1]
      /\ stream' = [stream EXCEPT !.pos = 2 * CountRead] /\ K \in Count(CountRead)
      /\ UNCHANGED <<build, ret, fileVars>>
  BY DEF LoadHeader
<1>3. /\ call.op = "load" /\ call'.op = "load" /\ call'.v = 1 /\ call' # Idle
  BY <1>2 DEF Idle
<1>4. file' = file /\ stored' = stored /\ build' = build /\ ret'.op # "load"
  BY <1>2 DEF fileVars, FileInv, Quiet, Idle, NotReturned
<1>5. /\ stream' = [digits |-> file, pos |-> 2 * CountRead, breaks |-> stream.breaks]
  BY <1>2, <1>3, LoadedFile DEF FileInv, CallTyped
<1>6. num_v' = n /\ index' = [v \in 1..n |-> BlankEntry]
  BY <1>1 DEF ReplaceEntries
<1>7. Counted'
  <2>1. n < Worth[Half] \div 2
    BY <1>3, HeaderCount
  <2>2. \A v \in DOMAIN index' : index'[v].list = <<>>
    BY <1>6 DEF BlankEntry
  <2>3. Len(<<>>) = 0
    OBVIOUS
  <2> QED BY <1>6, <2>1, <2>2, <2>3 DEF Counted
<1>8. Sound'
  BY <1>3 DEF Sound
<1>9. GoodAt(2 * CountRead) <=> GoodAt(stream.pos)'
  BY <1>3, <1>5, LoadedFile DEF GoodAt
<1>10. WideFile'
  <2>1. SUFFICES ASSUME stored.build = "wide" PROVE ~GoodAt(stream.pos)'
    BY <1>3, <1>4 DEF TripInv, WideFile, Overrun
  <2> QED BY <1>2, <1>3, <1>9, <2>1, WideHeader
<1>11. NarrowFile'
  <2>1. SUFFICES ASSUME stored.build = "narrow" PROVE NarrowFile'
    BY <1>4 DEF NarrowFile
  <2>2. PICK start : FileAt(start)
    BY <2>1 DEF TripInv, NarrowFile
  <2>3. ReadTo(start)'
    <3>1. CASE GoodAt(2 * CountRead)
      <4>1. n = Len(stored.entries)
        BY <1>3, <2>1, <3>1, NarrowHeader
      <4>2. 2 * CountRead = Full /\ start[1] = Full
        BY <2>2, Widths DEF FileAt, Starts
      <4>3. \A v \in 1..(1 - 1) : FALSE
        OBVIOUS
      <4> QED BY <1>3, <1>4, <1>5, <1>6, <1>9, <3>1, <4>1, <4>2, <4>3 DEF ReadTo
    <3>2. CASE ~GoodAt(2 * CountRead)
      <4>1. ~stored.whole
        <5>1. ASSUME stored.whole PROVE FALSE
          <6> DEFINE m == Len(stored.entries)
          <6>1. Len(file) = start[m + 1] /\ start[1] = Full /\ Starts(start, stored.entries)
            BY <2>2, <5>1 DEF FileAt, Starts
          <6>2. m \in Nat /\ Complete(stored.entries) /\ 1 \in 1..(m + 1)
            BY <2>1 DEF TripInv, NarrowFile
          <6>3. start[1] <= start[m + 1]
            BY ONLY <6>1, <6>2, StartsGrow
          <6>4. 2 * CountRead <= Len(stream.digits)
            BY <1>3, <6>1, <6>3, LoadedFile, Widths
          <6> QED BY <3>2, <6>4 DEF GoodAt
        <5> QED BY <5>1
      <4> QED BY <1>3, <1>4, <1>9, <3>2, <4>1 DEF ReadTo, Overrun
    <3> QED BY <3>1, <3>2
  <2>4. FileAt(start)'
    BY <1>4, <2>2, <2>3 DEF FileAt
  <2> QED BY <1>4, <2>1, <2>4 DEF TripInv, NarrowFile
<1>12. LoadedIsStored' /\ NarrowStoredLoads'
  BY <1>4 DEF LoadedIsStored, NarrowStoredLoads, StoredLoads
<1> QED BY <1>4, <1>5, <1>7, <1>8, <1>10, <1>11, <1>12 DEF TripInv

\* An entry of a file is read as it was written, as far as the file goes.
LEMMA StoredRead ==
    ASSUME FileInv, TripInv, call.op = "load", stored.build = "narrow", build = "narrow",
           NEW start, FileAt(start), call.v \in 1..Len(stored.entries),
           stream.pos = start[call.v]
    PROVE  LET v == call.v
               entry == stored.entries[v]
           IN  /\ start[v + 1] \in Nat
               /\ stored.whole => GoodAt(start[v + 1])
               /\ Behind(stream.pos) <= start[v + 1]
               /\ GoodAt(Behind(stream.pos)) =>
                    /\ SizeAt(stream.pos) = {Len(entry.list)} /\ Len(entry.list) \in Nat
                    /\ TreesAt(stream.pos) = entry.trees
                    /\ Behind(stream.pos) + Len(entry.list) * LabelDigits = start[v + 1]
                    /\ GoodAt(start[v + 1])
                         => ListAt(Behind(stream.pos), Len(entry.list)) = entry.list
<1> DEFINE v == call.v
           n == Len(stored.entries)
           entry == stored.entries[v]
           pos == stream.pos
<1>1. stream.digits = file /\ Listed(stream.digits) /\ Len(stream.digits) \in Nat /\ pos \in Nat
  BY LoadedFile
<1>2. /\ n \in Nat /\ Complete(stored.entries) /\ Starts(start, stored.entries)
      /\ Says(file, stored.entries, start)
      /\ stored.whole => Len(file) = start[n + 1]
  BY DEF TripInv, NarrowFile, FileAt
<1>3. /\ entry.trees \in [1..K -> (0..(Base - 1)) \X (0..(Worth[Full] - 1)) \X (0..(Worth[Full] - 1))]
      /\ entry.list \in Seq((0..(Worth[Half] - 1)) \X (0..(Base - 1)))
      /\ Len(entry.list) \in Int32
  BY <1>2 DEF Complete
<1>4. Len(entry.list) \in Nat /\ Len(entry.list) < Worth[Half] \div 2
  <2> DEFINE S == (0..(Worth[Half] - 1)) \X (0..(Base - 1))
  <2>1. entry.list \in Seq(S) /\ Len(entry.list) \in Int32
    BY <1>3
  <2> HIDE DEF S, entry
  <2> QED BY <2>1, SmallCounts
<1>5. EntryAt(stream.digits, pos, entry)
  BY <1>1, <1>2 DEF Says
<1>6. v + 1 \in 1..(n + 1) /\ v \in 1..n
  <2>1. v \in 1..n
    OBVIOUS
  <2> HIDE DEF v, n
  <2> QED BY <1>2, <2>1
<1>7. start[v + 1] = pos + EntryLen(entry)
  BY <1>2, <1>6 DEF Starts
<1>8. start[v + 1] \in Nat /\ start[v + 1] <= start[n + 1]
  BY ONLY <1>2, <1>6, StartsGrow
<1>9. stored.whole => GoodAt(start[v + 1])
  BY <1>1, <1>2, <1>8 DEF GoodAt
<1>10. Behind(pos) <= start[v + 1]
  <2> DEFINE t == K * TreeDigits
             m == Len(entry.list)
             l == m * (Half + 1)
  <2>1. Behind(pos) = (pos + t) + Half /\ EntryLen(entry) = (t + Half) + l
    BY Widths DEF Behind, EntryLen, LabelsBehind
  <2>2. t \in Nat /\ l \in Nat
    <3>1. \A a, b \in Nat : a * b \in Nat
      BY Products
    <3>2. Half + 1 \in Nat /\ m \in Nat
      BY <1>4, Widths
    <3> HIDE DEF m
    <3> QED BY <3>1, <3>2, Widths
  <2> HIDE DEF t, l, pos, v, entry
  <2> QED BY <1>1, <1>7, <2>1, <2>2, Widths
<1>11. ASSUME GoodAt(Behind(pos))
       PROVE  /\ SizeAt(pos) = {Len(entry.list)}
              /\ TreesAt(pos) = entry.trees
              /\ Behind(pos) + Len(entry.list) * LabelDigits = start[v + 1]
              /\ GoodAt(start[v + 1]) => ListAt(Behind(pos), Len(entry.list)) = entry.list
  <2>1. build = "narrow"
    OBVIOUS
  <2> HIDE DEF entry, pos, v
  <2>2. /\ SizeAt(pos) = {Len(entry.list)}
        /\ TreesAt(pos) = entry.trees
        /\ Behind(pos) + Len(entry.list) * LabelDigits = pos + EntryLen(entry)
        /\ GoodAt(pos + EntryLen(entry)) => ListAt(Behind(pos), Len(entry.list)) = entry.list
    BY ONLY <1>1, <1>3, <1>4, <1>5, <1>11, <2>1, EntryRead
  <2> QED BY <1>7, <2>2
<1> QED BY <1>4, <1>8, <1>9, <1>10, <1>11

\* An entry is read: either it says what was written, or the stream has ended.
LEMMA TripEntry ==
    ASSUME FileInv, FileInv', TripInv, LoadFresh', LoadEntry
    PROVE  TripInv'
<1> DEFINE pos == stream.pos
           v == call.v
<1>1. PICK s \in SizeAt(pos) \cap Nat :
        /\ FillEntry(v, TreesAt(pos), ListAt(Behind(pos), s))
        /\ stream' = [stream EXCEPT !.pos = Behind(@) + s * LabelDigits]
  BY DEF LoadEntry
<1>2. /\ call.op = "load" /\ v \in 1..num_v /\ call' = [call EXCEPT !.v = @ + 1]
      /\ UNCHANGED <<build, ret, fileVars>>
  BY DEF LoadEntry
<1>3. /\ call \in [op : Constructions \cup {"none", "load"}, v : Nat] /\ num_v \in Nat
      /\ v \in Nat /\ call # Idle
  BY <1>2 DEF FileInv, IndexFileTypeOK, CallTyped, Idle
<1>4. call'.op = "load" /\ call'.v = v + 1 /\ call'.v > 0 /\ call' # Idle /\ (v + 1) - 1 = v
  BY <1>2, <1>3 DEF Idle
<1>5. file' = file /\ stored' = stored /\ build' = build /\ ret'.op # "load"
  BY <1>2, <1>3 DEF fileVars, FileInv, Quiet, NotReturned
<1> DEFINE behind == Behind(pos) + s * LabelDigits
<1>6. stream' = [digits |-> file, pos |-> behind, breaks |-> stream.breaks]
  BY <1>1, <1>2, LoadedFile DEF FileInv, CallTyped
<1>7. /\ stream.digits = file /\ Listed(file) /\ Len(file) \in Nat /\ pos \in Nat
      /\ stored.build = "wide" \/ stored.build = "narrow"
  BY <1>2, LoadedFile
<1>8. at # Null /\ DOMAIN index = 1..num_v
  BY <1>2, <1>3 DEF FileInv, IndexFileTypeOK, EntriesPresent
<1>9. /\ num_v' = num_v /\ DOMAIN index' = DOMAIN index
      /\ index'[v].trees = TreesAt(pos) /\ index'[v].list = ListAt(Behind(pos), s)
      /\ \A w \in 1..num_v : w # v => index'[w] = index[w]
  BY <1>1, <1>2, <1>8, EntryFilled
<1>10. Behind(pos) \in Nat /\ behind \in Nat /\ behind >= Behind(pos) /\ Behind(pos) >= pos
  <2>1. \A a, b \in Nat : a * b \in Nat
    BY Products
  <2>2. LabelDigits \in Nat
    BY Widths DEF LabelDigits, HubRead
  <2> DEFINE t == K * TreeDigits
             l == s * LabelDigits
  <2>3. t \in Nat /\ l \in Nat
    BY <2>1, <2>2, Widths
  <2>4. Behind(pos) = (pos + t) + Half /\ behind = Behind(pos) + l
    BY Widths DEF Behind
  <2> HIDE DEF t, l, pos, behind
  <2> QED BY <1>7, <2>3, <2>4, Widths
<1>11. GoodAt(behind) <=> GoodAt(stream.pos)'
  BY <1>6, <1>7 DEF GoodAt
<1>12. ~GoodAt(behind) => Lost(index'[v].list)
  <2>1. Len(stream.digits) \in Nat
    BY <1>7
  <2>2. Behind(pos) \in Nat /\ s \in Nat
    BY <1>10
  <2> HIDE DEF pos, v
  <2> QED BY <1>9, <2>1, <2>2, ListLost
<1>13. ~GoodAt(behind) => Overrun'
  <2>1. v \in 1..(call'.v - 1)
    BY <1>2, <1>3, <1>4
  <2> HIDE DEF pos, v
  <2> QED BY <1>11, <1>12, <2>1 DEF Overrun
<1>14. ~GoodAt(pos) => ~GoodAt(behind)
  <2> HIDE DEF pos, behind
  <2> QED BY <1>7, <1>10 DEF GoodAt
<1>15. Counted'
  <2>1. Len(ListAt(Behind(pos), s)) = s
    <3> DEFINE list == ListAt(Behind(pos), s)
    <3>1. list = [i \in 1..s |-> list[i]] /\ s \in Nat
      BY DEF ListAt
    <3> HIDE DEF list
    <3>2. Len(list) = s
      BY ONLY <3>1, ListedFunction
    <3> QED BY <3>2 DEF list
  <2> HIDE DEF v, pos, behind
  <2>2. \A w \in 1..num_v : Len(index'[w].list) \in Nat
    BY <1>8, <1>9, <2>1 DEF TripInv, Counted
  <2>3. \A w \in 1..num_v : w >= v + 1 => index'[w].list = <<>>
    <3>1. \A w \in 1..num_v : w >= v + 1 => w # v /\ w >= v
      BY <1>3
    <3>2. \A w \in 1..num_v : w >= v => index[w].list = <<>>
      BY <1>3, <1>8 DEF TripInv, Counted, v
    <3> QED BY <1>9, <3>1, <3>2
  <2> QED BY <1>4, <1>8, <1>9, <2>2, <2>3 DEF TripInv, Counted
<1>16. Sound'
  BY <1>4 DEF Sound
<1> HIDE DEF behind
<1>17. WideFile'
  <2>1. SUFFICES ASSUME stored.build = "wide" PROVE Overrun'
    BY <1>5 DEF TripInv, WideFile
  <2>2. Overrun
    BY <1>2, <1>3, <2>1 DEF TripInv, WideFile
  <2> QED BY <1>13, <1>14, <2>2 DEF Overrun
<1>18. NarrowFile'
  <2>1. SUFFICES ASSUME stored.build = "narrow" PROVE NarrowFile'
    BY <1>5 DEF NarrowFile
  <2>2. PICK start : FileAt(start)
    BY <2>1 DEF TripInv, NarrowFile
  <2>3. ASSUME build = "narrow" PROVE ReadTo(start)'
    <3>1. ReadTo(start)
      BY <1>2, <1>3, <2>2, <2>3 DEF FileAt
    <3>2. CASE ~stored.whole /\ Overrun
      <4>1. Overrun'
        BY <1>13, <1>14, <3>2 DEF Overrun
      <4> QED BY <1>5, <3>2, <4>1 DEF ReadTo
    <3>3. CASE /\ GoodAt(pos) /\ num_v = Len(stored.entries) /\ pos = start[v]
               /\ \A w \in 1..(v - 1) : /\ index[w].trees = stored.entries[w].trees
                                        /\ index[w].list = stored.entries[w].list
      <4> DEFINE entry == stored.entries[v]
      <4>1. v \in 1..Len(stored.entries)
        BY <1>2, <3>3
      <4>2. /\ start[v + 1] \in Nat
            /\ stored.whole => GoodAt(start[v + 1])
            /\ Behind(pos) <= start[v + 1]
            /\ GoodAt(Behind(pos)) =>
                 /\ SizeAt(pos) = {Len(entry.list)}
                 /\ TreesAt(pos) = entry.trees
                 /\ Behind(pos) + Len(entry.list) * LabelDigits = start[v + 1]
                 /\ GoodAt(start[v + 1]) => ListAt(Behind(pos), Len(entry.list)) = entry.list
        BY <1>2, <2>1, <2>2, <2>3, <3>3, <4>1, StoredRead
      <4> HIDE DEF pos, v, entry
      <4>3. GoodAt(Behind(pos)) => s = Len(entry.list) /\ behind = start[v + 1]
        BY <4>2 DEF behind
      <4>4. CASE GoodAt(behind)
        <5>1. GoodAt(Behind(pos))
          BY <1>7, <1>10, <4>4 DEF GoodAt
        <5>2. behind = start[v + 1] /\ s = Len(entry.list)
          BY <4>3, <5>1
        <5>3. index'[v].trees = entry.trees /\ index'[v].list = entry.list
          BY <1>9, <4>2, <4>4, <5>1, <5>2
        <5>4. ASSUME NEW w \in 1..v
              PROVE  /\ index'[w].trees = stored.entries[w].trees
                     /\ index'[w].list = stored.entries[w].list
          <6>1. CASE w = v
            BY <5>3, <6>1 DEF entry
          <6>2. CASE w # v
            <7>1. w \in 1..(v - 1) /\ w \in 1..num_v
              BY <1>2, <1>3, <6>2 DEF v
            <7> QED BY <1>9, <3>3, <6>2, <7>1
          <6> QED BY <6>1, <6>2
        <5>5. stream'.pos = start[call'.v]
          BY <1>4, <1>6, <5>2
        <5>6. num_v' = Len(stored'.entries)
          BY <1>5, <1>9, <3>3
        <5> QED BY <1>4, <1>5, <1>11, <4>4, <5>4, <5>5, <5>6 DEF ReadTo
      <4>5. CASE ~GoodAt(behind)
        <5>1. ASSUME stored.whole PROVE FALSE
          <6>1. GoodAt(start[v + 1])
            BY <4>2, <5>1
          <6>2. GoodAt(Behind(pos))
            BY <1>7, <1>10, <4>2, <6>1 DEF GoodAt
          <6> QED BY <4>3, <4>5, <6>1, <6>2
        <5> QED BY <1>5, <1>13, <4>5, <5>1 DEF ReadTo
      <4> QED BY <4>4, <4>5
    <3> QED BY <3>1, <3>2, <3>3 DEF ReadTo
  <2>4. FileAt(start)'
    BY <1>5, <2>2, <2>3 DEF FileAt
  <2> QED BY <1>5, <2>1, <2>4 DEF TripInv, NarrowFile
<1>19. LoadedIsStored' /\ NarrowStoredLoads'
  BY <1>5 DEF LoadedIsStored, NarrowStoredLoads, StoredLoads
<1> QED BY <1>5, <1>6, <1>15, <1>16, <1>17, <1>18, <1>19 DEF TripInv

\* A load that is refused: a whole file is only refused for want of memory.
LEMMA TripRefused ==
    ASSUME FileInv, FileInv', TripInv, LoadFresh', LoadRefused
    PROVE  TripInv'
<1>1. /\ call.op = "load" /\ call' = Idle /\ ret'.op = "load" /\ ret'.ok = FALSE
      /\ UNCHANGED <<build, objectVars, fileVars, stream>> /\ at = Null /\ num_v = 0
  BY DEF LoadRefused, Returns, TripInv, LoadFresh
<1>2. /\ num_v' = num_v /\ index' = index /\ file' = file /\ stored' = stored /\ build' = build
      /\ stream' = stream /\ call'.op # "load"
  BY <1>1 DEF objectVars, fileVars, Idle
<1>3. stored'.build \in Builds /\ WideFile' /\ NarrowFile'
  BY <1>1, <1>2, FileLeft
<1>4. Counted'
  BY <1>1, <1>2 DEF TripInv, Counted
<1>5. Sound'
  <2>1. DOMAIN index' = 1..0
    BY <1>1, <1>2 DEF FileInv, IndexFileTypeOK
  <2> DEFINE e == Contents'
  <2>2. e = [v \in 1..0 |-> e[v]]
    BY <2>1 DEF Contents
  <2> HIDE DEF e
  <2>3. Complete(e)
    BY <2>2, EmptyComplete, 0 \in Nat
  <2> QED BY <2>3 DEF Sound, e
<1>6. LoadedIsStored'
  BY <1>1 DEF LoadedIsStored
<1>7. NarrowStoredLoads'
  <2>1. SUFFICES ASSUME build = "narrow", stored.whole, stored.build = build, ~stream.breaks,
                        ~ret'.starved
                 PROVE  FALSE
    BY <1>2 DEF NarrowStoredLoads, StoredLoads
  <2>2. PICK start : FileAt(start)
    BY <2>1 DEF TripInv, NarrowFile
  <2> DEFINE m == Len(stored.entries)
  <2>3. /\ Len(file) = start[m + 1] /\ Starts(start, stored.entries) /\ start[1] = Full
        /\ m \in Nat /\ Complete(stored.entries) /\ 1 \in 1..(m + 1)
    BY <2>1, <2>2 DEF FileAt, Starts, TripInv, NarrowFile
  <2>4. start[1] <= start[m + 1]
    BY ONLY <2>3, StartsGrow
  <2>5. GoodAt(2 * CountRead)
    BY <1>1, <2>3, <2>4, LoadedFile, Widths DEF GoodAt
  <2>6. Count(0) = {m} /\ Count(CountRead) = {K}
    BY <1>1, <2>1, <2>5, NarrowHeader
  <2>7. m >= 0 /\ ~BadAt(2 * CountRead)
    BY <2>1, <2>3 DEF BadAt
  <2> HIDE DEF m
  <2>8. ret' = [op |-> "load", ok |-> FALSE, starved |-> m >= 0]
    BY <2>6, <2>7 DEF LoadRefused, Returns
  <2> QED BY <2>1, <2>7, <2>8
<1> QED BY <1>2, <1>3, <1>4, <1>5, <1>6, <1>7 DEF TripInv

\* A load given up at an entry.
LEMMA TripEntryFails ==
    ASSUME FileInv, FileInv', TripInv, LoadFresh', LoadEntryFails
    PROVE  TripInv'
<1>1. /\ call.op = "load" /\ call.v \in 1..num_v /\ call' = Idle
      /\ ret'.op = "load" /\ ret'.ok = FALSE
      /\ UNCHANGED <<build, fileVars, stream>> /\ num_v' = 0 /\ index' = <<>>
  BY DEF LoadEntryFails, Returns, Free
<1>2. /\ file' = file /\ stored' = stored /\ build' = build /\ stream' = stream
      /\ call'.op # "load"
  BY <1>1 DEF fileVars, Idle
<1>3. stored'.build \in Builds /\ WideFile' /\ NarrowFile'
  BY <1>1, <1>2, FileLeft
<1>4. Counted' /\ Sound'
  BY <1>1, FreedCounted
<1>5. LoadedIsStored'
  BY <1>1 DEF LoadedIsStored
<1>6. NarrowStoredLoads'
  <2>1. SUFFICES ASSUME build = "narrow", stored.whole, stored.build = build, ~stream.breaks,
                        ~ret'.starved
                 PROVE  FALSE
    BY <1>2 DEF NarrowStoredLoads, StoredLoads
  <2>2. PICK start : FileAt(start)
    BY <2>1 DEF TripInv, NarrowFile
  <2>3. call.v > 0 /\ num_v \in Nat
    BY <1>1 DEF FileInv, IndexFileTypeOK
  <2>4. GoodAt(stream.pos) /\ num_v = Len(stored.entries) /\ stream.pos = start[call.v]
    BY <1>1, <2>1, <2>2, <2>3 DEF FileAt, ReadTo
  <2>5. call.v \in 1..Len(stored.entries)
    BY <1>1, <2>4
  <2>6. /\ start[call.v + 1] \in Nat /\ GoodAt(start[call.v + 1])
        /\ Behind(stream.pos) <= start[call.v + 1]
    BY <1>1, <2>1, <2>2, <2>4, <2>5, StoredRead
  <2>7. GoodAt(Behind(stream.pos))
    <3>1. Behind(stream.pos) \in Nat /\ Len(stream.digits) \in Nat
      BY <1>1, LoadedFile, BehindNat, 0 \in Nat
    <3> QED BY <2>6, <3>1 DEF GoodAt
  <2>8. /\ SizeAt(stream.pos) = {Len(stored.entries[call.v].list)}
        /\ Len(stored.entries[call.v].list) \in Nat
    BY <1>1, <2>1, <2>2, <2>4, <2>5, <2>7, StoredRead
  <2>9. ret'.starved
    <3>1. PICK s \in SizeAt(stream.pos) :
                  Returns("load", FALSE, s >= 0 /\ ~BadAt(Behind(stream.pos)))
      BY DEF LoadEntryFails
    <3>2. s >= 0 /\ ~BadAt(Behind(stream.pos))
      BY <2>7, <2>8 DEF BadAt
    <3> QED BY <3>1, <3>2 DEF Returns
  <2> QED BY <2>1, <2>9
<1> QED BY <1>2, <1>3, <1>4, <1>5, <1>6 DEF TripInv

\* An index of which the stream did not have all digits cannot be stored.
LEMMA OverrunUnsound ==
    ASSUME Overrun, call.v = num_v + 1, num_v \in Nat, DOMAIN index = 1..num_v
    PROVE  Complete(Contents) \/ ~Storable
<1>1. CASE call.v = 1
  <2> DEFINE e == Contents
  <2>1. e = [v \in 1..num_v |-> e[v]] /\ num_v = 0
    BY <1>1 DEF Contents
  <2> HIDE DEF e
  <2>2. Complete(e)
    BY <2>1, EmptyComplete
  <2> QED BY <2>2 DEF e
<1>2. ASSUME NEW v \in 1..(call.v - 1), Lost(index[v].list) PROVE ~Storable
  <2>1. v \in 1..num_v
    BY <1>2
  <2> DEFINE list == index[v].list
  <2>2. ASSUME Len(list) \in Nat \ {0}, list[Len(list)][2] = Uninit PROVE ~Storable
    <3> HIDE DEF list
    <3>1. Len(list) \in 1..Len(list)
      BY <2>2
    <3>2. Uninit \in {list[Len(list)][1], list[Len(list)][2]}
      BY <2>2
    <3> QED BY <2>1, <3>1, <3>2 DEF Storable, list
  <2> QED BY <1>2, <2>1, <2>2 DEF Lost, Storable
<1> QED BY <1>1, <1>2 DEF Overrun

\* The end of a load.
LEMMA TripEnd ==
    ASSUME FileInv, FileInv', TripInv, LoadFresh', LoadEnd
    PROVE  TripInv'
<1>1. /\ call.op = "load" /\ call.v = num_v + 1 /\ call' = Idle
      /\ ret' = [op |-> "load", ok |-> GoodAt(stream.pos), starved |-> FALSE]
      /\ UNCHANGED <<build, objectVars, fileVars, stream>>
  BY DEF LoadEnd, Returns
<1>2. /\ num_v' = num_v /\ at' = at /\ index' = index /\ file' = file /\ stored' = stored
      /\ build' = build /\ stream' = stream /\ call'.op # "load"
  BY <1>1 DEF objectVars, fileVars, Idle
<1>3. /\ num_v \in Nat /\ call.v > 0 /\ (num_v + 1) - 1 = num_v /\ DOMAIN index = 1..num_v
      /\ stored.build = "wide" \/ stored.build = "narrow"
  <2>1. num_v \in Nat
    BY DEF FileInv, IndexFileTypeOK
  <2>2. call.v > 0 /\ (num_v + 1) - 1 = num_v
    BY <1>1, <2>1
  <2>3. call # Idle /\ at # Null
    BY <1>1, <2>2 DEF FileInv, EntriesPresent, Idle
  <2> QED BY <1>1, <2>1, <2>2, <2>3, LoadedFile DEF FileInv, IndexFileTypeOK
<1>4. stored'.build \in Builds /\ WideFile' /\ NarrowFile'
  BY <1>1, <1>2, FileLeft
<1>5. Counted'
  BY <1>1, <1>2 DEF TripInv, Counted
<1>6. Contents' = Contents
  BY <1>2 DEF Contents
<1>7. ASSUME stored.build = "wide" PROVE Overrun
  BY <1>1, <1>3, <1>7 DEF TripInv, WideFile
<1>8. ASSUME stored.build = "narrow", build = "narrow"
      PROVE  \/ GoodAt(stream.pos) /\ Contents = stored.entries /\ Complete(Contents)
             \/ ~stored.whole /\ Overrun
  <2>1. PICK start : FileAt(start)
    BY <1>8 DEF TripInv, NarrowFile
  <2>2. ReadTo(start)
    BY <1>1, <1>3, <1>8, <2>1 DEF FileAt
  <2> DEFINE e == stored.entries
  <2>3. ASSUME num_v = Len(e),
               \A v \in 1..num_v : index[v].trees = e[v].trees /\ index[v].list = e[v].list
        PROVE  Contents = e
    <3>1. e = [v \in 1..num_v |-> [trees |-> e[v].trees, list |-> e[v].list]]
      BY <1>8, <2>3 DEF TripInv, NarrowFile
    <3>2. Contents = [v \in 1..num_v |-> [trees |-> index[v].trees, list |-> index[v].list]]
      BY <1>3 DEF Contents
    <3>3. ASSUME NEW v \in 1..num_v
          PROVE  [trees |-> index[v].trees, list |-> index[v].list]
                     = [trees |-> e[v].trees, list |-> e[v].list]
      BY <2>3
    <3> HIDE DEF e
    <3>4. [v \in 1..num_v |-> [trees |-> index[v].trees, list |-> index[v].list]]
            = [v \in 1..num_v |-> [trees |-> e[v].trees, list |-> e[v].list]]
      BY ONLY <3>3
    <3> QED BY ONLY <3>1, <3>2, <3>4
  <2>4. Complete(e)
    BY <1>8 DEF TripInv, NarrowFile
  <2> QED BY <1>1, <1>3, <2>2, <2>3, <2>4 DEF ReadTo
<1>9. Sound'
  <2>1. SUFFICES ASSUME build = "narrow" PROVE Complete(Contents) \/ ~Storable
    BY <1>2, <1>6 DEF Sound, Storable
  <2>2. Overrun => Complete(Contents) \/ ~Storable
    BY <1>1, <1>3, OverrunUnsound
  <2> QED BY <1>3, <1>7, <1>8, <2>1, <2>2
<1>10. LoadedIsStored'
  <2>1. SUFFICES ASSUME GoodAt(stream.pos), stored.build = build PROVE Contents = stored.entries
    BY <1>1, <1>2, <1>6 DEF LoadedIsStored
  <2>2. ~Overrun
    BY <2>1 DEF Overrun
  <2> QED BY <1>3, <1>7, <1>8, <2>1, <2>2
<1>11. NarrowStoredLoads'
  <2>1. SUFFICES ASSUME build = "narrow", stored.whole, stored.build = build
                 PROVE  GoodAt(stream.pos)
    BY <1>1, <1>2 DEF NarrowStoredLoads, StoredLoads
  <2> QED BY <1>8, <2>1
<1> QED BY <1>2, <1>4, <1>5, <1>9, <1>10, <1>11 DEF TripInv

\* The invariant holds at first,
LEMMA TripInit == Init => TripInv
<1> SUFFICES ASSUME Init PROVE TripInv
  OBVIOUS
<1>1. /\ build \in Builds /\ num_v = 0 /\ index = <<>> /\ at = Null /\ call = Idle
      /\ ret = NotReturned /\ file = <<>>
      /\ stored = [entries |-> <<>>, build |-> build, whole |-> FALSE]
  BY DEF Init
<1>2. DOMAIN index = 1..0 /\ DOMAIN index = {} /\ Len(<<>>) = 0
  BY <1>1
<1>3. Complete(Contents)
  <2> DEFINE e == Contents
  <2>1. e = [v \in 1..0 |-> e[v]]
    BY <1>2 DEF Contents
  <2> HIDE DEF e
  <2>2. Complete(e)
    BY <2>1, EmptyComplete, 0 \in Nat
  <2> QED BY <2>2 DEF e
<1>4. Counted /\ Sound
  BY <1>1, <1>2, <1>3, SmallCounts DEF Counted, Sound
<1>5. Listed(<<>>) /\ \A pos \in Nat : \A x : \A w \in Nat : Holds(<<>>, pos, x, w)
  <2>1. Listed(<<>>)
    <3>1. <<>> \in Seq({})
      OBVIOUS
    <3> QED BY <3>1 DEF Listed
  <2>2. ASSUME NEW pos \in Nat, NEW w \in Nat, NEW i \in 1..w PROVE ~(pos + i <= Len(<<>>))
    BY <1>2
  <2> QED BY <2>1, <2>2 DEF Holds
<1>6. WideFile
  <2>1. Holds(<<>>, 0, 0, Full)
    BY <1>5, Widths, 0 \in Nat
  <2> QED BY <1>1, <1>5, <2>1, SmallCounts DEF WideFile, Idle
<1>7. NarrowFile
  <2> DEFINE start == [v \in 1..1 |-> Full]
  <2>1. Starts(start, <<>>) /\ start[0 + 1] = Full
    BY <1>2, Widths DEF Starts
  <2> HIDE DEF start
  <2>2. Holds(<<>>, 0, 0, Half) /\ Holds(<<>>, Half, K, Half)
    BY <1>5, Widths, 0 \in Nat
  <2>3. Len(<<>>) <= start[Len(<<>>) + 1]
    BY <1>2, <2>1, Widths
  <2>4. \A v \in 1..Len(<<>>) : FALSE
    BY <1>2
  <2>5. Says(<<>>, <<>>, start)
    BY <1>2, <1>5, <2>2, <2>3, <2>4 DEF Says
  <2>6. FileAt(start)
    BY <1>1, <2>1, <2>5 DEF FileAt, Idle
  <2>7. Complete(<<>>)
    <3>1. <<>> = [v \in 1..0 |-> <<>>[v]]
      OBVIOUS
    <3> QED BY <3>1, EmptyComplete, 0 \in Nat
  <2>8. <<>> = [v \in 1..0 |-> [trees |-> <<>>[v].trees, list |-> <<>>[v].list]]
    OBVIOUS
  <2> QED BY <1>1, <1>2, <2>6, <2>7, <2>8 DEF NarrowFile
<1> QED BY <1>1, <1>4, <1>6, <1>7
      DEF TripInv, LoadFresh, LoadedIsStored, NarrowStoredLoads, StoredLoads, Idle, NotReturned

\* and every step preserves it.
LEMMA TripStep ==
    ASSUME K > 0, FileInv, TripInv, FailedLoadEmpty, [Next]_vars
    PROVE  TripInv'
<1>1. FileInv' /\ LoadFresh'
  BY FileStep, RefusedStep DEF TripInv
<1>2. ASSUME \/ \E entries \in Indexes :
                  \/ \E op \in Constructions :
                        ConstructBegin(op, entries) \/ ConstructStarved(op, entries)
                  \/ ConstructThrows(entries)
             \/ CallFree
             \/ LoadBegin
             \/ Restart
      PROVE  TripInv'
  BY <1>1, <1>2, TripBegin
<1>3. CASE Store
  BY <1>1, <1>3, TripStore
<1>4. CASE Unread \/ UNCHANGED vars
  BY <1>1, <1>4, TripStill
<1>5. CASE Step
  BY <1>1, <1>5, TripConstruct, TripRefused, TripHeader, TripEntry, TripEntryFails, TripEnd DEF Step
<1> QED BY <1>2, <1>3, <1>4, <1>5 DEF Next

\* Whatever is stored, cut, killed and loaded.
LEMMA TripInvariant ==
    ASSUME K > 0
    PROVE  Spec => []TripInv
<1>1. Init => FileInv /\ TripInv /\ FailedLoadEmpty
  BY FileInit, TripInit DEF Init, FailedLoadEmpty, NotReturned
<1>2. FileInv /\ TripInv /\ FailedLoadEmpty /\ [Next]_vars
        => FileInv' /\ TripInv' /\ FailedLoadEmpty'
  BY FileStep, TripStep, RefusedStep DEF TripInv
<1> QED BY <1>1, <1>2, PTL DEF Spec

\* When LoadIndex returns true, the object says what the last StoreIndex was called on, if
\* both programs have the same header and there are trees: however the file was cut, the
\* reads failed, or processes died in between.
THEOREM LoadsWhatWasStored ==
    ASSUME K > 0
    PROVE  Spec => []LoadedIsStored
<1>1. TripInv => LoadedIsStored
    BY DEF TripInv
<1> QED
    BY <1>1, TripInvariant, PTL

\* In programs compiled with a narrow header (.bak.h or .int.h), LoadIndex returns true for a file
\* that is whole, unless a read fails or there is no memory.
THEOREM NarrowRoundTrip ==
    ASSUME K > 0
    PROVE  Spec => []NarrowStoredLoads
<1>1. TripInv => NarrowStoredLoads
    BY DEF TripInv
<1> QED
    BY <1>1, TripInvariant, PTL
=============================================================================
