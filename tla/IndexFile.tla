----------------------------- MODULE IndexFile -----------------------------
(***************************************************************************)
(* The life of a PrunedLandmarkLabeling object around its index: calls     *)
(* that construct, free, store and load it, and the file that outlives the *)
(* process.  What an index says is given (Indexes); modules BitParallel    *)
(* and PrunedLabeling compute it.                                          *)
(*                                                                         *)
(* The integers of the file are sequences of digits, because StoreIndex    *)
(* and LoadIndex do not always agree on how wide an integer is.  The       *)
(* repository has four headers of the class: the one in use and            *)
(* pruned_landmark_labeling.uint64_t.h ("wide") number vertices with 64    *)
(* bits, those named .bak.h and .int.h ("narrow") with 32.                 *)
(*                                                                         *)
(* A store may reach the file in part only (the process dies, or the disk  *)
(* fills up), and a read may fail at any place.  memalign may return NULL, *)
(* and a vector or the ranking of the vertices may throw.                  *)
(***************************************************************************)
EXTENDS Integers, FiniteSets, SequencesExt

CONSTANTS
    K,        \* kNumBitParallelRoots
    Base,     \* the values of one digit, an 8-bit integer
    Half,     \* the digits of a 32-bit integer
    Builds,   \* the headers programs are compiled with
    Indexes,  \* complete indexes, each a sequence with a record for every vertex
    Garbage,  \* the values an integer may have that was never read
    Addr,     \* the addresses memalign returns
    Null,     \* the null pointer
    Uninit    \* a field of the index that was never read

ASSUME FileAssumption ==
    /\ K \in Nat
    /\ Base \in Nat \ {0, 1} /\ Half \in Nat \ {0}
    /\ Builds \subseteq {"wide", "narrow"}
    /\ Null \notin Addr
    /\ \A entries \in Indexes :
        /\ Len(entries) \in Nat
        /\ entries = [v \in 1..Len(entries) |->
                        [trees |-> entries[v].trees, list |-> entries[v].list]]

VARIABLES
    build,    \* the header the running program was compiled with
    num_v,    \* num_v_
    at,       \* the address index_ points to
    index,    \* the entries there, one for every vertex
    heap,     \* the blocks memalign has returned and no one has freed
    call,     \* the call in progress
    ret,      \* what the last call returned
    given,    \* what the index under construction is to say
    file,     \* the index file
    stored,   \* what was stored last: what the index said, by which header, and
              \* whether all of it reached the file
    stream    \* the file as LoadIndex reads it

objectVars == <<num_v, at, index, heap>>
fileVars == <<file, stored>>
vars == <<build, objectVars, call, ret, given, fileVars, stream>>

-----------------------------------------------------------------------------
(***************************************************************************)
(* Integers in the file, least significant digit first.                    *)
(***************************************************************************)
Full == 2 * Half

\* What the digit behind n others is worth: Base^n.
Worth[n \in Nat] == IF n = 0 THEN 1 ELSE Base * Worth[n - 1]

Digits(n, width) == [i \in 1..width |-> (n \div Worth[i - 1]) % Base]

Number(digits) ==
    LET number[i \in 0..Len(digits)] ==
            IF i = 0 THEN 0 ELSE number[i - 1] + Worth[i - 1] * digits[i]
    IN  number[Len(digits)]

\* The values of int32_t, and the indexes whose every number fits its field in the file:
\* the counts are in int32_t, and the sentinel of a list is its last label and no other.
Int32 == -(Worth[Half] \div 2)..(Worth[Half] \div 2 - 1)

Complete(entries) ==
    /\ Len(entries) \in Int32
    /\ \A v \in 1..Len(entries) :
        LET Mask == 0..(Worth[Full] - 1)
            list == entries[v].list
        IN  /\ entries[v].trees \in [1..K -> (0..(Base - 1)) \X Mask \X Mask]
            /\ list \in Seq((0..(Worth[Half] - 1)) \X (0..(Base - 1)))
            /\ Len(list) \in Int32 \ {0}
            /\ \A i \in 1..Len(list) : list[i][1] = Len(entries) <=> i = Len(list)

\* An integer never read has some value of its type; what was not read is not an integer.
ASSUME WidthAssumption ==
    /\ K \in Int32 /\ Garbage \subseteq Int32
    /\ \A entries \in Indexes : Complete(entries)
    /\ Uninit \notin Int

\* The width of the two counts in the header, and of a hub, as written and as read: the
\* wide headers write 64-bit counts and read 32-bit ones, and the hubs the other way round.
CountWritten == IF build = "wide" THEN Full ELSE Half
CountRead == Half
HubWritten == Half
MutHubRead == Full
HubRead == IF build = "wide" THEN Full ELSE Half

(***************************************************************************)
(* What StoreIndex writes.  A list is written up to its first sentinel,    *)
(* the hub num_v.                                                          *)
(***************************************************************************)
SentinelAt(list) == SelectInSeq(list, LAMBDA label : label[1] = num_v)

EntryDigits(entry) ==
    LET tree(t) == Digits(t[1], 1) \o Digits(t[2], Full) \o Digits(t[3], Full)
        label(l) == Digits(l[1], HubWritten) \o Digits(l[2], 1)
        s == SentinelAt(entry.list)
    IN  FlattenSeq([i \in 1..K |-> tree(entry.trees[i])])
        \o Digits(s, Half)
        \o FlattenSeq([i \in 1..s |-> label(entry.list[i])])

FileOf(entries) ==
    Digits(num_v, CountWritten) \o Digits(K, CountWritten)
        \o FlattenSeq([v \in 1..num_v |-> EntryDigits(entries[v])])

(***************************************************************************)
(* What LoadIndex reads.  Every read advances the position, also those     *)
(* that fail, so that all reads after a failed one fail too.  At the end   *)
(* of the file a read sets eof and fail; bad is set only by an error of    *)
(* the device, which the stream then "breaks" with.                        *)
(***************************************************************************)
Field(pos, width) ==
    IF pos + width <= Len(stream.digits)
    THEN Number(SubSeq(stream.digits, pos + 1, pos + width))
    ELSE Uninit

Signed(n, width) ==
    IF n # Uninit /\ n >= Worth[width] \div 2 THEN n - Worth[width] ELSE n

\* The values of an int32_t that is used whether or not its read succeeded.
Count(pos) ==
    LET n == Signed(Field(pos, CountRead), CountRead)
    IN  IF n = Uninit THEN Garbage ELSE {n}

GoodAt(pos) == pos <= Len(stream.digits)
BadAt(pos) == ~GoodAt(pos) /\ stream.breaks

TreeDigits == 1 + 2 * Full
LabelDigits == HubRead + 1

TreesAt(pos) ==
    [i \in 1..K |->
        LET p == pos + (i - 1) * TreeDigits
        IN  <<Field(p, 1), Field(p + 1, Full), Field(p + 1 + Full, Full)>>]

ListAt(pos, s) ==
    [i \in 1..s |->
        LET p == pos + (i - 1) * LabelDigits
        IN  <<Field(p, HubRead), Field(p + HubRead, 1)>>]

-----------------------------------------------------------------------------
(***************************************************************************)
(* The object.                                                             *)
(***************************************************************************)
BlankEntry ==
    [trees |-> [i \in 1..K |-> <<Uninit, Uninit, Uninit>>], list |-> <<>>, blocks |-> {}]

\* The blocks of a set of entries.
Blocks(V) == UNION {index[v].blocks : v \in V}

\* What is allocated once Free has released the lists of num_v_ entries, and them.
MutKept == heap \ (Blocks(1..(num_v - 1)) \cup {at})
Kept == heap \ (Blocks(1..num_v) \cup {at})

Unopened == [digits |-> <<>>, pos |-> 0, breaks |-> FALSE]
Idle == [op |-> "none", v |-> 0]
NotReturned == [op |-> "none", ok |-> FALSE, starved |-> FALSE]

\* The call in progress returns; starved says that memalign has failed.
Returns(op, ok, starved) ==
    /\ call' = Idle
    /\ ret' = [op |-> op, ok |-> ok, starved |-> starved]

Calls(op, v) ==
    /\ call' = [op |-> op, v |-> v]
    /\ ret' = NotReturned

MutFree ==
    /\ heap' = Kept
    /\ at' = Null /\ index' = <<>>
    /\ UNCHANGED num_v

Free ==
    /\ heap' = Kept
    /\ at' = Null /\ index' = <<>> /\ num_v' = 0

\* Free would read an entry of the null pointer, and end the process.
FreeFaults == at = Null /\ num_v > 0

\* The object is freed, and n new entries are allocated.  Addresses have no meaning:
\* memalign returns whichever are vacant.
MutReplaceEntries(n) ==
    /\ Kept # Addr
    /\ at' = CHOOSE a \in Addr : a \notin Kept
    /\ heap' = Kept \cup {at'}
    /\ index' = [v \in 1..n |-> BlankEntry]
    /\ num_v' = 0

ReplaceEntries(n) ==
    /\ Kept # Addr
    /\ at' = CHOOSE a \in Addr : a \notin Kept
    /\ heap' = Kept \cup {at'}
    /\ index' = [v \in 1..n |-> BlankEntry]
    /\ num_v' = n

\* The two arrays of entry v are allocated and filled.
FillEntry(v, trees, list) ==
    LET vacant == {A \in SUBSET (Addr \ heap) : Cardinality(A) = 2}
        blocks == CHOOSE A \in vacant : TRUE
    IN  /\ vacant # {}
        /\ heap' = heap \cup blocks
        /\ index' = [index EXCEPT ![v] = [trees |-> trees, list |-> list, blocks |-> blocks]]
        /\ UNCHANGED <<num_v, at>>

Init ==
    /\ build \in Builds
    /\ num_v = 0 /\ at = Null /\ index = <<>> /\ heap = {}
    /\ call = Idle /\ ret = NotReturned
    /\ given = <<>>
    /\ file = <<>> /\ stored = [entries |-> <<>>, build |-> build, whole |-> FALSE]
    /\ stream = Unopened

\* The owner of the object calls one of its methods.
Callable == call = Idle /\ ~FreeFaults

(***************************************************************************)
(* ConstructIndex, from a vector of edges or a Graph ("construct") or from *)
(* a stream ("construct_stream", which ignores the result of the           *)
(* construction).  num_v_ is the caller's V, set before anything is        *)
(* allocated.                                                              *)
(***************************************************************************)
Constructions == {"construct", "construct_stream"}

ConstructBegin(op, entries) ==
    /\ Callable
    /\ given' = entries
    /\ ReplaceEntries(Len(entries))
    /\ Calls(op, 0)
    /\ stream' = Unopened
    /\ UNCHANGED <<build, fileVars>>

\* The entries cannot be allocated.
ConstructStarved(op, entries) ==
    /\ Callable
    /\ given' = entries
    /\ Free
    /\ Returns(op, op = "construct_stream", TRUE)
    /\ stream' = Unopened
    /\ UNCHANGED <<build, fileVars>>

\* A vector of V elements cannot be allocated: std::bad_alloc.
ConstructThrows(entries) ==
    /\ Callable /\ entries # <<>>
    /\ given' = entries
    /\ heap' = Kept
    /\ at' = Null /\ index' = <<>>
    /\ num_v' = Len(entries)
    /\ Returns("threw", FALSE, FALSE)
    /\ stream' = Unopened
    /\ UNCHANGED <<build, fileVars>>

\* The stream of edges fails, or the file of LoadIndex cannot be opened, before
\* anything is done.
Unread ==
    /\ Callable
    /\ Returns("unread", FALSE, FALSE)
    /\ given' = <<>> /\ stream' = Unopened
    /\ UNCHANGED <<build, objectVars, fileVars>>

\* The vertices are ordered and the labels computed; the trees are in the index.
ConstructSearch ==
    /\ call.op \in Constructions /\ call.v = 0
    /\ index' = [v \in 1..num_v |-> [trees |-> given[v].trees, list |-> index[v].list,
                                     blocks |-> index[v].blocks]]
    /\ call' = [call EXCEPT !.v = 1]
    /\ UNCHANGED <<build, num_v, at, heap, ret, given, fileVars, stream>>

\* A vector cannot be allocated, or an interrupt ends the ranking.
ConstructInterrupted ==
    /\ call.op \in Constructions /\ call.v = 0
    /\ Returns("threw", FALSE, FALSE)
    /\ UNCHANGED <<build, objectVars, given, fileVars, stream>>

ConstructCopy ==
    /\ call.op \in Constructions /\ call.v \in 1..num_v
    /\ FillEntry(call.v, index[call.v].trees, given[call.v].list)
    /\ call' = [call EXCEPT !.v = @ + 1]
    /\ UNCHANGED <<build, ret, given, fileVars, stream>>

MutConstructCopyStarved ==
    /\ call.op \in Constructions /\ call.v \in 1..num_v
    /\ Returns(call.op, call.op = "construct_stream", TRUE)
    /\ UNCHANGED <<build, objectVars, given, fileVars, stream>>

ConstructCopyStarved ==
    /\ call.op \in Constructions /\ call.v \in 1..num_v
    /\ Free
    /\ Returns(call.op, call.op = "construct_stream", TRUE)
    /\ UNCHANGED <<build, given, fileVars, stream>>

ConstructEnd ==
    /\ call.op \in Constructions /\ call.v = num_v + 1
    /\ Returns(call.op, TRUE, FALSE)
    /\ UNCHANGED <<build, objectVars, given, fileVars, stream>>

(***************************************************************************)
(* StoreIndex, of an object whose lists all end in a sentinel: from other  *)
(* lists it would read on behind their end.  The file may receive a prefix *)
(* only, and StoreIndex knows of that only if the stream has failed before *)
(* it returns; what the stream still buffers is written later.             *)
(***************************************************************************)
Storable ==
    \A v \in 1..num_v :
        /\ index[v].list # <<>>
        /\ \E i \in 1..Len(index[v].list) : index[v].list[i][1] = num_v
        /\ \A i \in 1..Len(index[v].list) : Uninit \notin {index[v].list[i][1], index[v].list[i][2]}
        /\ \A i \in 1..K : Uninit \notin {index[v].trees[i][j] : j \in 1..3}

Contents == [v \in DOMAIN index |-> [trees |-> index[v].trees, list |-> index[v].list]]

Store ==
    /\ Callable /\ Storable
    /\ \E n \in 0..Len(FileOf(index)) : \E ok \in BOOLEAN :
        /\ ~ok => n < Len(FileOf(index))
        /\ file' = SubSeq(FileOf(index), 1, n)
        /\ stored' = [entries |-> Contents, build |-> build,
                      whole |-> n = Len(FileOf(index))]
        /\ Returns("store", ok, FALSE)
    /\ given' = <<>> /\ stream' = Unopened
    /\ UNCHANGED <<build, objectVars>>

\* The owner frees the object.
CallFree ==
    /\ Callable
    /\ Free
    /\ Returns("free", TRUE, FALSE)
    /\ given' = <<>> /\ stream' = Unopened
    /\ UNCHANGED <<build, fileVars>>

(***************************************************************************)
(* LoadIndex.  The counts are used as soon as the stream is not bad, so at *)
(* the end of a file they have whatever value the memory had.  Where the    *)
(* file ends, the device may break instead.                                *)
(***************************************************************************)
LoadBegin ==
    /\ Callable
    /\ Free
    /\ \E breaks \in BOOLEAN : stream' = [digits |-> file, pos |-> 0, breaks |-> breaks]
    /\ Calls("load", 0)
    /\ given' = <<>>
    /\ UNCHANGED <<build, fileVars>>

\* The header names another number of trees, cannot be read, or announces more
\* entries than there is memory for.
LoadRefused ==
    /\ call = [op |-> "load", v |-> 0]
    /\ \E n \in Count(0), k \in Count(CountRead) :
        \/ (BadAt(2 * CountRead) \/ k # K) /\ Returns("load", FALSE, FALSE)
        \/ ~BadAt(2 * CountRead) /\ k = K /\ Returns("load", FALSE, n >= 0)
    /\ UNCHANGED <<build, objectVars, given, fileVars, stream>>

LoadHeader ==
    /\ call = [op |-> "load", v |-> 0]
    /\ ~BadAt(2 * CountRead)
    /\ K \in Count(CountRead)
    /\ \E n \in Count(0) \cap Nat : ReplaceEntries(n)
    /\ stream' = [stream EXCEPT !.pos = 2 * CountRead]
    /\ call' = [call EXCEPT !.v = 1]
    /\ UNCHANGED <<build, ret, given, fileVars>>

\* The count of labels of the entry in turn, and the place behind it.
SizeAt(pos) == Count(pos + K * TreeDigits)
Behind(pos) == pos + K * TreeDigits + CountRead

LoadEntry ==
    /\ call.op = "load" /\ call.v \in 1..num_v
    /\ ~BadAt(Behind(stream.pos))
    /\ \E s \in SizeAt(stream.pos) \cap Nat :
        /\ FillEntry(call.v, TreesAt(stream.pos), ListAt(Behind(stream.pos), s))
        /\ stream' = [stream EXCEPT !.pos = Behind(@) + s * LabelDigits]
    /\ call' = [call EXCEPT !.v = @ + 1]
    /\ UNCHANGED <<build, ret, given, fileVars>>

\* The stream is bad, or there is no memory for the labels.
MutLoadEntryFails ==
    /\ call.op = "load" /\ call.v \in 1..num_v
    /\ \E s \in SizeAt(stream.pos) :
        Returns("load", FALSE, s >= 0 /\ ~BadAt(Behind(stream.pos)))
    /\ UNCHANGED <<build, objectVars, given, fileVars, stream>>

LoadEntryFails ==
    /\ call.op = "load" /\ call.v \in 1..num_v
    /\ \E s \in SizeAt(stream.pos) :
        Returns("load", FALSE, s >= 0 /\ ~BadAt(Behind(stream.pos)))
    /\ Free
    /\ UNCHANGED <<build, given, fileVars, stream>>

MutLoadEnd ==
    /\ call.op = "load" /\ call.v = num_v + 1
    /\ Returns("load", ~BadAt(stream.pos), FALSE)
    /\ UNCHANGED <<build, objectVars, given, fileVars, stream>>

LoadEnd ==
    /\ call.op = "load" /\ call.v = num_v + 1
    /\ Returns("load", GoodAt(stream.pos), FALSE)
    /\ UNCHANGED <<build, objectVars, given, fileVars, stream>>

(***************************************************************************)
(* The process ends or dies, at any place, and one of a program compiled   *)
(* with any of the headers follows.  The file stays.                       *)
(***************************************************************************)
Restart ==
    /\ build' \in Builds
    /\ num_v' = 0 /\ at' = Null /\ index' = <<>> /\ heap' = {}
    /\ call' = Idle /\ ret' = NotReturned
    /\ given' = <<>>
    /\ stream' = Unopened
    /\ UNCHANGED fileVars

\* The steps of a call in progress.
Step ==
    \/ ConstructSearch
    \/ ConstructInterrupted
    \/ ConstructCopy
    \/ ConstructCopyStarved
    \/ ConstructEnd
    \/ LoadRefused
    \/ LoadHeader
    \/ LoadEntry
    \/ LoadEntryFails
    \/ LoadEnd

Next ==
    \/ \E entries \in Indexes :
        \/ \E op \in Constructions :
            ConstructBegin(op, entries) \/ ConstructStarved(op, entries)
        \/ ConstructThrows(entries)
    \/ Unread
    \/ CallFree
    \/ Store
    \/ LoadBegin
    \/ Step
    \/ Restart

\* One thread runs the calls.
Spec == Init /\ [][Next]_vars

-----------------------------------------------------------------------------
\* The variables keep to their types, and the entries have the size num_v_ says.
IndexFileTypeOK ==
    /\ build \in Builds
    /\ num_v \in Nat
    /\ at \in Addr \cup {Null}
    /\ DOMAIN index = IF at = Null THEN {} ELSE 1..num_v
    /\ \A v \in DOMAIN index : index[v].blocks \in SUBSET Addr
    /\ heap \in SUBSET Addr
    /\ call.op \in Constructions \cup {"none", "load"}
    /\ call.v \in 0..(num_v + 1)
    /\ stream.pos \in Nat

\* Whatever calls fail on the way, every block memalign has returned can still be
\* reached from the object, so that Free releases it.
NoLeak == heap = Blocks(DOMAIN index) \cup ({at} \ {Null})

\* num_v_ counts entries that exist: Free faults only if a vector could not be
\* allocated and the caller goes on with the object.
FreeSafe == FreeFaults => ret.op = "threw"

\* ConstructIndex from edges or a Graph returns true with the index and false with an
\* empty object.  The overload for streams returns true either way, but never leaves
\* an index that says something else.
ConstructReturned ==
    /\ ret.op = "construct" => IF ret.ok THEN Contents = given ELSE at = Null /\ num_v = 0
    /\ ret.op = "construct_stream" => Contents = given \/ (at = Null /\ num_v = 0)

\* pruned_landmark_labeling.h says of ConstructIndex: "Returns |true| when successful."
TrueIsSuccess == ret.op \in Constructions /\ ret.ok => Contents = given

\* When LoadIndex returns true, the index says what the one said that was stored,
\* if the program that wrote the file has the same header, and cut files are refused.
LoadedIsStored ==
    ret.op = "load" /\ ret.ok /\ stored.build = build => Contents = stored.entries

\* When LoadIndex returns false, the object is empty, or the stream had failed without
\* LoadIndex noticing before its end: it looks for an error of the device only, and goes
\* on behind the end of the file with the numbers that were in memory.  Then the object
\* keeps an index, of which every entry has its arrays.
FailedLoadEmpty ==
    ret.op = "load" /\ ~ret.ok =>
        \/ at = Null /\ num_v = 0
        \/ ~GoodAt(stream.pos) /\ \A v \in 1..num_v : index[v].blocks # {}

\* pruned_landmark_labeling_test.cc loads what it has stored: "ASSERT_TRUE(
\* pll2.LoadIndex(iss1))".  A file that is whole loads in the program that wrote it,
\* if no read fails and there is enough memory.
StoredLoads ==
    ret.op = "load" /\ stored.whole /\ stored.build = build
            /\ ~stream.breaks /\ ~ret.starved
        => ret.ok

\* The narrow headers keep that promise; the wide ones do not when there are trees.
NarrowStoredLoads == build = "narrow" => StoredLoads
=============================================================================
