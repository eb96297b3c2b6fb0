--------------------------- MODULE ScanQueueProofs ---------------------------
(***************************************************************************)
(* Proofs about ScanQueue, for every finite set of callers and any files,  *)
(* lock structs and limits.                                                *)
(***************************************************************************)
EXTENDS ScanQueue, FiniteSetTheorems, FunctionTheorems, SequenceTheorems, TLAPS

-----------------------------------------------------------------------------
(* Typing *)

(* Taking one element out of a sequence closes the gap (slices.Delete).    *)
LEMMA RemovedProperties ==
    ASSUME NEW S, NEW s \in Seq(S), NEW i \in 1..Len(s)
    PROVE  LET r == SubSeq(s, 1, i - 1) \o SubSeq(s, i + 1, Len(s))
           IN  /\ r \in Seq(S)
               /\ Len(r) = Len(s) - 1
               /\ \A j \in 1..Len(r) : r[j] = IF j < i THEN s[j] ELSE s[j + 1]
<1> DEFINE a == SubSeq(s, 1, i - 1)
           b == SubSeq(s, i + 1, Len(s))
<1>1. Len(s) \in Nat /\ i \in Int /\ \A j \in 1..Len(s) : s[j] \in S
  OBVIOUS
<1>2. a \in Seq(S) /\ Len(a) = i - 1 /\ \A j \in 1..i - 1 : a[j] = s[j]
  <2>1. \A j \in 1..i - 1 : s[j] \in S
    BY <1>1
  <2> QED
    BY <1>1, <2>1, SubSeqProperties
<1>3. b \in Seq(S) /\ Len(b) = Len(s) - i /\ \A j \in 1..Len(s) - i : b[j] = s[i + j]
  <2>1. \A j \in i + 1..Len(s) : s[j] \in S
    BY <1>1
  <2>2. /\ b \in Seq(S)
        /\ Len(b) = IF i + 1 <= Len(s) THEN Len(s) - (i + 1) + 1 ELSE 0
        /\ \A j \in 1..Len(s) - (i + 1) + 1 : b[j] = s[(i + 1) + j - 1]
    BY <1>1, <2>1, SubSeqProperties
  <2> QED
    BY <1>1, <2>2
<1> HIDE DEF a, b
<1>4. /\ a \o b \in Seq(S)
      /\ Len(a \o b) = Len(a) + Len(b)
      /\ \A j \in 1..Len(a) + Len(b) : (a \o b)[j] = IF j <= Len(a) THEN a[j] ELSE b[j - Len(a)]
  BY <1>2, <1>3, ConcatProperties
<1>5. ASSUME NEW j \in 1..Len(s) - 1
      PROVE  (a \o b)[j] = IF j < i THEN s[j] ELSE s[j + 1]
  <2>1. CASE j < i
    BY <1>1, <1>2, <1>3, <1>4, <2>1
  <2>2. CASE ~(j < i)
    <3>1. j - (i - 1) \in 1..Len(s) - i /\ i + (j - (i - 1)) = j + 1
      BY <1>1, <2>2
    <3>2. b[j - (i - 1)] = s[j + 1]
      BY <1>3, <3>1
    <3> QED
      BY <1>1, <1>2, <1>3, <1>4, <2>2, <3>2
  <2> QED
    BY <2>1, <2>2
<1>6. Len(a \o b) = Len(s) - 1
  BY <1>1, <1>2, <1>3, <1>4
<1> QED
  BY <1>4, <1>5, <1>6 DEF a, b

(* How many waiters admitLocked lets in.                                   *)
LEMMA FreeType ==
    ASSUME NEW run \in Int, NEW lim \in Int, NEW queue \in Seq(Callers)
    PROVE  Free(run, lim, queue) \in 0..Len(queue)
<1>1. Len(queue) \in Nat
  OBVIOUS
<1> QED
  BY <1>1 DEF Free

(* What is left of the queue once the oldest n have been let in.           *)
LEMMA RestProperties ==
    ASSUME NEW queue \in Seq(Callers), NEW n \in 0..Len(queue)
    PROVE  /\ SubSeq(queue, n + 1, Len(queue)) \in Seq(Callers)
           /\ Len(SubSeq(queue, n + 1, Len(queue))) = Len(queue) - n
           /\ \A i \in 1..Len(queue) - n : SubSeq(queue, n + 1, Len(queue))[i] = queue[n + i]
<1>1. Len(queue) \in Nat /\ n \in Nat
  OBVIOUS
<1>2. \A i \in n + 1..Len(queue) : queue[i] \in Callers
  BY <1>1
<1>3. /\ SubSeq(queue, n + 1, Len(queue)) \in Seq(Callers)
      /\ Len(SubSeq(queue, n + 1, Len(queue)))
            = IF n + 1 <= Len(queue) THEN Len(queue) - (n + 1) + 1 ELSE 0
      /\ \A i \in 1..Len(queue) - (n + 1) + 1 :
            SubSeq(queue, n + 1, Len(queue))[i] = queue[(n + 1) + i - 1]
  BY <1>1, <1>2, SubSeqProperties
<1> QED
  BY <1>1, <1>3

-----------------------------------------------------------------------------
(* The inductive invariant *)

(* The types, less what the counts below give: that running and refs never *)
(* go below zero.                                                          *)
Types ==
    /\ at \in [Callers -> Steps]
    /\ file \in [Callers -> Files \union {NoFile}]
    /\ mine \in [Callers -> Locks \union {NoLock}]
    /\ table \in [Files -> Locks \union {NoLock}]
    /\ refs \in [Locks -> Int]
    /\ token \in [Locks -> Callers \union {NoCaller}]
    /\ limit \in Limits
    /\ running \in Int
    /\ waiters \in Seq(Callers)
    /\ closed \in SUBSET Callers

(* A caller uses the lock its file's entry names, an entry has a user, and *)
(* no lock serves two files.                                               *)
EntriesAreShared ==
    /\ \A c \in Callers : mine[c] # NoLock <=> file[c] # NoFile
    /\ \A c \in Callers : file[c] # NoFile => table[file[c]] = mine[c]
    /\ \A f \in Files : table[f] # NoLock => \E c \in Callers : file[c] = f
    /\ \A f, g \in Files : table[f] = table[g] /\ table[f] # NoLock => f = g
    /\ \A c \in Callers : at[c] \in {"locking", "unlocked"} => file[c] # NoFile
    /\ \A c \in Callers : at[c] = "idle" => file[c] = NoFile

UsersOf(l) == {c \in Callers : mine[c] = l}
RefsCountUsers == \A l \in Locks : refs[l] = Cardinality(UsersOf(l))

Inside == {"locked", "waiting", "scanning", "scanned"}

(* The token of a lock is its one holder's.                                *)
TokensAreHolders ==
    /\ \A l \in Locks : token[l] # NoCaller => mine[token[l]] = l /\ at[token[l]] \in Inside
    /\ \A c \in Callers : HasLock(c) => token[mine[c]] = c

LocksInv == EntriesAreShared /\ RefsCountUsers /\ TokensAreHolders

(* Who waits is in the queue once, or has been given a slot.               *)
WaitersAreQueued ==
    /\ \A c \in closed : at[c] = "waiting"
    /\ \A i \in 1..Len(waiters) : at[waiters[i]] = "waiting" /\ waiters[i] \notin closed
    /\ \A i, j \in 1..Len(waiters) : waiters[i] = waiters[j] => i = j
    /\ \A c \in Callers : at[c] = "waiting" /\ c \notin closed => Place(c) # {}

Scanning == {c \in Callers : at[c] = "scanning"}

SlotsInv == WaitersAreQueued /\ SlotsAreAccounted /\ NoIdleSlot

Inv == Types /\ LocksInv /\ SlotsInv

LEMMA InitInv == ASSUME QueueAssumption, Init PROVE Inv
<1> USE DEF Init
<1>1. Types
  BY DEF Types, Steps
<1>2. EntriesAreShared
  BY DEF EntriesAreShared
<1>3. \A l \in Locks : UsersOf(l) = {}
  BY DEF UsersOf, QueueAssumption
<1>4. RefsCountUsers
  BY <1>3, FS_EmptySet DEF RefsCountUsers
<1>5. TokensAreHolders
  BY DEF TokensAreHolders, HasLock
<1>6. WaitersAreQueued
  BY DEF WaitersAreQueued
<1>7. {c \in Callers : at[c] = "scanning"} = {}
  OBVIOUS
<1>8. SlotsAreAccounted
  <2>1. Cardinality({c \in Callers : at[c] = "scanning"}) = 0 /\ Cardinality(closed) = 0
    BY <1>7, FS_EmptySet
  <2>2. running = 0
    OBVIOUS
  <2> HIDE DEF Init
  <2> QED
    BY <2>1, <2>2 DEF SlotsAreAccounted
<1>9. NoIdleSlot
  BY DEF NoIdleSlot
<1> QED
  BY <1>1, <1>2, <1>4, <1>5, <1>6, <1>8, <1>9 DEF Inv, LocksInv, SlotsInv

-----------------------------------------------------------------------------
(* Steps that leave one of the two halves alone *)

(* The slots do not care for a step outside of waiting and scanning.       *)
LEMMA SlotsUntouched ==
    ASSUME Types, SlotsInv, UNCHANGED slotVars,
           \A c \in Callers : \/ at'[c] = at[c]
                              \/ {at[c], at'[c]} \intersect {"waiting", "scanning"} = {}
    PROVE  SlotsInv'
<1>1. \A c \in Callers : (at'[c] = "waiting" <=> at[c] = "waiting")
                         /\ (at'[c] = "scanning" <=> at[c] = "scanning")
  OBVIOUS
<1>2. UNCHANGED <<limit, running, waiters, closed>>
  BY DEF slotVars
<1>3. WaitersAreQueued'
  BY <1>1, <1>2 DEF SlotsInv, WaitersAreQueued, Types, Place
<1>4. {c \in Callers : at'[c] = "scanning"} = {c \in Callers : at[c] = "scanning"}
  BY <1>1
<1>5. SlotsAreAccounted' /\ NoIdleSlot'
  BY <1>2, <1>4 DEF SlotsInv, SlotsAreAccounted, NoIdleSlot
<1> QED
  BY <1>3, <1>5 DEF SlotsInv

(* The locks do not care for a step of a caller between them.              *)
LEMMA LocksUntouched ==
    ASSUME Types, LocksInv, UNCHANGED <<file, lockVars>>,
           \A c \in Callers : at'[c] = at[c] \/ (at[c] \in Inside /\ at'[c] \in Inside)
    PROVE  LocksInv'
<1>1. UNCHANGED <<file, mine, table, refs, token>>
  BY DEF lockVars
<1>2. EntriesAreShared'
  BY <1>1 DEF LocksInv, EntriesAreShared, Inside
<1>3. RefsCountUsers'
  BY <1>1 DEF LocksInv, RefsCountUsers, UsersOf
<1>4. TokensAreHolders'
  BY <1>1 DEF LocksInv, TokensAreHolders, HasLock, Inside, Types
<1> QED
  BY <1>2, <1>3, <1>4 DEF LocksInv

-----------------------------------------------------------------------------
(* fileLocks *)

(* The users of a lock are finitely many, so refs tells whether there are  *)
(* any and whether there is one.                                           *)
LEMMA UsersAreFinite ==
    ASSUME QueueAssumption, NEW l
    PROVE  IsFiniteSet(UsersOf(l))
BY FS_Subset DEF QueueAssumption, UsersOf

(* lock: an entry found is shared, one made is of a struct nobody uses.    *)
LEMMA CallInv ==
    ASSUME QueueAssumption, Inv, NEW c \in Callers, NEW f \in Files, Call(c, f)
    PROVE  Inv'
<1> USE DEF Inv, LocksInv
<1>1. PICK l \in Locks :
        /\ IF table[f] = NoLock THEN refs[l] = 0 /\ token[l] = NoCaller ELSE l = table[f]
        /\ table' = [table EXCEPT ![f] = l]
        /\ refs' = [refs EXCEPT ![l] = @ + 1]
        /\ mine' = [mine EXCEPT ![c] = l]
  BY DEF Call
<1>2. /\ at[c] = "idle" /\ at' = [at EXCEPT ![c] = "locking"]
      /\ file' = [file EXCEPT ![c] = f]
      /\ UNCHANGED <<token, slotVars>>
  BY DEF Call, Go
<1>3. file[c] = NoFile /\ mine[c] = NoLock /\ l # NoLock /\ f # NoFile
  BY <1>2 DEF EntriesAreShared, QueueAssumption
<1>4. table[f] = NoLock => UsersOf(l) = {}
  <2>1. table[f] = NoLock => Cardinality(UsersOf(l)) = 0
    BY <1>1 DEF RefsCountUsers
  <2> QED
    BY <2>1, UsersAreFinite, FS_EmptySet
<1>5. \A g \in Files : g # f => table[g] # l
  <2> SUFFICES ASSUME NEW g \in Files, g # f, table[g] = l PROVE FALSE
    OBVIOUS
  <2>1. CASE table[f] = NoLock
    <3>1. PICK d \in Callers : file[d] = g
      BY <1>3 DEF EntriesAreShared
    <3>2. mine[d] = l
      BY <3>1 DEF EntriesAreShared, QueueAssumption
    <3> QED
      BY <1>4, <2>1, <3>2 DEF UsersOf
  <2>2. CASE table[f] # NoLock
    BY <1>1, <2>2 DEF EntriesAreShared
  <2> QED
    BY <2>1, <2>2
<1>6. Types'
  BY <1>1, <1>2 DEF Types, Steps, slotVars
<1>7. EntriesAreShared'
  <2>1. \A d \in Callers : d # c => mine'[d] = mine[d] /\ file'[d] = file[d] /\ at'[d] = at[d]
    BY <1>1, <1>2 DEF Types
  <2>2. mine'[c] = l /\ file'[c] = f /\ at'[c] = "locking"
    BY <1>1, <1>2 DEF Types
  <2>3. table'[f] = l /\ \A g \in Files : g # f => table'[g] = table[g]
    BY <1>1 DEF Types
  <2>4. \A d \in Callers : mine'[d] # NoLock <=> file'[d] # NoFile
    BY <1>3, <2>1, <2>2 DEF EntriesAreShared
  <2>5. ASSUME NEW d \in Callers, file'[d] # NoFile
        PROVE  table'[file'[d]] = mine'[d]
    <3>1. CASE d = c
      BY <2>2, <2>3, <3>1
    <3>2. CASE d # c /\ file[d] = f
      <4>1. table[f] = mine[d] /\ mine[d] # NoLock
        BY <1>3, <3>2 DEF EntriesAreShared
      <4> QED
        BY <1>1, <2>1, <2>3, <3>2, <4>1
    <3>3. CASE d # c /\ file[d] # f
      BY <2>1, <2>3, <2>5, <3>3 DEF EntriesAreShared, Types
    <3> QED
      BY <3>1, <3>2, <3>3
  <2>6. ASSUME NEW g \in Files, table'[g] # NoLock
        PROVE  \E d \in Callers : file'[d] = g
    <3>1. CASE g = f
      BY <2>2, <3>1
    <3>2. CASE g # f
      <4>1. PICK d \in Callers : file[d] = g
        BY <2>3, <2>6, <3>2 DEF EntriesAreShared
      <4>2. d # c
        BY <1>3, <4>1 DEF QueueAssumption
      <4> QED
        BY <2>1, <4>1, <4>2
    <3> QED
      BY <3>1, <3>2
  <2>7. \A g, h \in Files : table'[g] = table'[h] /\ table'[g] # NoLock => g = h
    BY <1>5, <2>3 DEF EntriesAreShared
  <2>8. \A d \in Callers : /\ at'[d] \in {"locking", "unlocked"} => file'[d] # NoFile
                           /\ at'[d] = "idle" => file'[d] = NoFile
    BY <1>3, <2>1, <2>2 DEF EntriesAreShared
  <2> QED
    BY <2>4, <2>5, <2>6, <2>7, <2>8 DEF EntriesAreShared
<1>8. RefsCountUsers'
  <2> SUFFICES ASSUME NEW k \in Locks PROVE refs'[k] = Cardinality(UsersOf(k)')
    BY DEF RefsCountUsers
  <2>1. CASE k = l
    <3>1. UsersOf(k)' = UsersOf(k) \union {c} /\ c \notin UsersOf(k)
      BY <1>1, <1>3, <2>1 DEF UsersOf, Types
    <3>2. Cardinality(UsersOf(k) \union {c}) = Cardinality(UsersOf(k)) + 1
      BY <3>1, UsersAreFinite, FS_AddElement
    <3>3. refs'[k] = refs[k] + 1
      BY <1>1, <2>1 DEF Types
    <3> QED
      BY <3>1, <3>2, <3>3 DEF RefsCountUsers
  <2>2. CASE k # l
    <3>1. UsersOf(k)' = UsersOf(k)
      BY <1>1, <1>3, <2>2 DEF UsersOf, Types, QueueAssumption
    <3>2. refs'[k] = refs[k]
      BY <1>1, <2>2 DEF Types
    <3> QED
      BY <3>1, <3>2 DEF RefsCountUsers
  <2> QED
    BY <2>1, <2>2
<1>9. TokensAreHolders'
  <2>1. \A d \in Callers : d # c => mine'[d] = mine[d] /\ file'[d] = file[d] /\ at'[d] = at[d]
    BY <1>1, <1>2 DEF Types
  <2>2. at'[c] = "locking" /\ at[c] \notin Inside /\ token' = token
    BY <1>2 DEF Types, Inside
  <2>3. \A k \in Locks : token[k] # NoCaller => token[k] # c /\ token[k] \in Callers
    BY <2>2 DEF TokensAreHolders, Types
  <2>4. \A d \in Callers : HasLock(d)' => d # c /\ HasLock(d)
    BY <2>1, <2>2 DEF HasLock
  <2> QED
    BY <2>1, <2>2, <2>3, <2>4 DEF TokensAreHolders
<1>10. SlotsInv'
  BY <1>2, SlotsUntouched DEF Types
<1> QED
  BY <1>6, <1>7, <1>8, <1>9, <1>10


(* The token goes to a caller that was counted and did not hold it.        *)
LEMMA TakeTokenInv ==
    ASSUME QueueAssumption, Inv, NEW c \in Callers, TakeToken(c)
    PROVE  Inv'
<1> USE DEF Inv, LocksInv
<1>1. /\ at[c] = "locking" /\ at' = [at EXCEPT ![c] = "locked"]
      /\ token[mine[c]] = NoCaller /\ token' = [token EXCEPT ![mine[c]] = c]
      /\ UNCHANGED <<file, mine, table, refs, slotVars>>
  BY DEF TakeToken, Go
<1>2. file[c] # NoFile /\ mine[c] \in Locks /\ c # NoCaller
  BY <1>1 DEF EntriesAreShared, Types, QueueAssumption
<1>3. /\ at'[c] = "locked"
      /\ \A d \in Callers : d # c => at'[d] = at[d]
      /\ token'[mine[c]] = c
      /\ \A k \in Locks : k # mine[c] => token'[k] = token[k]
  BY <1>1, <1>2 DEF Types
<1>4. Types'
  BY <1>1, <1>2 DEF Types, Steps, slotVars
<1>5. EntriesAreShared'
  BY <1>1, <1>2, <1>3 DEF EntriesAreShared
<1>6. RefsCountUsers'
  BY <1>1 DEF RefsCountUsers, UsersOf
<1>7. TokensAreHolders'
  <2>1. ASSUME NEW k \in Locks, token'[k] # NoCaller
        PROVE  mine'[token'[k]] = k /\ at'[token'[k]] \in Inside
    <3>1. CASE k = mine[c]
      BY <1>1, <1>3, <3>1 DEF Inside
    <3>2. CASE k # mine[c]
      <4>1. token[k] # NoCaller /\ token'[k] = token[k] /\ token[k] \in Callers
        BY <1>3, <2>1, <3>2 DEF Types
      <4>2. mine[token[k]] = k /\ at[token[k]] \in Inside /\ token[k] # c
        BY <3>2, <4>1 DEF TokensAreHolders
      <4> QED
        BY <1>1, <1>3, <4>1, <4>2
    <3> QED
      BY <3>1, <3>2
  <2>2. ASSUME NEW d \in Callers, HasLock(d)'
        PROVE  token'[mine'[d]] = d
    <3>1. CASE d = c
      BY <1>1, <1>3, <3>1
    <3>2. CASE d # c
      <4>1. HasLock(d) /\ token[mine[d]] = d
        BY <1>1, <1>3, <2>2, <3>2 DEF HasLock, TokensAreHolders
      <4>2. mine[d] \in Locks /\ mine[d] # mine[c]
        BY <1>1, <3>2, <4>1 DEF HasLock, EntriesAreShared, Types, QueueAssumption
      <4> QED
        BY <1>1, <1>3, <4>1, <4>2
    <3> QED
      BY <3>1, <3>2
  <2> QED
    BY <2>1, <2>2 DEF TokensAreHolders
<1>8. SlotsInv'
  BY <1>1, SlotsUntouched DEF Types
<1> QED
  BY <1>4, <1>5, <1>6, <1>7, <1>8

(* unlock: the channel is empty again, its last holder still counted.      *)
LEMMA TakeOutInv ==
    ASSUME QueueAssumption, Inv, NEW c \in Callers, TakeOut(c)
    PROVE  Inv'
<1> USE DEF Inv, LocksInv
<1>1. /\ at[c] = "scanned" /\ at' = [at EXCEPT ![c] = "unlocked"]
      /\ mine[c] # NoLock /\ token' = [token EXCEPT ![mine[c]] = NoCaller]
      /\ UNCHANGED <<file, mine, table, refs, slotVars>>
  BY DEF TakeOut, Go
<1>2. file[c] # NoFile /\ mine[c] \in Locks /\ HasLock(c)
  BY <1>1 DEF EntriesAreShared, Types, HasLock
<1>3. /\ at'[c] = "unlocked"
      /\ \A d \in Callers : d # c => at'[d] = at[d]
      /\ token'[mine[c]] = NoCaller
      /\ \A k \in Locks : k # mine[c] => token'[k] = token[k]
  BY <1>1, <1>2 DEF Types
<1>4. Types'
  BY <1>1, <1>2 DEF Types, Steps, slotVars
<1>5. EntriesAreShared'
  BY <1>1, <1>2, <1>3 DEF EntriesAreShared
<1>6. RefsCountUsers'
  BY <1>1 DEF RefsCountUsers, UsersOf
<1>7. TokensAreHolders'
  <2>1. token[mine[c]] = c
    BY <1>2 DEF TokensAreHolders
  <2>2. ASSUME NEW k \in Locks, token'[k] # NoCaller
        PROVE  mine'[token'[k]] = k /\ at'[token'[k]] \in Inside
    <3>1. k # mine[c] /\ token'[k] = token[k] /\ token[k] \in Callers
      BY <1>3, <2>2 DEF Types
    <3>2. mine[token[k]] = k /\ at[token[k]] \in Inside /\ token[k] # c
      BY <2>2, <3>1 DEF TokensAreHolders
    <3> QED
      BY <1>1, <1>3, <3>1, <3>2
  <2>3. ASSUME NEW d \in Callers, HasLock(d)'
        PROVE  token'[mine'[d]] = d
    <3>1. d # c /\ HasLock(d)
      BY <1>1, <1>3, <2>3 DEF HasLock
    <3>2. token[mine[d]] = d /\ mine[d] \in Locks
      BY <3>1 DEF TokensAreHolders, HasLock, EntriesAreShared, Types
    <3>3. mine[d] # mine[c]
      BY <2>1, <3>1, <3>2
    <3> QED
      BY <1>1, <1>3, <3>2, <3>3
  <2> QED
    BY <2>2, <2>3 DEF TokensAreHolders
<1>8. SlotsInv'
  BY <1>1, SlotsUntouched DEF Types
<1> QED
  BY <1>4, <1>5, <1>6, <1>7, <1>8

(* drop: the last user of an entry takes it out of the table.              *)
LEMMA DropInv ==
    ASSUME QueueAssumption, Inv, NEW c \in Callers,
           at[c] \in {"locking", "unlocked"}, Drop(c)
    PROVE  Inv'
<1> USE DEF Inv, LocksInv
<1> DEFINE l == mine[c]
           f == file[c]
<1>1. /\ refs' = [refs EXCEPT ![l] = @ - 1]
      /\ table' = IF refs[l] = 1 THEN [table EXCEPT ![f] = NoLock] ELSE table
      /\ mine' = [mine EXCEPT ![c] = NoLock]
      /\ file' = [file EXCEPT ![c] = NoFile]
      /\ at' = [at EXCEPT ![c] = "idle"]
      /\ UNCHANGED <<token, slotVars>>
  BY DEF Drop, Dropped, Go
<1>2. l \in Locks /\ f \in Files /\ table[f] = l
  BY DEF EntriesAreShared, Types
<1>3. /\ at'[c] = "idle" /\ mine'[c] = NoLock /\ file'[c] = NoFile
      /\ \A d \in Callers : d # c => at'[d] = at[d] /\ mine'[d] = mine[d] /\ file'[d] = file[d]
  BY <1>1 DEF Types
<1>4. \A g \in Files : g # f => table'[g] = table[g]
  BY <1>1 DEF Types
<1>5. IsFiniteSet(UsersOf(l)) /\ c \in UsersOf(l) /\ refs[l] = Cardinality(UsersOf(l))
  BY <1>2, UsersAreFinite DEF UsersOf, RefsCountUsers
<1>6. \A d \in Callers : file[d] = f => mine[d] = l
  BY <1>2 DEF EntriesAreShared, QueueAssumption
<1>7. \A d \in Callers : mine[d] = l => file[d] = f
  BY <1>2 DEF EntriesAreShared, QueueAssumption, Types
<1>8. refs[l] = 1 => table'[f] = NoLock /\ \A d \in Callers : mine[d] = l => d = c
  <2>1. ASSUME refs[l] = 1 PROVE \A d \in Callers : mine[d] = l => d = c
    <3>1. \E x : UsersOf(l) = {x}
      BY <1>5, <2>1, FS_Singleton
    <3> QED
      BY <1>5, <3>1 DEF UsersOf
  <2> QED
    BY <1>1, <1>2, <2>1 DEF Types
<1>9. refs[l] # 1 => table' = table /\ \E d \in Callers : d # c /\ file[d] = f
  <2> SUFFICES ASSUME refs[l] # 1, \A d \in Callers : d # c => file[d] # f
               PROVE  FALSE
    BY <1>1
  <2>1. UsersOf(l) = {c}
    BY <1>5, <1>7 DEF UsersOf
  <2> QED
    BY <1>5, <2>1, FS_Singleton
<1>10. Types'
  BY <1>1, <1>2 DEF Types, Steps, slotVars
<1>11. EntriesAreShared'
  <2>1. \A d \in Callers : mine'[d] # NoLock <=> file'[d] # NoFile
    BY <1>3 DEF EntriesAreShared
  <2>2. ASSUME NEW d \in Callers, file'[d] # NoFile
        PROVE  table'[file'[d]] = mine'[d]
    <3>1. d # c /\ file'[d] = file[d] /\ mine'[d] = mine[d] /\ file[d] \in Files
      BY <1>3, <2>2 DEF Types
    <3>2. table[file[d]] = mine[d]
      BY <2>2, <3>1 DEF EntriesAreShared
    <3>3. CASE file[d] = f
      BY <1>6, <1>8, <1>9, <3>1, <3>2, <3>3
    <3>4. CASE file[d] # f
      BY <1>4, <3>1, <3>2, <3>4
    <3> QED
      BY <3>3, <3>4
  <2>3. ASSUME NEW g \in Files, table'[g] # NoLock
        PROVE  \E d \in Callers : file'[d] = g
    <3>1. CASE g = f
      BY <1>3, <1>8, <1>9, <2>3, <3>1
    <3>2. CASE g # f
      <4>1. PICK d \in Callers : file[d] = g
        BY <1>4, <2>3, <3>2 DEF EntriesAreShared
      <4> QED
        BY <1>3, <3>2, <4>1
    <3> QED
      BY <3>1, <3>2
  <2>4. ASSUME NEW g \in Files, NEW h \in Files, table'[g] = table'[h], table'[g] # NoLock
        PROVE  g = h
    <3>1. \A k \in Files : table'[k] = table[k] \/ table'[k] = NoLock
      BY <1>4, <1>8, <1>9
    <3> QED
      BY <2>4, <3>1 DEF EntriesAreShared
  <2>5. \A d \in Callers : /\ at'[d] \in {"locking", "unlocked"} => file'[d] # NoFile
                           /\ at'[d] = "idle" => file'[d] = NoFile
    BY <1>3 DEF EntriesAreShared
  <2> QED
    BY <2>1, <2>2, <2>3, <2>4, <2>5 DEF EntriesAreShared
<1>12. RefsCountUsers'
  <2> SUFFICES ASSUME NEW k \in Locks PROVE refs'[k] = Cardinality(UsersOf(k)')
    BY DEF RefsCountUsers
  <2>1. CASE k = l
    <3>1. UsersOf(k)' = UsersOf(l) \ {c}
      BY <1>2, <1>3, <2>1 DEF UsersOf, QueueAssumption
    <3>2. Cardinality(UsersOf(l) \ {c}) = Cardinality(UsersOf(l)) - 1
      BY <1>5, FS_RemoveElement
    <3>3. refs'[k] = refs[l] - 1
      BY <1>1, <1>2, <2>1 DEF Types
    <3> QED
      BY <1>5, <3>1, <3>2, <3>3
  <2>2. CASE k # l
    <3>1. UsersOf(k)' = UsersOf(k)
      BY <1>3, <2>2 DEF UsersOf, QueueAssumption
    <3>2. refs'[k] = refs[k]
      BY <1>1, <2>2 DEF Types
    <3> QED
      BY <3>1, <3>2 DEF RefsCountUsers
  <2> QED
    BY <2>1, <2>2
<1>13. TokensAreHolders'
  <2>1. token' = token /\ at[c] \notin Inside
    BY <1>1 DEF Inside
  <2>2. \A k \in Locks : token[k] # NoCaller => token[k] # c /\ token[k] \in Callers
    BY <2>1 DEF TokensAreHolders, Types
  <2>3. \A d \in Callers : HasLock(d)' => d # c /\ HasLock(d)
    BY <1>3 DEF HasLock
  <2> QED
    BY <1>3, <2>1, <2>2, <2>3 DEF TokensAreHolders
<1>14. SlotsInv'
  BY <1>1, SlotsUntouched DEF Types
<1> QED
  BY <1>10, <1>11, <1>12, <1>13, <1>14

(* A call without a cache starts and ends without a lock.                  *)
LEMMA UncachedInv ==
    ASSUME QueueAssumption, Inv, NEW c \in Callers, CallUncached(c) \/ ReturnUncached(c)
    PROVE  Inv'
<1> USE DEF Inv, LocksInv
<1>1. /\ file[c] = NoFile /\ mine[c] = NoLock
      /\ at[c] \in {"idle", "scanned"}
      /\ \E step \in {"locked", "idle"} : at' = [at EXCEPT ![c] = step]
      /\ UNCHANGED <<file, mine, table, refs, token, slotVars>>
  BY DEF CallUncached, ReturnUncached, Go, lockVars, EntriesAreShared
<1>2. PICK step \in {"locked", "idle"} : at' = [at EXCEPT ![c] = step]
  BY <1>1
<1>3. at'[c] = step /\ \A d \in Callers : d # c => at'[d] = at[d]
  BY <1>2 DEF Types
<1>4. Types'
  BY <1>1, <1>2 DEF Types, Steps, slotVars
<1>5. EntriesAreShared'
  BY <1>1, <1>3 DEF EntriesAreShared
<1>6. RefsCountUsers'
  BY <1>1 DEF RefsCountUsers, UsersOf
<1>7. TokensAreHolders'
  <2>1. \A k \in Locks : token[k] # NoCaller => token[k] # c /\ token[k] \in Callers
    BY <1>1, QueueAssumption DEF TokensAreHolders, Types, QueueAssumption
  <2>2. \A d \in Callers : HasLock(d)' => d # c /\ HasLock(d)
    BY <1>1, <1>3 DEF HasLock
  <2> QED
    BY <1>1, <1>3, <2>1, <2>2 DEF TokensAreHolders
<1>8. SlotsInv'
  BY <1>1, <1>2, SlotsUntouched DEF Types
<1> QED
  BY <1>4, <1>5, <1>6, <1>7, <1>8

(* A scan that turns out not to be needed takes no slot.                   *)
LEMMA SkipScanInv ==
    ASSUME QueueAssumption, Inv, NEW c \in Callers, SkipScan(c)
    PROVE  Inv'
<1>1. /\ at[c] = "locked" /\ at' = [at EXCEPT ![c] = "scanned"]
      /\ UNCHANGED <<file, lockVars, slotVars>>
  BY DEF SkipScan, Go
<1>2. Types'
  BY <1>1 DEF Inv, Types, Steps, slotVars, lockVars
<1>3. LocksInv'
  BY <1>1, LocksUntouched DEF Inv, Types, Inside
<1>4. SlotsInv'
  BY <1>1, SlotsUntouched DEF Inv, Types
<1> QED
  BY <1>2, <1>3, <1>4 DEF Inv

-----------------------------------------------------------------------------
(* slotLimiter *)

(* Who counts as running before having noticed.                            *)
LEMMA AdmittedCount ==
    ASSUME NEW queue \in Seq(Callers), NEW n \in 0..Len(queue),
           \A i, j \in 1..Len(queue) : queue[i] = queue[j] => i = j
    PROVE  /\ IsFiniteSet({queue[i] : i \in 1..n})
           /\ Cardinality({queue[i] : i \in 1..n}) = n
<1> DEFINE E == {queue[i] : i \in 1..n}
           F == [i \in 1..n |-> queue[i]]
<1>1. n \in Nat /\ Len(queue) \in Nat
  OBVIOUS
<1>2. \A i \in 1..n : i \in 1..Len(queue)
  BY <1>1
<1>3. F \in Bijection(1..n, E)
  <2>1. F \in [1..n -> E]
    OBVIOUS
  <2>2. \A a, b \in 1..n : F[a] = F[b] => a = b
    BY <1>2
  <2>3. \A e \in E : \E a \in 1..n : F[a] = e
    OBVIOUS
  <2> QED
    BY <2>1, <2>2, <2>3, Fun_IsBij
<1>4. IsFiniteSet(1..n) /\ Cardinality(1..n) = n
  BY <1>1, FS_Interval
<1>5. ExistsBijection(1..n, E)
  BY <1>3 DEF ExistsBijection
<1> QED
  BY <1>4, <1>5, FS_Bijection

(* admitLocked, whoever calls it: slots given to a caller that takes them  *)
(* are counted, and nobody is left waiting beside a free one.              *)
LEMMA AdmitInv ==
    ASSUME QueueAssumption, Types, WaitersAreQueued,
           NEW run \in Int, NEW lim \in Limits, NEW granted \in SUBSET closed,
           Admit(run, lim, waiters, granted), limit' = lim,
           \A d \in granted : at'[d] = "waiting",
           \A i \in 1..Len(waiters) : at'[waiters[i]] = "waiting",
           \A d \in Callers : at'[d] = "waiting" => d \in granted \/ Place(d) # {},
           run = Cardinality({d \in Callers : at'[d] = "scanning"}) + Cardinality(granted)
    PROVE  /\ limit' \in Limits /\ running' \in Int /\ waiters' \in Seq(Callers)
           /\ closed' \in SUBSET Callers
           /\ SlotsInv'
<1> DEFINE n == Free(run, lim, waiters)
           E == {waiters[i] : i \in 1..n}
<1>1. /\ lim \in Int /\ waiters \in Seq(Callers) /\ Len(waiters) \in Nat
      /\ \A i \in 1..Len(waiters) : waiters[i] \in Callers
  BY DEF Types, QueueAssumption
<1>2. n \in 0..Len(waiters)
  BY <1>1, FreeType
<1>3. /\ running' = run + n
      /\ waiters' = SubSeq(waiters, n + 1, Len(waiters))
      /\ closed' = granted \union E
  BY DEF Admit
<1>4. n < Len(waiters) => run + n >= lim
  BY <1>1 DEF Free
<1>5. /\ waiters' \in Seq(Callers)
      /\ Len(waiters') = Len(waiters) - n
      /\ \A i \in 1..Len(waiters) - n : waiters'[i] = waiters[n + i]
  BY <1>1, <1>2, <1>3, RestProperties
<1>6. IsFiniteSet(E) /\ Cardinality(E) = n
  <2>1. \A i, j \in 1..Len(waiters) : waiters[i] = waiters[j] => i = j
    BY DEF WaitersAreQueued
  <2> HIDE DEF n
  <2> QED
    BY <1>1, <1>2, <2>1, AdmittedCount
<1>7. E \subseteq Callers /\ granted \subseteq Callers
  <2>1. \A i \in 1..n : waiters[i] \in Callers
    BY <1>1, <1>2
  <2>2. E \subseteq Callers
    BY <2>1
  <2>3. granted \subseteq Callers
    BY DEF Types
  <2> QED
    BY <2>2, <2>3
<1>8. E \intersect granted = {}
  BY <1>1, <1>2 DEF WaitersAreQueued
<1> HIDE DEF n, E
<1>9. Cardinality(closed') = Cardinality(granted) + n
  <2>1. IsFiniteSet(granted) /\ Cardinality(granted) \in Nat
    BY <1>7, FS_Subset, FS_CardinalityType DEF QueueAssumption
  <2>2. Cardinality(granted \union E)
            = Cardinality(granted) + Cardinality(E) - Cardinality(granted \intersect E)
    BY <1>6, <2>1, FS_Union
  <2>3. Cardinality(granted \intersect E) = 0
    BY <1>8, FS_EmptySet
  <2> QED
    BY <1>2, <1>3, <1>6, <2>1, <2>2, <2>3
<1>10. SlotsAreAccounted'
  <2> DEFINE s == Cardinality({d \in Callers : at'[d] = "scanning"})
             g == Cardinality(granted)
  <2>1. s \in Nat /\ g \in Nat
    BY <1>7, FS_Subset, FS_CardinalityType DEF QueueAssumption
  <2>2. running' = s + g + n /\ Cardinality(closed') = g + n
    BY <1>3, <1>9
  <2> HIDE DEF s, g
  <2>3. running' = s + Cardinality(closed')
    BY <1>2, <2>1, <2>2
  <2> QED
    BY <2>3 DEF SlotsAreAccounted, s
<1>11. NoIdleSlot'
  <2> SUFFICES ASSUME waiters' # <<>> PROVE running' >= limit'
    BY DEF NoIdleSlot
  <2>1. Len(waiters') # 0
    BY <1>5, EmptySeq
  <2> QED
    BY <1>1, <1>2, <1>3, <1>4, <1>5, <2>1
<1>12. WaitersAreQueued'
  <2>1. \A e \in E : \E i \in 1..n : e = waiters[i]
    BY DEF E
  <2>2. \A i \in 1..n : waiters[i] \in E
    BY DEF E
  <2>3. \A i \in 1..Len(waiters') : n + i \in 1..Len(waiters) /\ waiters'[i] = waiters[n + i]
    BY <1>1, <1>2, <1>5
  <2>4. ASSUME NEW d \in closed' PROVE at'[d] = "waiting"
    <3>1. CASE d \in granted
      BY <3>1
    <3>2. CASE d \in E
      BY <1>2, <2>1, <3>2
    <3> QED
      BY <1>3, <3>1, <3>2
  <2>5. ASSUME NEW i \in 1..Len(waiters')
        PROVE  at'[waiters'[i]] = "waiting" /\ waiters'[i] \notin closed'
    <3>1. waiters[n + i] \notin granted
      BY <2>3 DEF WaitersAreQueued
    <3>2. waiters[n + i] \notin E
      <4> SUFFICES ASSUME waiters[n + i] \in E PROVE FALSE
        OBVIOUS
      <4>1. PICK j \in 1..n : waiters[n + i] = waiters[j]
        BY <2>1
      <4>2. j \in 1..Len(waiters) /\ n + i # j
        BY <1>1, <1>2, <1>5
      <4> QED
        BY <2>3, <4>1, <4>2 DEF WaitersAreQueued
    <3> QED
      BY <1>3, <2>3, <3>1, <3>2
  <2>6. ASSUME NEW i \in 1..Len(waiters'), NEW j \in 1..Len(waiters'), waiters'[i] = waiters'[j]
        PROVE  i = j
    <3>1. n + i = n + j
      BY <2>3, <2>6 DEF WaitersAreQueued
    <3> QED
      BY <1>2, <1>5, <3>1
  <2>7. ASSUME NEW d \in Callers, at'[d] = "waiting", d \notin closed'
        PROVE  Place(d)' # {}
    <3>1. PICK j \in 1..Len(waiters) : waiters[j] = d
      BY <1>3, <2>7 DEF Place
    <3>2. ~(j <= n)
      BY <1>3, <2>2, <2>7, <3>1
    <3>3. j - n \in 1..Len(waiters') /\ waiters'[j - n] = d
      BY <1>1, <1>2, <1>5, <3>1, <3>2
    <3> QED
      BY <3>3 DEF Place
  <2> QED
    BY <2>4, <2>5, <2>6, <2>7 DEF WaitersAreQueued
<1> QED
  BY <1>1, <1>2, <1>3, <1>5, <1>7, <1>10, <1>11, <1>12 DEF SlotsInv

(* The counts of a step of one caller into or out of a scan.               *)
LEMMA ScanningFinite ==
    ASSUME QueueAssumption
    PROVE  IsFiniteSet(Scanning) /\ Cardinality(Scanning) \in Int
BY FS_Subset, FS_CardinalityType DEF Scanning, QueueAssumption

LEMMA ClosedFinite ==
    ASSUME QueueAssumption, Types
    PROVE  IsFiniteSet(closed) /\ Cardinality(closed) \in Int
BY FS_Subset, FS_CardinalityType DEF Types, QueueAssumption

(* acquire: a slot at once, or the end of the queue.                       *)
LEMMA AcquireInv ==
    ASSUME QueueAssumption, Inv, NEW c \in Callers, Acquire(c)
    PROVE  Inv'
<1> USE DEF Inv
<1>1. /\ at[c] = "locked" /\ UNCHANGED <<file, lockVars, limit, closed>>
      /\ waiters \in Seq(Callers) /\ Len(waiters) \in Nat /\ limit \in Int /\ running \in Int
  BY DEF Acquire, Types, QueueAssumption
<1>2. WaitersAreQueued /\ SlotsAreAccounted
  BY DEF SlotsInv
<1>3. c \notin closed /\ \A i \in 1..Len(waiters) : waiters[i] # c
  BY <1>1, <1>2 DEF WaitersAreQueued
<1>4. CASE MayEnter /\ running' = running + 1 /\ Go(c, "scanning") /\ UNCHANGED waiters
  <2>1. /\ at' = [at EXCEPT ![c] = "scanning"] /\ waiters = <<>> /\ waiters' = <<>>
        /\ running' = running + 1
    BY <1>4 DEF MayEnter, Go
  <2>2. at'[c] = "scanning" /\ \A d \in Callers : d # c => at'[d] = at[d]
    BY <2>1 DEF Types
  <2>3. Types'
    BY <1>1, <2>1 DEF Types, Steps, lockVars
  <2>4. LocksInv'
    BY <1>1, <2>1, <2>2, LocksUntouched DEF Inside
  <2>5. WaitersAreQueued'
    BY <1>1, <1>2, <2>1, <2>2 DEF WaitersAreQueued, Place
  <2>6. SlotsAreAccounted'
    <3>1. Scanning' = Scanning \union {c} /\ c \notin Scanning
      BY <1>1, <2>2 DEF Scanning
    <3>2. Cardinality(Scanning') = Cardinality(Scanning) + 1
      BY <3>1, ScanningFinite, FS_AddElement
    <3> QED
      BY <1>1, <1>2, <2>1, <3>2, ScanningFinite, ClosedFinite DEF SlotsAreAccounted, Scanning
  <2>7. NoIdleSlot'
    BY <2>1 DEF NoIdleSlot
  <2> QED
    BY <2>3, <2>4, <2>5, <2>6, <2>7 DEF SlotsInv
<1>5. CASE ~MayEnter /\ waiters' = Append(waiters, c) /\ Go(c, "waiting") /\ UNCHANGED running
  <2>1. at' = [at EXCEPT ![c] = "waiting"]
    BY <1>5 DEF Go
  <2>2. at'[c] = "waiting" /\ \A d \in Callers : d # c => at'[d] = at[d]
    BY <2>1 DEF Types
  <2>3. /\ waiters' \in Seq(Callers) /\ Len(waiters') = Len(waiters) + 1
        /\ \A i \in 1..Len(waiters) : waiters'[i] = waiters[i]
        /\ waiters'[Len(waiters) + 1] = c
    BY <1>1, <1>5, AppendProperties
  <2>4. Types'
    BY <1>1, <1>5, <2>1, <2>3 DEF Types, Steps, lockVars
  <2>5. LocksInv'
    BY <1>1, <2>1, <2>2, LocksUntouched DEF Inside
  <2>6. WaitersAreQueued'
    <3>1. \A d \in closed' : at'[d] = "waiting"
      BY <1>1, <1>2, <2>2 DEF WaitersAreQueued, Types
    <3>2. ASSUME NEW i \in 1..Len(waiters')
          PROVE  at'[waiters'[i]] = "waiting" /\ waiters'[i] \notin closed'
      <4>1. CASE i = Len(waiters) + 1
        BY <1>1, <1>3, <2>2, <2>3, <4>1
      <4>2. CASE i \in 1..Len(waiters)
        <5>1. waiters[i] \in Callers /\ at[waiters[i]] = "waiting" /\ waiters[i] \notin closed
          BY <1>1, <1>2, <4>2 DEF WaitersAreQueued
        <5> QED
          BY <1>1, <1>3, <2>2, <2>3, <4>2, <5>1
      <4> QED
        BY <1>1, <2>3, <4>1, <4>2
    <3>3. \A i, j \in 1..Len(waiters') : waiters'[i] = waiters'[j] => i = j
      BY <1>1, <1>2, <1>3, <2>3 DEF WaitersAreQueued
    <3>4. ASSUME NEW d \in Callers, at'[d] = "waiting", d \notin closed'
          PROVE  Place(d)' # {}
      <4>1. CASE d = c
        BY <1>1, <2>3, <4>1 DEF Place
      <4>2. CASE d # c
        <5>1. PICK i \in 1..Len(waiters) : waiters[i] = d
          BY <1>1, <1>2, <2>2, <3>4, <4>2 DEF WaitersAreQueued, Place
        <5>2. i \in 1..Len(waiters') /\ waiters'[i] = d
          BY <1>1, <2>3, <5>1
        <5> QED
          BY <5>2 DEF Place
      <4> QED
        BY <4>1, <4>2
    <3> QED
      BY <3>1, <3>2, <3>3, <3>4 DEF WaitersAreQueued
  <2>7. SlotsAreAccounted'
    <3>1. Scanning' = Scanning
      BY <1>1, <2>2 DEF Scanning
    <3> QED
      BY <1>1, <1>2, <1>5, <3>1 DEF SlotsAreAccounted, Scanning
  <2>8. NoIdleSlot'
    BY <1>1, <1>5 DEF MayEnter, NoIdleSlot, SlotsInv
  <2> QED
    BY <2>4, <2>5, <2>6, <2>7, <2>8 DEF SlotsInv
<1> QED
  BY <1>4, <1>5 DEF Acquire

(* The waiter notices its grant: it counted already.                       *)
LEMMA EnterInv ==
    ASSUME QueueAssumption, Inv, NEW c \in Callers, Enter(c)
    PROVE  Inv'
<1> USE DEF Inv
<1>1. /\ at[c] = "waiting" /\ c \in closed /\ closed' = closed \ {c}
      /\ at' = [at EXCEPT ![c] = "scanning"]
      /\ UNCHANGED <<file, lockVars, limit, running, waiters>>
  BY DEF Enter, Go
<1>2. at'[c] = "scanning" /\ \A d \in Callers : d # c => at'[d] = at[d]
  BY <1>1 DEF Types
<1>3. Types'
  BY <1>1 DEF Types, Steps, lockVars
<1>4. LocksInv'
  BY <1>1, <1>2, LocksUntouched DEF Inside
<1>5. WaitersAreQueued'
  <2>1. WaitersAreQueued /\ \A i \in 1..Len(waiters) : waiters[i] # c /\ waiters[i] \in Callers
    BY <1>1 DEF SlotsInv, WaitersAreQueued, Types
  <2> QED
    BY <1>1, <1>2, <2>1 DEF WaitersAreQueued, Place, Types
<1>6. SlotsAreAccounted'
  <2>1. Scanning' = Scanning \union {c} /\ c \notin Scanning
    BY <1>1, <1>2 DEF Scanning
  <2>2. Cardinality(Scanning') = Cardinality(Scanning) + 1
    BY <2>1, ScanningFinite, FS_AddElement
  <2>3. Cardinality(closed') = Cardinality(closed) - 1
    BY <1>1, ClosedFinite, FS_RemoveElement
  <2>4. running' = Cardinality(Scanning) + Cardinality(closed)
    BY <1>1 DEF SlotsInv, SlotsAreAccounted, Scanning
  <2>5. running' = Cardinality(Scanning') + Cardinality(closed')
    BY <2>2, <2>3, <2>4, ScanningFinite, ClosedFinite
  <2> QED
    BY <2>5 DEF SlotsAreAccounted, Scanning
<1>7. NoIdleSlot'
  BY <1>1 DEF SlotsInv, NoIdleSlot
<1> QED
  BY <1>3, <1>4, <1>5, <1>6, <1>7 DEF SlotsInv

(* The canceled waiter leaves the queue, or gives back the slot it was     *)
(* given in the same instant.                                              *)
LEMMA CancelWaitingInv ==
    ASSUME QueueAssumption, Inv, NEW c \in Callers, CancelWaiting(c)
    PROVE  Inv'
<1> USE DEF Inv
<1>1. /\ at[c] = "waiting" /\ at' = [at EXCEPT ![c] = "scanned"]
      /\ UNCHANGED <<file, lockVars, limit>>
      /\ waiters \in Seq(Callers) /\ Len(waiters) \in Nat /\ limit \in Limits /\ running \in Int
      /\ closed \subseteq Callers
  BY DEF CancelWaiting, Types, Go
<1>2. WaitersAreQueued /\ SlotsAreAccounted /\ NoIdleSlot
  BY DEF SlotsInv
<1>3. at'[c] = "scanned" /\ \A d \in Callers : d # c => at'[d] = at[d]
  BY <1>1 DEF Types
<1>4. LocksInv'
  BY <1>1, <1>3, LocksUntouched DEF Inside
<1>5. Scanning' = Scanning
  BY <1>1, <1>3 DEF Scanning
<1>6. at' \in [Callers -> Steps]
  BY <1>1 DEF Types, Steps
<1>7. ASSUME NEW i \in Place(c), waiters' = Without(i), UNCHANGED <<running, closed>>
      PROVE  Inv'
  <2>1. i \in 1..Len(waiters) /\ waiters[i] = c /\ c \notin closed
    BY <1>2, <1>7 DEF Place, WaitersAreQueued
  <2>2. /\ waiters' \in Seq(Callers) /\ Len(waiters') = Len(waiters) - 1
        /\ \A j \in 1..Len(waiters') : waiters'[j] = IF j < i THEN waiters[j] ELSE waiters[j + 1]
    BY <1>1, <1>7, <2>1, RemovedProperties DEF Without
  <2>3. Types'
    BY <1>1, <1>6, <1>7, <2>2 DEF Types, lockVars
  <2>4. \A j \in 1..Len(waiters') :
          \E k \in 1..Len(waiters) : k # i /\ waiters'[j] = waiters[k] /\ k = IF j < i THEN j ELSE j + 1
    BY <1>1, <2>1, <2>2
  <2>5. WaitersAreQueued'
    <3>1. \A d \in closed' : at'[d] = "waiting"
      BY <1>1, <1>2, <1>3, <1>7, <2>1 DEF WaitersAreQueued
    <3>2. ASSUME NEW j \in 1..Len(waiters')
          PROVE  at'[waiters'[j]] = "waiting" /\ waiters'[j] \notin closed'
      <4>1. PICK k \in 1..Len(waiters) : k # i /\ waiters'[j] = waiters[k]
        BY <2>4
      <4>2. waiters[k] # c /\ at[waiters[k]] = "waiting" /\ waiters[k] \notin closed
        BY <1>2, <2>1, <4>1 DEF WaitersAreQueued
      <4>3. waiters[k] \in Callers
        BY <1>1
      <4> QED
        BY <1>3, <1>7, <4>1, <4>2, <4>3
    <3>3. \A j, k \in 1..Len(waiters') : waiters'[j] = waiters'[k] => j = k
      <4> SUFFICES ASSUME NEW j \in 1..Len(waiters'), NEW k \in 1..Len(waiters'),
                          waiters'[j] = waiters'[k]
                   PROVE  j = k
        OBVIOUS
      <4>1. PICK p \in 1..Len(waiters) : p = (IF j < i THEN j ELSE j + 1) /\ waiters'[j] = waiters[p]
        BY <2>4
      <4>2. PICK q \in 1..Len(waiters) : q = (IF k < i THEN k ELSE k + 1) /\ waiters'[k] = waiters[q]
        BY <2>4
      <4>3. p = q
        BY <1>2, <4>1, <4>2 DEF WaitersAreQueued
      <4> QED
        BY <1>1, <2>1, <2>2, <4>1, <4>2, <4>3
    <3>4. ASSUME NEW d \in Callers, at'[d] = "waiting", d \notin closed'
          PROVE  Place(d)' # {}
      <4>1. d # c /\ at[d] = "waiting" /\ d \notin closed
        BY <1>3, <1>7, <3>4
      <4>2. PICK k \in 1..Len(waiters) : waiters[k] = d
        BY <1>2, <4>1 DEF WaitersAreQueued, Place
      <4>3. k # i
        BY <2>1, <4>1, <4>2
      <4>4. CASE k < i
        <5>1. k \in 1..Len(waiters') /\ waiters'[k] = d
          BY <1>1, <2>1, <2>2, <4>2, <4>4
        <5> QED
          BY <5>1 DEF Place
      <4>5. CASE k > i
        <5>1. k - 1 \in 1..Len(waiters') /\ waiters'[k - 1] = d
          BY <1>1, <2>1, <2>2, <4>2, <4>5
        <5> QED
          BY <5>1 DEF Place
      <4> QED
        BY <1>1, <2>1, <4>2, <4>3, <4>4, <4>5
    <3> QED
      BY <3>1, <3>2, <3>3, <3>4 DEF WaitersAreQueued
  <2>6. SlotsAreAccounted'
    BY <1>2, <1>5, <1>7 DEF SlotsAreAccounted, Scanning
  <2>7. NoIdleSlot'
    <3>1. waiters # <<>>
      BY <2>1
    <3> QED
      BY <1>1, <1>2, <1>7, <3>1 DEF NoIdleSlot
  <2> QED
    BY <1>4, <2>3, <2>5, <2>6, <2>7 DEF SlotsInv
<1>8. ASSUME Place(c) = {}, Admit(GivenBack, limit, waiters, closed \ {c})
      PROVE  Inv'
  <2>1. c \in closed
    BY <1>1, <1>2, <1>8 DEF WaitersAreQueued
  <2>2. Cardinality(closed \ {c}) = Cardinality(closed) - 1
    BY <2>1, ClosedFinite, FS_RemoveElement
  <2>3. running = Cardinality(Scanning) + Cardinality(closed)
    BY <1>2 DEF SlotsAreAccounted, Scanning
  <2>4. GivenBack = Cardinality(Scanning') + Cardinality(closed \ {c})
    BY <1>5, <2>2, <2>3, ScanningFinite, ClosedFinite DEF GivenBack
  <2>5. GivenBack = Cardinality({d \in Callers : at'[d] = "scanning"}) + Cardinality(closed \ {c})
    BY <2>4 DEF Scanning
  <2>6. \A d \in closed \ {c} : at'[d] = "waiting"
    BY <1>1, <1>2, <1>3 DEF WaitersAreQueued
  <2>7. \A i \in 1..Len(waiters) : at'[waiters[i]] = "waiting"
    BY <1>1, <1>2, <1>3, <1>8 DEF WaitersAreQueued, Place
  <2>8. \A d \in Callers : at'[d] = "waiting" => d \in closed \ {c} \/ Place(d) # {}
    BY <1>2, <1>3 DEF WaitersAreQueued
  <2>9. GivenBack \in Int /\ limit' = limit /\ closed \ {c} \in SUBSET closed
    BY <1>1 DEF GivenBack
  <2>10. /\ limit' \in Limits /\ running' \in Int /\ waiters' \in Seq(Callers)
         /\ closed' \in SUBSET Callers /\ SlotsInv'
    BY <1>1, <1>2, <1>8, <2>5, <2>6, <2>7, <2>8, <2>9, AdmitInv
  <2> QED
    BY <1>1, <1>4, <1>6, <2>10 DEF Types, lockVars
<1> QED
  BY <1>7, <1>8 DEF CancelWaiting

(* release: the slot goes to the oldest waiter.                            *)
LEMMA ReleaseInv ==
    ASSUME QueueAssumption, Inv, NEW c \in Callers, Release(c)
    PROVE  Inv'
<1> USE DEF Inv
<1>1. /\ at[c] = "scanning" /\ at' = [at EXCEPT ![c] = "scanned"]
      /\ UNCHANGED <<file, lockVars, limit>>
      /\ waiters \in Seq(Callers) /\ limit \in Limits /\ running \in Int
  BY DEF Release, Types, Go
<1>2. WaitersAreQueued /\ SlotsAreAccounted
  BY DEF SlotsInv
<1>3. at'[c] = "scanned" /\ \A d \in Callers : d # c => at'[d] = at[d]
  BY <1>1 DEF Types
<1>4. LocksInv'
  BY <1>1, <1>3, LocksUntouched DEF Inside
<1>5. Cardinality(Scanning') = Cardinality(Scanning) - 1
  <2>1. Scanning' = Scanning \ {c} /\ c \in Scanning
    BY <1>1, <1>3 DEF Scanning
  <2> QED
    BY <2>1, ScanningFinite, FS_RemoveElement
<1>6. running - 1 = Cardinality({d \in Callers : at'[d] = "scanning"}) + Cardinality(closed)
  <2>1. running = Cardinality(Scanning) + Cardinality(closed)
    BY <1>2 DEF SlotsAreAccounted, Scanning
  <2>2. running - 1 = Cardinality(Scanning') + Cardinality(closed)
    BY <1>5, <2>1, ScanningFinite, ClosedFinite
  <2> QED
    BY <2>2 DEF Scanning
<1>7. \A d \in closed : at'[d] = "waiting"
  BY <1>1, <1>2, <1>3 DEF WaitersAreQueued, Types
<1>8. \A i \in 1..Len(waiters) : at'[waiters[i]] = "waiting"
  BY <1>1, <1>2, <1>3 DEF WaitersAreQueued
<1>9. \A d \in Callers : at'[d] = "waiting" => d \in closed \/ Place(d) # {}
  BY <1>2, <1>3 DEF WaitersAreQueued
<1>10. running - 1 \in Int /\ limit' = limit /\ closed \in SUBSET closed
  BY <1>1
<1>11. Admit(running - 1, limit, waiters, closed)
  BY DEF Release
<1>12. /\ limit' \in Limits /\ running' \in Int /\ waiters' \in Seq(Callers)
       /\ closed' \in SUBSET Callers /\ SlotsInv'
  BY <1>1, <1>2, <1>6, <1>7, <1>8, <1>9, <1>10, <1>11, AdmitInv
<1>13. at' \in [Callers -> Steps]
  BY <1>1 DEF Types, Steps
<1> QED
  BY <1>1, <1>4, <1>12, <1>13 DEF Types, lockVars

(* setLimit: a larger limit lets waiters in at once.                       *)
LEMMA SetLimitInv ==
    ASSUME QueueAssumption, Inv, NEW n \in Limits, SetLimit(n)
    PROVE  Inv'
<1> USE DEF Inv
<1>1. /\ limit' = n /\ Admit(running, n, waiters, closed)
      /\ UNCHANGED <<at, file, lockVars>> /\ running \in Int /\ waiters \in Seq(Callers)
  BY DEF SetLimit, Types
<1>2. WaitersAreQueued /\ SlotsAreAccounted
  BY DEF SlotsInv
<1>3. LocksInv'
  BY <1>1, LocksUntouched
<1>4. running = Cardinality({d \in Callers : at'[d] = "scanning"}) + Cardinality(closed)
  BY <1>1, <1>2 DEF SlotsAreAccounted
<1>5. /\ \A d \in closed : at'[d] = "waiting"
      /\ \A i \in 1..Len(waiters) : at'[waiters[i]] = "waiting"
      /\ \A d \in Callers : at'[d] = "waiting" => d \in closed \/ Place(d) # {}
      /\ closed \in SUBSET closed
  BY <1>1, <1>2 DEF WaitersAreQueued
<1>6. /\ limit' \in Limits /\ running' \in Int /\ waiters' \in Seq(Callers)
      /\ closed' \in SUBSET Callers /\ SlotsInv'
  BY <1>1, <1>2, <1>4, <1>5, AdmitInv
<1> QED
  BY <1>1, <1>3, <1>6 DEF Types, lockVars

-----------------------------------------------------------------------------
(* The queue's invariant *)

LEMMA StepInv == ASSUME QueueAssumption, Inv, [Next]_vars PROVE Inv'
<1>1. ASSUME NEW c \in Callers,
             \/ CallUncached(c) \/ TakeToken(c) \/ CancelLocking(c) \/ SkipScan(c)
             \/ Acquire(c) \/ Enter(c) \/ CancelWaiting(c) \/ Release(c)
             \/ TakeOut(c) \/ Unlocked(c) \/ ReturnUncached(c)
      PROVE  Inv'
  BY <1>1, UncachedInv, TakeTokenInv, DropInv, SkipScanInv, AcquireInv, EnterInv,
     CancelWaitingInv, ReleaseInv, TakeOutInv DEF CancelLocking, Unlocked
<1>2. ASSUME NEW c \in Callers, NEW f \in Files, Call(c, f) PROVE Inv'
  BY <1>2, CallInv
<1>3. ASSUME NEW n \in Limits, SetLimit(n) PROVE Inv'
  BY <1>3, SetLimitInv
<1>4. ASSUME UNCHANGED vars PROVE Inv'
  <2>1. UNCHANGED <<at, file, mine, table, refs, token, limit, running, waiters, closed>>
    BY <1>4 DEF vars, lockVars, slotVars
  <2> QED
    BY <2>1 DEF Inv, Types, LocksInv, EntriesAreShared, RefsCountUsers, UsersOf, TokensAreHolders,
       HasLock, SlotsInv, WaitersAreQueued, SlotsAreAccounted, NoIdleSlot, Place
<1> QED
  BY <1>1, <1>2, <1>3, <1>4 DEF Next

(* What the invariant says of the queue from outside.                      *)
LEMMA InvGivesQueueInv == ASSUME QueueAssumption, Inv PROVE QueueInv
<1> USE DEF Inv, LocksInv, SlotsInv
<1>1. TypeOK
  <2>1. running \in Nat
    <3>1. Cardinality(Scanning) \in Nat /\ Cardinality(closed) \in Nat
      BY ScanningFinite, ClosedFinite, FS_CardinalityType
    <3> QED
      BY <3>1 DEF SlotsAreAccounted, Scanning
  <2>2. \A l \in Locks : refs[l] \in Nat
    BY UsersAreFinite, FS_CardinalityType DEF RefsCountUsers
  <2> QED
    BY <2>1, <2>2 DEF Types, TypeOK
<1>2. OneScanPerFile
  <2> SUFFICES ASSUME NEW c \in Callers, NEW d \in Callers, HasLock(c), HasLock(d), file[c] = file[d]
               PROVE  c = d
    BY DEF OneScanPerFile
  <2>1. mine[c] = mine[d]
    BY DEF HasLock, EntriesAreShared
  <2> QED
    BY <2>1 DEF TokensAreHolders
<1>3. TableHoldsUsersOnly
  BY DEF TableHoldsUsersOnly, EntriesAreShared, QueueAssumption
<1> QED
  BY <1>1, <1>2, <1>3 DEF QueueInv

(* One scan of a file at a time, no lock of a file kept without a user,    *)
(* every slot accounted for also when a cancel comes in the instant of the *)
(* grant, and no slot free beside a waiter (queue.go: fileLocks and        *)
(* slotLimiter), for any number of callers, files and limits.              *)
THEOREM QueueIsRight == ASSUME QueueAssumption PROVE Spec => []QueueInv
<1>1. Init => Inv
  BY InitInv
<1>2. Inv /\ [Next]_vars => Inv'
  BY StepInv
<1>3. Inv => QueueInv
  BY InvGivesQueueInv
<1> QED
  BY <1>1, <1>2, <1>3, PTL DEF Spec

-----------------------------------------------------------------------------
(* First come, first served *)

Served(c, w) ==
    /\ running' <= limit'
    /\ Place(w) # {} /\ Place(w)' # {} => \E i \in Place(c), j \in Place(w) : i < j

(* admitLocked lets in the oldest, and no more than fit.                   *)
LEMMA AdmitServes ==
    ASSUME QueueAssumption, Types, NEW run \in Int, NEW lim \in Limits, NEW granted \in SUBSET closed,
           Admit(run, lim, waiters, granted), limit' = lim,
           NEW c \in closed' \ closed, NEW w \in Callers
    PROVE  Served(c, w)
<1> DEFINE n == Free(run, lim, waiters)
<1>1. /\ lim \in Int /\ waiters \in Seq(Callers) /\ Len(waiters) \in Nat
  BY DEF Types, QueueAssumption
<1>2. n \in 0..Len(waiters) /\ (n > 0 => run + n <= lim)
  BY <1>1, FreeType DEF Free
<1>3. /\ running' = run + n
      /\ waiters' = SubSeq(waiters, n + 1, Len(waiters))
      /\ \E i \in 1..n : c = waiters[i]
  BY DEF Admit
<1> HIDE DEF n
<1>4. PICK i \in 1..n : c = waiters[i]
  BY <1>3
<1>5. i \in Place(c) /\ running' <= limit'
  BY <1>1, <1>2, <1>3, <1>4 DEF Place
<1>6. ASSUME Place(w)' # {} PROVE \E j \in Place(w) : i < j
  <2>1. PICK k \in 1..Len(waiters') : waiters'[k] = w
    BY <1>6 DEF Place
  <2>2. k \in 1..Len(waiters) - n /\ waiters[n + k] = w
    BY <1>1, <1>2, <1>3, <2>1, RestProperties
  <2>3. n + k \in Place(w) /\ i < n + k
    BY <1>1, <1>2, <1>4, <2>2 DEF Place
  <2> QED
    BY <2>3
<1> QED
  BY <1>5, <1>6 DEF Served

(* Whoever gets a slot stood before everyone who goes on waiting, and fits *)
(* under the limit (acquire, admitLocked), also when the limit changes.    *)
THEOREM Order == ASSUME QueueAssumption PROVE Spec => FirstComeFirstServed
<1>1. ASSUME Inv, [Next]_vars, NEW c \in Callers, NEW w \in Callers, ~HasSlot(c), HasSlot(c)'
      PROVE  Served(c, w)
  <2>1. Types /\ running \in Int /\ limit \in Int /\ limit \in Limits /\ closed \in SUBSET closed
    BY <1>1 DEF Inv, Types, QueueAssumption
  <2>2. ASSUME closed' = closed, \A d \in Callers : at'[d] = "scanning" => at[d] = "scanning"
        PROVE  FALSE
    BY <1>1, <2>2 DEF HasSlot
  <2>4. ASSUME NEW d \in Callers, Acquire(d) PROVE Served(c, w)
    <3>1. CASE MayEnter /\ running' = running + 1
      <4>1. running' <= limit' /\ Place(w) = {}
        BY <2>1, <2>4, <3>1 DEF Acquire, MayEnter, Place
      <4> QED
        BY <4>1 DEF Served
    <3>2. CASE Go(d, "waiting")
      <4>1. closed' = closed /\ at' = [at EXCEPT ![d] = "waiting"]
        BY <2>4, <3>2 DEF Acquire, Go
      <4> QED
        BY <2>1, <2>2, <4>1 DEF Types
    <3> QED
      BY <2>4, <3>1, <3>2 DEF Acquire
  <2>5. ASSUME NEW d \in Callers, Enter(d) PROVE Served(c, w)
    <3>1. c # d /\ at'[c] = at[c] /\ closed' \subseteq closed
      BY <1>1, <2>1, <2>5 DEF Enter, Go, HasSlot, Types
    <3> QED
      BY <1>1, <3>1 DEF HasSlot
  <2>6. ASSUME NEW d \in Callers, CancelWaiting(d) PROVE Served(c, w)
    <3>1. at'[c] # "scanning"
      BY <1>1, <2>1, <2>6 DEF CancelWaiting, Go, HasSlot, Types
    <3>2. c \in closed' \ closed
      BY <1>1, <3>1 DEF HasSlot
    <3>3. Admit(GivenBack, limit, waiters, closed \ {d}) /\ limit' = limit
      BY <2>6, <3>2 DEF CancelWaiting
    <3> QED
      BY <2>1, <3>2, <3>3, AdmitServes DEF GivenBack
  <2>7. ASSUME NEW d \in Callers, Release(d) PROVE Served(c, w)
    <3>1. at'[c] # "scanning"
      BY <1>1, <2>1, <2>7 DEF Release, Go, HasSlot, Types
    <3>2. c \in closed' \ closed
      BY <1>1, <3>1 DEF HasSlot
    <3> QED
      BY <2>1, <2>7, <3>2, AdmitServes DEF Release
  <2>8. ASSUME NEW n \in Limits, SetLimit(n) PROVE Served(c, w)
    <3>1. c \in closed' \ closed
      BY <1>1, <2>8 DEF SetLimit, HasSlot
    <3> QED
      BY <2>1, <2>8, <3>1, AdmitServes DEF SetLimit
  <2>9. ASSUME NEW d \in Callers,
               \/ CallUncached(d) \/ (\E f \in Files : Call(d, f)) \/ TakeToken(d) \/ CancelLocking(d)
               \/ SkipScan(d) \/ TakeOut(d) \/ Unlocked(d) \/ ReturnUncached(d)
        PROVE  Served(c, w)
    <3>1. closed' = closed /\ \E step \in Steps \ {"scanning"} : at' = [at EXCEPT ![d] = step]
      BY <2>9 DEF CallUncached, Call, TakeToken, CancelLocking, SkipScan, TakeOut, Unlocked, ReturnUncached,
         Drop, Go, slotVars, Steps
    <3> QED
      BY <2>1, <2>2, <3>1 DEF Types
  <2>10. ASSUME UNCHANGED vars PROVE Served(c, w)
    BY <2>2, <2>10 DEF vars, slotVars
  <2> QED
    BY <1>1, <2>4, <2>5, <2>6, <2>7, <2>8, <2>9, <2>10 DEF Next
<1>2. Inv /\ [Next]_vars =>
        [\A c, w \in Callers : ~HasSlot(c) /\ HasSlot(c)' =>
            /\ running' <= limit'
            /\ Place(w) # {} /\ Place(w)' # {} => \E i \in Place(c), j \in Place(w) : i < j]_vars
  BY <1>1 DEF Served
<1>3. Init => Inv
  BY InitInv
<1>4. Inv /\ [Next]_vars => Inv'
  BY StepInv
<1> QED
  BY <1>2, <1>3, <1>4, PTL DEF Spec, FirstComeFirstServed

=============================================================================
