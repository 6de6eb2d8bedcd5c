-------------------------- MODULE Documents_proofs --------------------------
(***************************************************************************)
(* The safety of a document, and of a report that keeps two of them.       *)
(*                                                                         *)
(* A document (DocumentStore), for any number of records, callers, crashes *)
(* and failed writes: the invariant that carries the argument is Covered,  *)
(* whoever may write the file works on a map that holds everything the     *)
(* file holds.  It needs the boot order: with a load "beside" the traffic  *)
(* it is false, and so are the theorems that rest on it.                   *)
(*                                                                         *)
(* Monitoring (MonitoringInvariants), for any number of conditions,        *)
(* reports, faults and crashes, any threshold, cooldown and history: a     *)
(* report waits in the chains of two documents one after the other, and    *)
(* the argument follows the order of those chains.                         *)
(***************************************************************************)
EXTENDS DocumentStore, MonitoringInvariants, SequenceTheorems, FiniteSetTheorems, TLAPS

\* A link that writes has a head that changed a record of a loaded map.
Writing ==
    link = "writing" =>
        /\ links # <<>>
        /\ HeadRequest \in [kind : {"insert", "update"}, key : Entries]
        /\ loaded
        /\ reader = "nobody"

\* One reader at a time, and what it has read is what the file still holds.
Reading ==
    /\ reader # "nobody" => loaded /\ contents = disk
    /\ reader = "link" <=> link = "loading"
    /\ reader = "boot" => boot = "before"
    /\ boot = "before" /\ (~loaded \/ reader # "nobody") => links = <<>>

Covered ==
    (readFailures = 0 /\ loaded /\ reader = "nobody") =>
        \A k \in Entries : disk[k] <= memory[k]

BootIsOrdered == "beside" \notin Boots

-----------------------------------------------------------------------------
(* A document: type correctness, for every boot order *)

\* What TypeOK needs to be inductive: the written record exists.
StoreTypeInv ==
    /\ StoreTypeOK
    /\ link = "writing" =>
        /\ links # <<>>
        /\ HeadRequest \in [kind : {"insert", "update"}, key : Entries]
    /\ reader = "link" => link = "loading"

\* The initial state is well typed.
LEMMA StoreTypeInit == StoreInit => StoreTypeInv
<1> SUFFICES ASSUME StoreInit PROVE StoreTypeInv
  OBVIOUS
<1>1. Empty \in Document
  BY DocumentStoreAssumption DEF DocumentStoreAssumption, Empty, Document, Revision
<1>2. request \in [Clients -> Request \cup {NoRequest}]
  BY DEF StoreInit
<1>3. crashes \in 0..MaxCrashes /\ writeFailures \in 0..MaxWriteFailures
      /\ readFailures \in 0..MaxReadFailures
  BY DocumentStoreAssumption DEF DocumentStoreAssumption, StoreInit
<1>4. links \in Seq(Clients)
  BY DEF StoreInit
<1> QED
  BY <1>1, <1>2, <1>3, <1>4 DEF StoreInit, StoreTypeInv, StoreTypeOK, LinkPhases

\* Every step keeps the types.
LEMMA StoreTypeStep == StoreTypeInv /\ [StoreNext]_storeVars => StoreTypeInv'
<1> SUFFICES ASSUME StoreTypeInv, [StoreNext]_storeVars PROVE StoreTypeInv'
  OBVIOUS
<1> USE DocumentStoreAssumption DEF DocumentStoreAssumption
<1>1. CASE BootLoad
  BY <1>1 DEF BootLoad, BeginLoad, StoreTypeInv, StoreTypeOK, bounds, HeadRequest
<1>2. CASE LoadSucceeds
  <2>1. memory' \in Document
    BY <1>2 DEF LoadSucceeds, StoreTypeInv, StoreTypeOK, Document, Revision
  <2> QED
    BY <1>2, <2>1 DEF LoadSucceeds, EndLoad, StoreTypeInv, StoreTypeOK, HeadRequest, LinkPhases
<1>3. CASE LoadFails
  BY <1>3 DEF LoadFails, EndLoad, StoreTypeInv, StoreTypeOK, HeadRequest, LinkPhases
<1>4. ASSUME NEW c \in Clients, NEW r \in Request, Transact(c, r)
      PROVE StoreTypeInv'
  <2>1. links' \in Seq(Clients) /\ request' \in [Clients -> Request \cup {NoRequest}]
    BY <1>4 DEF Transact, StoreTypeInv, StoreTypeOK
  <2>2. link = "writing" => links' # <<>> /\ links'[1] = links[1] /\ links[1] \in Clients
    BY <1>4 DEF Transact, StoreTypeInv, StoreTypeOK
  <2>3. link = "writing" => request'[links[1]] = request[links[1]]
    BY <1>4, <2>2 DEF Transact, StoreTypeInv, StoreTypeOK, HeadRequest, NoRequest
  <2> QED
    BY <1>4, <2>1, <2>2, <2>3 DEF Transact, StoreTypeInv, StoreTypeOK, bounds, HeadRequest
<1>5. CASE LinkLoads
  BY <1>5 DEF LinkLoads, BeginLoad, LinkIsDue, StoreTypeInv, StoreTypeOK, bounds, LinkPhases
<1>6. CASE LinkApplies
  <2>1. HeadRequest \in [kind : {"insert", "update"}, key : Entries]
    BY <1>6 DEF LinkApplies, LinkIsDue, Changes, HeadRequest, StoreTypeInv, StoreTypeOK,
                Request, NoRequest
  <2>2. memory[HeadRequest.key] + 1 \in Revision
    BY <1>6, <2>1 DEF LinkApplies, Changes, StoreTypeInv, StoreTypeOK, Document, Revision
  <2>3. memory' \in Document
    BY <1>6, <2>1, <2>2 DEF LinkApplies, StoreTypeInv, StoreTypeOK, Document
  <2> QED
    BY <1>6, <2>1, <2>3 DEF LinkApplies, LinkIsDue, StoreTypeInv, StoreTypeOK, bounds, HeadRequest,
                LinkPhases
<1>7. CASE LinkLeaves
  BY <1>7 DEF LinkLeaves, LinkIsDue, Resume, StoreTypeInv, StoreTypeOK, bounds, LinkPhases
<1>8. CASE LinkWrites
  <2>1. HeadRequest.key \in Entries
    BY <1>8 DEF LinkWrites, StoreTypeInv
  <2>2. acked' \in Document
    BY <1>8, <2>1 DEF LinkWrites, StoreTypeInv, StoreTypeOK, Document
  <2> QED
    BY <1>8, <2>2 DEF LinkWrites, SnapshotToWrite, Resume, StoreTypeInv, StoreTypeOK, bounds,
       LinkPhases
<1>9. CASE LinkWriteFails
  <2>1. HeadRequest.key \in Entries
    BY <1>9 DEF LinkWriteFails, StoreTypeInv
  <2>2. acked' \in Document
    BY <1>9, <2>1 DEF LinkWriteFails, StoreTypeInv, StoreTypeOK, Document
  <2> QED
    BY <1>9, <2>2 DEF LinkWriteFails, Resume, StoreTypeInv, StoreTypeOK, LinkPhases
<1>10. CASE StoreCrash
  <2>1. Empty \in Document
    BY DEF Empty, Document, Revision
  <2>2. request' \in [Clients -> Request \cup {NoRequest}]
    BY <1>10 DEF StoreCrash
  <2>3. crashes' \in 0..MaxCrashes
    BY <1>10 DEF StoreCrash, StoreTypeInv, StoreTypeOK
  <2>4. links' \in Seq(Clients)
    BY <1>10 DEF StoreCrash
  <2> QED
    BY <1>10, <2>1, <2>2, <2>3, <2>4 DEF StoreCrash, StoreTypeInv, StoreTypeOK, LinkPhases
<1>11. CASE UNCHANGED storeVars
  BY <1>11 DEF storeVars, StoreTypeInv, StoreTypeOK, HeadRequest
<1> QED
  BY <1>1, <1>2, <1>3, <1>4, <1>5, <1>6, <1>7, <1>8, <1>9, <1>10, <1>11
  DEF StoreNext, FinishLoad, LinkStep

\* The store keeps its types whatever the boot order, crashes and failures
\* (AlertStore: maps, file, chain and flags).
THEOREM TypeCorrect == StoreSpec => []StoreTypeOK
<1>1. StoreTypeInv => StoreTypeOK
  BY DEF StoreTypeInv
<1> QED
  BY <1>1, StoreTypeInit, StoreTypeStep, PTL DEF StoreSpec

-----------------------------------------------------------------------------
(* A document: no saved record is lost, when the boot order is kept *)

SafeInv == StoreTypeInv /\ Writing /\ Reading /\ Covered /\ ResumedMeansSaved

\* The initial state is safe.
LEMMA SafeInit == StoreInit => SafeInv
<1> SUFFICES ASSUME StoreInit PROVE SafeInv
  OBVIOUS
<1>1. StoreTypeInv
  BY StoreTypeInit
<1>2. ResumedMeansSaved
  BY DEF StoreInit, ResumedMeansSaved, Empty
<1> QED
  BY <1>1, <1>2 DEF StoreInit, SafeInv, Writing, Reading, Covered

\* A write replaces the file by a map that covers it.
LEMMA WriteCovers ==
  ASSUME SafeInv, link = "writing", readFailures = 0
  PROVE  \A k \in Entries : disk[k] <= memory[k]
  BY DEF SafeInv, Writing, Covered

\* With an ordered boot, every step keeps the store safe.
LEMMA SafeStep ==
  ASSUME BootIsOrdered, SafeInv, [StoreNext]_storeVars
  PROVE  SafeInv'
<1> USE DEF SafeInv
<1>1. StoreTypeInv'
  BY StoreTypeStep
<1>2. StoreTypeOK
  BY DEF StoreTypeInv
<1>3. boot \in {"before", "lazy"}
  BY <1>2, DocumentStoreAssumption DEF BootIsOrdered, StoreTypeOK, DocumentStoreAssumption
<1>4. CASE BootLoad
  BY <1>1, <1>2, <1>3, <1>4 DEF BootLoad, BeginLoad, Writing, Reading, Covered, ResumedMeansSaved,
     StoreTypeOK, HeadRequest, bounds
<1>5. CASE LoadSucceeds
  <2>1. \A k \in Entries : disk[k] <= memory'[k]
    BY <1>2, <1>5 DEF LoadSucceeds, EndLoad, Reading, StoreTypeOK, Document, Revision
  <2> QED
    BY <1>1, <1>5, <2>1 DEF LoadSucceeds, EndLoad, Writing, Reading, Covered,
       ResumedMeansSaved, HeadRequest
<1>6. CASE LoadFails
  BY <1>1, <1>2, <1>6 DEF LoadFails, EndLoad, Writing, Reading, Covered, ResumedMeansSaved,
     StoreTypeOK, HeadRequest
<1>7. ASSUME NEW c \in Clients, NEW r \in Request, Transact(c, r)
      PROVE SafeInv'
  <2>1. Writing'
    <3>1. link = "writing" => links' # <<>> /\ links'[1] = links[1] /\ links[1] \in Clients
      BY <1>2, <1>7 DEF Transact, Writing, StoreTypeOK
    <3>2. link = "writing" => request'[links[1]] = request[links[1]]
      BY <1>2, <1>7, <3>1 DEF Transact, Writing, StoreTypeOK, HeadRequest, NoRequest
    <3> QED
      BY <1>7, <3>1, <3>2 DEF Transact, Writing, HeadRequest
  <2>2. Reading' /\ Covered' /\ ResumedMeansSaved'
    BY <1>7 DEF Transact, Reading, Covered, ResumedMeansSaved, bounds
  <2> QED
    BY <1>1, <2>1, <2>2
<1>8. CASE LinkLoads
  BY <1>1, <1>2, <1>3, <1>8 DEF LinkLoads, BeginLoad, LinkIsDue, Writing, Reading, Covered,
     ResumedMeansSaved, StoreTypeOK, bounds
<1>9. CASE LinkApplies
  <2>1. HeadRequest \in [kind : {"insert", "update"}, key : Entries]
    BY <1>2, <1>9 DEF LinkApplies, LinkIsDue, Changes, HeadRequest, StoreTypeOK, Request, NoRequest
  <2>2. \A k \in Entries : memory[k] <= memory'[k]
    BY <1>2, <1>9, <2>1 DEF LinkApplies, StoreTypeOK, Document, Revision
  <2>3. reader = "nobody"
    BY <1>2, <1>3, <1>9 DEF LinkApplies, LinkIsDue, Reading, StoreTypeOK
  <2>4. Covered'
    BY <1>1, <1>2, <1>9, <2>2 DEF LinkApplies, Covered, bounds, StoreTypeInv, StoreTypeOK, Document,
       Revision
  <2> QED
    BY <1>1, <1>9, <2>1, <2>3, <2>4 DEF LinkApplies, LinkIsDue, Writing, Reading,
       ResumedMeansSaved, HeadRequest, bounds
<1>10. CASE LinkLeaves
  BY <1>1, <1>2, <1>3, <1>10 DEF LinkLeaves, LinkIsDue, Resume, Writing, Reading, Covered,
     ResumedMeansSaved, StoreTypeOK, bounds
<1>11. CASE LinkWrites
  <2>1. HeadRequest.key \in Entries
    BY <1>11 DEF LinkWrites, Writing
  <2>2. ASSUME readFailures = 0, writeFailures = 0, NEW k \in Entries
        PROVE  acked'[k] <= memory[k]
    <3>1. disk[k] <= memory[k] /\ acked[k] <= disk[k]
      BY <1>11, <2>2, WriteCovers DEF LinkWrites, ResumedMeansSaved
    <3>2. acked[k] \in Nat /\ disk[k] \in Nat /\ memory[k] \in Nat
      BY <1>2 DEF StoreTypeOK, Document, Revision
    <3>3. acked'[k] = IF k = HeadRequest.key THEN memory[k] ELSE acked[k]
      BY <1>2, <1>11, <2>1 DEF LinkWrites, StoreTypeOK, Document
    <3> QED
      BY <3>1, <3>2, <3>3
  <2>3. ResumedMeansSaved'
    BY <1>11, <2>2 DEF LinkWrites, SnapshotToWrite, ResumedMeansSaved, bounds
  <2>4. Covered'
    BY <1>2, <1>11 DEF LinkWrites, SnapshotToWrite, Covered, StoreTypeOK, Document, Revision
  <2> QED
    BY <1>1, <1>11, <2>3, <2>4 DEF LinkWrites, Writing, Reading, Resume, bounds
<1>12. CASE LinkWriteFails
  BY <1>1, <1>2, <1>12 DEF LinkWriteFails, Writing, Reading, Covered, Resume, ResumedMeansSaved,
     StoreTypeOK
<1>13. CASE StoreCrash
  BY <1>1, <1>13 DEF StoreCrash, Writing, Reading, Covered, ResumedMeansSaved
<1>14. CASE UNCHANGED storeVars
  BY <1>1, <1>14 DEF storeVars, Writing, Reading, Covered, ResumedMeansSaved, HeadRequest
<1> QED
  BY <1>4, <1>5, <1>6, <1>7, <1>8, <1>9, <1>10, <1>11, <1>12, <1>13, <1>14
  DEF StoreNext, FinishLoad, LinkStep

\* The store is safe in every state.
LEMMA SafeAlways ==
  ASSUME BootIsOrdered
  PROVE  StoreSpec => []SafeInv
  BY SafeInit, SafeStep, PTL DEF StoreSpec

\* No operation ever works on a map that misses a saved record (transact, load).
THEOREM MemoryAlwaysCoversDisk ==
  ASSUME BootIsOrdered
  PROVE  StoreSpec => []MemoryCoversDisk
<1>1. SafeInv => MemoryCoversDisk
  BY DEF SafeInv, Covered, MemoryCoversDisk
<1> QED
  BY <1>1, SafeAlways, PTL

\* A caller that resumed finds its change in the file (transact, writeFile).
THEOREM ResumedIsSaved ==
  ASSUME BootIsOrdered
  PROVE  StoreSpec => []ResumedMeansSaved
<1>1. SafeInv => ResumedMeansSaved
  BY DEF SafeInv
<1> QED
  BY <1>1, SafeAlways, PTL

\* No step takes a saved record back (writeFile, snapshot, load).
THEOREM SavedRecordsAlwaysSurvive ==
  ASSUME BootIsOrdered
  PROVE  StoreSpec => SavedRecordsSurvive
<1> DEFINE Kept == readFailures' = 0 => \A k \in Entries : disk[k] <= disk'[k]
<1>1. ASSUME SafeInv, [StoreNext]_storeVars PROVE [Kept]_storeVars
  <2>1. StoreTypeOK
    BY <1>1 DEF SafeInv, StoreTypeInv
  <2>2. CASE LinkWrites
    BY <1>1, <2>2, WriteCovers DEF LinkWrites, SnapshotToWrite, bounds
  <2>3. CASE disk' = disk
    BY <2>1, <2>3 DEF StoreTypeOK, Document, Revision
  <2>4. [StoreNext]_storeVars => LinkWrites \/ disk' = disk
    BY DEF StoreNext, FinishLoad, LinkStep, BootLoad, BeginLoad, LoadSucceeds, LoadFails, EndLoad,
       Transact, LinkLoads, LinkApplies, LinkLeaves, LinkWriteFails, StoreCrash, storeVars
  <2> QED
    BY <1>1, <2>2, <2>3, <2>4
<1> QED
  BY <1>1, SafeAlways, PTL DEF StoreSpec, SavedRecordsSurvive

-----------------------------------------------------------------------------
(* Monitoring: who waits where *)

\* Without its head, a chain is in the order it was.
LEMMA TailOrder ==
  ASSUME NEW S, NEW s \in Seq(S), s # <<>>, NoTwice(s)
  PROVE  /\ Tail(s) \in Seq(S) /\ NoTwice(Tail(s))
         /\ \A b : Stands(Tail(s), b) <=> Stands(s, b) /\ b # Head(s)
         /\ \A a, b : InOrder(Tail(s), a, b) <=> InOrder(s, a, b) /\ a # Head(s) /\ b # Head(s)
<1>1. /\ Tail(s) \in Seq(S) /\ Len(s) \in Nat /\ Len(s) > 0 /\ Len(Tail(s)) = Len(s) - 1
      /\ Head(s) = s[1] /\ \A i \in 1 .. Len(Tail(s)) : Tail(s)[i] = s[i + 1]
  OBVIOUS
<1>2. NoTwice(Tail(s))
  BY <1>1 DEF NoTwice
<1>3. ASSUME NEW b PROVE Stands(Tail(s), b) <=> Stands(s, b) /\ b # Head(s)
  <2>1. ASSUME Stands(Tail(s), b) PROVE Stands(s, b) /\ b # Head(s)
    <3>1. PICK i \in 1 .. Len(Tail(s)) : Tail(s)[i] = b
      BY <2>1 DEF Stands
    <3>2. i + 1 \in 1 .. Len(s) /\ s[i + 1] = b /\ i + 1 # 1 /\ 1 \in 1 .. Len(s)
      BY <1>1, <3>1
    <3> QED
      BY <1>1, <3>2 DEF Stands, NoTwice
  <2>2. ASSUME Stands(s, b), b # Head(s) PROVE Stands(Tail(s), b)
    <3>1. PICK i \in 1 .. Len(s) : s[i] = b
      BY <2>2 DEF Stands
    <3>2. i - 1 \in 1 .. Len(Tail(s)) /\ Tail(s)[i - 1] = b
      BY <1>1, <2>2, <3>1
    <3> QED
      BY <3>2 DEF Stands
  <2> QED
    BY <2>1, <2>2
<1>4. ASSUME NEW a, NEW b
      PROVE  InOrder(Tail(s), a, b) <=> InOrder(s, a, b) /\ a # Head(s) /\ b # Head(s)
  <2>1. ASSUME InOrder(Tail(s), a, b) PROVE InOrder(s, a, b) /\ a # Head(s) /\ b # Head(s)
    <3>1. PICK i, k \in 1 .. Len(Tail(s)) : i < k /\ Tail(s)[i] = a /\ Tail(s)[k] = b
      BY <2>1 DEF InOrder
    <3>2. /\ i + 1 \in 1 .. Len(s) /\ s[i + 1] = a /\ i + 1 # 1 /\ 1 \in 1 .. Len(s)
          /\ k + 1 \in 1 .. Len(s) /\ s[k + 1] = b /\ k + 1 # 1 /\ i + 1 < k + 1
      BY <1>1, <3>1
    <3> QED
      BY <1>1, <3>2 DEF InOrder, NoTwice
  <2>2. ASSUME InOrder(s, a, b), a # Head(s), b # Head(s) PROVE InOrder(Tail(s), a, b)
    <3>1. PICK i, k \in 1 .. Len(s) : i < k /\ s[i] = a /\ s[k] = b
      BY <2>2 DEF InOrder
    <3>2. /\ i - 1 \in 1 .. Len(Tail(s)) /\ Tail(s)[i - 1] = a
          /\ k - 1 \in 1 .. Len(Tail(s)) /\ Tail(s)[k - 1] = b /\ i - 1 < k - 1
      BY <1>1, <2>2, <3>1
    <3> QED
      BY <3>2 DEF InOrder
  <2> QED
    BY <2>1, <2>2
<1> QED
  BY <1>1, <1>2, <1>3, <1>4

\* Who comes stands behind everybody else.
LEMMA AppendOrder ==
  ASSUME NEW S, NEW s \in Seq(S), NoTwice(s), NEW c \in S, ~ Stands(s, c)
  PROVE  /\ Append(s, c) \in Seq(S) /\ NoTwice(Append(s, c))
         /\ \A b : Stands(Append(s, c), b) <=> Stands(s, b) \/ b = c
         /\ \A a, b : InOrder(Append(s, c), a, b) <=> InOrder(s, a, b) \/ (b = c /\ Stands(s, a))
<1> DEFINE t == Append(s, c)
<1>1. /\ t \in Seq(S) /\ Len(s) \in Nat /\ Len(t) = Len(s) + 1
      /\ t[Len(s) + 1] = c /\ \A i \in 1 .. Len(s) : t[i] = s[i]
  OBVIOUS
<1>2. \A i \in 1 .. Len(s) : s[i] # c
  BY DEF Stands
<1> HIDE DEF t
<1>3. NoTwice(t)
  BY <1>1, <1>2 DEF NoTwice
<1>4. ASSUME NEW b PROVE Stands(t, b) <=> Stands(s, b) \/ b = c
  <2>1. Len(s) + 1 \in 1 .. Len(t) /\ \A i \in 1 .. Len(s) : i \in 1 .. Len(t)
    BY <1>1
  <2>2. \A i \in 1 .. Len(t) : i \in 1 .. Len(s) \/ i = Len(s) + 1
    BY <1>1
  <2> QED
    BY <1>1, <2>1, <2>2 DEF Stands
<1>5. ASSUME NEW a, NEW b
      PROVE  InOrder(t, a, b) <=> InOrder(s, a, b) \/ (b = c /\ Stands(s, a))
  <2>1. ASSUME InOrder(t, a, b) PROVE InOrder(s, a, b) \/ (b = c /\ Stands(s, a))
    <3>1. PICK i, k \in 1 .. Len(t) : i < k /\ t[i] = a /\ t[k] = b
      BY <2>1 DEF InOrder
    <3>2. i \in 1 .. Len(s) /\ s[i] = a
      BY <1>1, <3>1
    <3>3. CASE k = Len(s) + 1
      BY <1>1, <3>1, <3>2, <3>3 DEF Stands
    <3>4. CASE k # Len(s) + 1
      <4>1. k \in 1 .. Len(s) /\ s[k] = b
        BY <1>1, <3>1, <3>4
      <4> QED
        BY <3>1, <3>2, <4>1 DEF InOrder
    <3> QED
      BY <3>3, <3>4
  <2>2. ASSUME InOrder(s, a, b) PROVE InOrder(t, a, b)
    <3>1. PICK i, k \in 1 .. Len(s) : i < k /\ s[i] = a /\ s[k] = b
      BY <2>2 DEF InOrder
    <3>2. i \in 1 .. Len(t) /\ k \in 1 .. Len(t) /\ t[i] = a /\ t[k] = b
      BY <1>1, <3>1
    <3> QED
      BY <3>1, <3>2 DEF InOrder
  <2>3. ASSUME b = c, Stands(s, a) PROVE InOrder(t, a, b)
    <3>1. PICK i \in 1 .. Len(s) : s[i] = a
      BY <2>3 DEF Stands
    <3>2. i \in 1 .. Len(t) /\ Len(s) + 1 \in 1 .. Len(t) /\ i < Len(s) + 1 /\ t[i] = a
      BY <1>1, <3>1
    <3> QED
      BY <1>1, <2>3, <3>2 DEF InOrder
  <2> QED
    BY <2>1, <2>2, <2>3
<1> QED
  BY <1>1, <1>3, <1>4, <1>5 DEF t

\* The head of a chain stands before everybody else.
LEMMA HeadFirst ==
  ASSUME NEW S, NEW s \in Seq(S), s # <<>>, NoTwice(s)
  PROVE  /\ Stands(s, Head(s))
         /\ \A b : Stands(s, b) /\ b # Head(s) => InOrder(s, Head(s), b)
         /\ \A b : ~ InOrder(s, b, Head(s))
         /\ \A b : ~ InOrder(s, b, b)
<1>1. Len(s) \in Nat /\ Len(s) > 0 /\ Head(s) = s[1] /\ 1 \in 1 .. Len(s)
  OBVIOUS
<1>2. Stands(s, Head(s))
  BY <1>1 DEF Stands
<1>3. ASSUME NEW b, Stands(s, b), b # Head(s) PROVE InOrder(s, Head(s), b)
  <2>1. PICK i \in 1 .. Len(s) : s[i] = b
    BY <1>3 DEF Stands
  <2>2. 1 < i
    BY <1>1, <1>3, <2>1
  <2> QED
    BY <1>1, <2>1, <2>2 DEF InOrder
<1>4. \A b : ~ InOrder(s, b, Head(s)) /\ ~ InOrder(s, b, b)
  BY <1>1 DEF InOrder, NoTwice
<1> QED
  BY <1>2, <1>3, <1>4

\* A caller moves: it leaves the chain that it heads, and stands in the next.
Moves(c) ==
    /\ at' = [at EXCEPT ![c] = at'[c]]
    /\ Then(c, Place(at[c]), Place(at'[c]))
    /\ Place(at[c]) # "none" => Turn(c, Place(at[c]))

AtTyped == at = [c \in Callers |-> at[c]]

\* A caller stands in the chain of one document or of none.
LEMMA PlaceKnown ==
  ASSUME NEW s
  PROVE  Place(s) \in Documents \cup {"none"}
  BY DEF Place, Documents

\* Everybody else stays where they are, in the order they were.
LEMMA MovesKeeps ==
  ASSUME AtTyped, Queueing, NEW c \in Callers, Moves(c)
  PROVE  /\ AtTyped' /\ Queueing'
         /\ \A b \in Callers : b # c => at'[b] = at[b]
         /\ \A q \in Documents : \A a, b \in Callers :
              Precedes(q, a, b)' <=>
                \/ Precedes(q, a, b) /\ a # c /\ b # c
                \/ q = Place(at'[c]) /\ b = c /\ a # c /\ Place(at[a]) = q
<1> DEFINE x == at'[c]
           rest(q) == IF q = Place(at[c]) THEN Tail(chain[q]) ELSE chain[q]
<1>1. AtTyped'
  <2>1. DOMAIN at = Callers
    BY DEF AtTyped
  <2> QED
    BY <2>1 DEF Moves, AtTyped
<1>2. \A b \in Callers : b # c => at'[b] = at[b]
  BY DEF Moves, AtTyped
<1>3. \A q \in Documents : chain'[q] = IF q = Place(x) THEN Append(rest(q), c) ELSE rest(q)
  BY DEF Moves, Then
<1>4. chain' = [q \in Documents |-> chain'[q]]
  BY DEF Moves, Then
<1>5. Place(at[c]) \in Documents \cup {"none"} /\ "none" \notin Documents
  BY PlaceKnown DEF Documents
<1>6. ASSUME NEW q \in Documents
      PROVE  /\ rest(q) \in Seq(Callers) /\ NoTwice(rest(q))
             /\ \A b \in Callers : Stands(rest(q), b) <=> Place(at[b]) = q /\ b # c
             /\ \A a, b \in Callers :
                  InOrder(rest(q), a, b) <=> InOrder(chain[q], a, b) /\ a # c /\ b # c
  <2>1. /\ chain[q] \in Seq(Callers) /\ NoTwice(chain[q])
        /\ \A b \in Callers : Place(at[b]) = q <=> Stands(chain[q], b)
    BY DEF Queueing
  <2>2. CASE q = Place(at[c])
    <3>1. chain[q] # <<>> /\ c = Head(chain[q])
      BY <1>5, <2>2 DEF Moves, Turn
    <3> QED
      BY <2>1, <2>2, <3>1, TailOrder
  <2>3. CASE q # Place(at[c])
    <3>1. ~ Stands(chain[q], c)
      BY <2>1, <2>3
    <3>2. \A a, b : InOrder(chain[q], a, b) => Stands(chain[q], a) /\ Stands(chain[q], b)
      BY DEF InOrder, Stands
    <3> QED
      BY <2>1, <2>3, <3>1, <3>2
  <2> QED
    BY <2>2, <2>3
<1> HIDE DEF rest
<1>7. ASSUME NEW q \in Documents
      PROVE  /\ chain'[q] \in Seq(Callers) /\ NoTwice(chain'[q])
             /\ \A b \in Callers :
                  Stands(chain'[q], b) <=> (Place(at[b]) = q /\ b # c) \/ (b = c /\ q = Place(x))
             /\ \A a, b \in Callers :
                  InOrder(chain'[q], a, b) <=>
                    \/ InOrder(chain[q], a, b) /\ a # c /\ b # c
                    \/ q = Place(x) /\ b = c /\ a # c /\ Place(at[a]) = q
  <2>1. CASE q = Place(x)
    <3>1. ~ Stands(rest(q), c) /\ chain'[q] = Append(rest(q), c)
      BY <1>3, <1>6, <2>1
    <3>2. /\ chain'[q] \in Seq(Callers) /\ NoTwice(chain'[q])
          /\ \A b : Stands(chain'[q], b) <=> Stands(rest(q), b) \/ b = c
          /\ \A a, b : InOrder(chain'[q], a, b) <=>
               InOrder(rest(q), a, b) \/ (b = c /\ Stands(rest(q), a))
      BY <1>6, <3>1, AppendOrder
    <3> QED
      BY <1>6, <2>1, <3>2
  <2>2. CASE q # Place(x)
    BY <1>3, <1>6, <2>2
  <2> QED
    BY <2>1, <2>2
<1>8. \A b \in Callers : \A q \in Documents :
        Place(at'[b]) = q <=> (Place(at[b]) = q /\ b # c) \/ (b = c /\ q = Place(x))
  BY <1>2
<1> HIDE DEF x
<1>9. Queueing'
  BY <1>4, <1>7, <1>8 DEF Queueing
<1> QED
  BY <1>1, <1>2, <1>7, <1>9 DEF x, Precedes

\* The head of a chain stands before whoever else stands in it.
LEMMA TurnIsFirst ==
  ASSUME Queueing, NEW c \in Callers, NEW q \in Documents, Turn(c, q)
  PROVE  /\ Place(at[c]) = q
         /\ \A b \in Callers : Place(at[b]) = q /\ b # c => Precedes(q, c, b)
         /\ \A b \in Callers : ~ Precedes(q, b, c)
<1>1. /\ chain[q] \in Seq(Callers) /\ NoTwice(chain[q]) /\ chain[q] # <<>> /\ c = Head(chain[q])
      /\ \A b \in Callers : Place(at[b]) = q <=> Stands(chain[q], b)
  BY DEF Queueing, Turn
<1> QED
  BY <1>1, HeadFirst DEF Precedes

\* A caller that waits nowhere asks for a transaction.
LEMMA AskMoves ==
  ASSUME AtTyped, Queueing, NEW c \in Callers, NEW x, NEW d \in Documents,
         Place(at[c]) = "none", Place(x) = d, Becomes(c, x), Ask(c, d)
  PROVE  Moves(c) /\ at'[c] = x
<1>1. at'[c] = x
  BY DEF Becomes, AtTyped
<1>2. chain' = [q \in Documents |-> IF q = d THEN Append(chain[q], c) ELSE chain[q]]
  BY DEF Ask, Queueing
<1>3. "none" \notin Documents
  BY DEF Documents
<1>4. Then(c, "none", d)
  BY <1>2, <1>3 DEF Then
<1> QED
  BY <1>1, <1>4 DEF Moves, Becomes

\* The head of a chain is done.
LEMMA DoneMoves ==
  ASSUME AtTyped, Queueing, NEW c \in Callers, NEW x, NEW d \in Documents,
         Turn(c, d), Place(x) = "none", Becomes(c, x), Done(d)
  PROVE  Moves(c) /\ at'[c] = x
<1>1. at'[c] = x
  BY DEF Becomes, AtTyped
<1>2. chain' = [q \in Documents |-> IF q = d THEN Tail(chain[q]) ELSE chain[q]]
  BY DEF Done, Queueing
<1>3. "none" \notin Documents
  BY DEF Documents
<1>4. Then(c, d, "none")
  BY <1>2, <1>3 DEF Then
<1>5. Place(at[c]) = d
  BY TurnIsFirst
<1> QED
  BY <1>1, <1>4, <1>5 DEF Moves, Becomes

\* The head of a chain stands in the other, or in its own again.
LEMMA ThenMoves ==
  ASSUME AtTyped, Queueing, NEW c \in Callers, NEW x, NEW d \in Documents,
         Turn(c, d), Becomes(c, x), Then(c, d, Place(x))
  PROVE  Moves(c) /\ at'[c] = x
<1>1. at'[c] = x
  BY DEF Becomes, AtTyped
<1>2. Place(at[c]) = d
  BY TurnIsFirst
<1> QED
  BY <1>1, <1>2 DEF Moves, Becomes

-----------------------------------------------------------------------------
(* How each operation moves its caller *)

\* The documents and the callers are those that the constants name.
LEMMA Documented ==
  /\ {"monitoring", "admin"} \subseteq Documents /\ Place(Idle) = "none"
  /\ AdminKey \in Keys
  /\ Observers \cup {Listener, Human, Dispatcher} \subseteq Callers
  /\ Human \notin Observers \cup {Listener} /\ Dispatcher \notin Observers \cup {Listener, Human}
  BY MonitoringAssumption DEF MonitoringAssumption, Documents, Place, Idle, Callers

\* A failure that is reported waits for its count.
LEMMA CountMoves ==
  ASSUME AtTyped, Queueing, NEW c \in Callers, NEW k, NEW time, at[c] = Idle, Count(c, k, time)
  PROVE  Moves(c) /\ at'[c] = [op |-> "count", key |-> k, time |-> time]
<1> DEFINE x == [op |-> "count", key |-> k, time |-> time]
<1>1. Place(x) = "monitoring"
  BY DEF Place
<1> QED
  BY <1>1, AskMoves, Documented DEF Count

Noting(k, K, time) == [op |-> "note", key |-> k, time |-> time, left |-> K \ {k}]

\* A success that is reported waits for its first watch.
LEMMA NoteMoves ==
  ASSUME AtTyped, Queueing, NEW c \in Callers, NEW K, NEW time, at[c] = Idle, Note(c, K, time)
  PROVE  Moves(c) /\ \E k \in K : at'[c] = Noting(k, K, time)
<1>1. PICK k \in K : Becomes(c, Noting(k, K, time)) /\ Ask(c, "monitoring")
  BY DEF Note, Noting
<1>2. Place(Noting(k, K, time)) = "monitoring"
  BY DEF Place, Noting
<1> QED
  BY <1>1, <1>2, AskMoves, Documented

\* A success goes on to its next watch, or ends.
LEMMA OnwardMoves ==
  ASSUME AtTyped, Queueing, NEW c \in Callers, NEW d \in Documents, NEW K, NEW time,
         Turn(c, d), Onward(c, d, K, time)
  PROVE  Moves(c) /\ (at'[c] = Idle \/ \E k \in K : at'[c] = Noting(k, K, time))
<1>1. CASE K = {}
  BY <1>1, DoneMoves, Documented DEF Onward
<1>2. CASE K # {}
  <2>1. PICK k \in K : Becomes(c, Noting(k, K, time)) /\ Then(c, d, "monitoring")
    BY <1>2 DEF Onward, Noting
  <2>2. Place(Noting(k, K, time)) = "monitoring"
    BY DEF Place, Noting
  <2> QED
    BY <2>1, <2>2, ThenMoves
<1> QED
  BY <1>1, <1>2

\* A failure that was counted ends, or goes on to the admin document.
LEMMA CountedMoves ==
  ASSUME AtTyped, Queueing, NEW c \in Callers, Counted(c)
  PROVE  /\ Moves(c) /\ at[c].op = "count"
         /\ \/ at'[c] = Idle
            \/ at'[c] = [op |-> "record", key |-> at[c].key, time |-> at[c].time,
                         generation |-> Generation(Failed(at[c].key)),
                         notified |-> Failed(at[c].key).notified]
<1> DEFINE w == Failed(at[c].key)
           x == [op |-> "record", key |-> at[c].key, time |-> at[c].time,
                 generation |-> Generation(w), notified |-> w.notified]
<1>1. Turn(c, "monitoring") /\ at[c].op = "count"
  BY DEF Counted
<1>2. \/ Becomes(c, Idle) /\ Done("monitoring")
      \/ Becomes(c, x) /\ Then(c, "monitoring", "admin")
  BY DEF Counted
<1>3. Place(x) = "admin"
  BY DEF Place
<1> HIDE DEF x
<1>4. CASE Becomes(c, Idle) /\ Done("monitoring")
  BY <1>1, <1>4, DoneMoves, Documented
<1>5. CASE Becomes(c, x) /\ Then(c, "monitoring", "admin")
  <2>1. Moves(c) /\ at'[c] = x
    BY <1>1, <1>3, <1>5, ThenMoves, Documented
  <2> QED
    BY <1>1, <2>1 DEF x
<1> QED
  BY <1>2, <1>4, <1>5

\* A failure that was recorded goes back to its watch with the incident.
LEMMA RecordedMoves ==
  ASSUME AtTyped, Queueing, NEW c \in Callers, RecordedBy(c)
  PROVE  /\ Moves(c) /\ at[c].op = "record"
         /\ at'[c] = [op |-> "link", key |-> at[c].key, time |-> at[c].time,
                      generation |-> at[c].generation, notified |-> at[c].notified,
                      incident |-> RecordOf(incidents', at[c].key, at[c].generation)]
<1> DEFINE x == [op |-> "link", key |-> at[c].key, time |-> at[c].time,
                 generation |-> at[c].generation, notified |-> at[c].notified,
                 incident |-> RecordOf(incidents', at[c].key, at[c].generation)]
<1>1. /\ Turn(c, "admin") /\ at[c].op = "record"
      /\ Becomes(c, x) /\ Then(c, "admin", "monitoring")
  BY DEF RecordedBy
<1>2. Place(x) = "monitoring"
  BY DEF Place
<1> HIDE DEF x
<1>3. Moves(c) /\ at'[c] = x
  BY <1>1, <1>2, ThenMoves, Documented
<1> QED
  BY <1>1, <1>3 DEF x

Telling(s) ==
    [op |-> "tell", key |-> s.key, time |-> s.time, left |-> {}, notified |-> s.notified,
     what |-> Notification("INCIDENT", s.incident, s.generation,
                           Bucket(incidents[s.incident].first, s.time), s.time)]

\* A failure that was linked ends, or is told when the cooldown allows it.
LEMMA LinkedMoves ==
  ASSUME AtTyped, Queueing, NEW c \in Callers, Linked(c)
  PROVE  /\ Moves(c) /\ at[c].op = "link" /\ Turn(c, "monitoring")
         /\ \/ at'[c] = Idle
            \/ at'[c] = Telling(at[c]) /\ MayNotify(at[c].notified, at[c].time)
<1>1. Turn(c, "monitoring") /\ at[c].op = "link"
  BY DEF Linked
<1>2. \/ Becomes(c, Idle) /\ Done("monitoring")
      \/ Becomes(c, Telling(at[c])) /\ Then(c, "monitoring", "monitoring")
         /\ MayNotify(at[c].notified, at[c].time)
  BY DEF Linked, Telling
<1>3. Place(Telling(at[c])) = "monitoring"
  BY DEF Place, Telling
<1>4. CASE Becomes(c, Idle) /\ Done("monitoring")
  BY <1>1, <1>4, DoneMoves, Documented
<1>5. CASE /\ Becomes(c, Telling(at[c])) /\ Then(c, "monitoring", "monitoring")
           /\ MayNotify(at[c].notified, at[c].time)
  BY <1>1, <1>3, <1>5, ThenMoves, Documented
<1> QED
  BY <1>2, <1>4, <1>5

\* A success that was noted goes on, or resolves the incident first.
LEMMA NotedMoves ==
  ASSUME AtTyped, Queueing, NEW c \in Callers, Noted(c)
  PROVE  LET s == at[c]
             w == watch[s.key]
         IN /\ Moves(c) /\ s.op = "note"
            /\ \/ /\ Recovers(w, s.time) /\ incidents[w.incident].status # "RESOLVED"
                  /\ at'[c] = [op |-> "resolve", key |-> s.key, time |-> s.time, left |-> s.left,
                               incident |-> w.incident, generation |-> w.generation]
               \/ /\ ~ (Recovers(w, s.time) /\ incidents[w.incident].status # "RESOLVED")
                  /\ at'[c] = Idle \/ \E k \in s.left : at'[c] = Noting(k, s.left, s.time)
<1> DEFINE s == at[c]
           w == watch[s.key]
           x == [op |-> "resolve", key |-> s.key, time |-> s.time, left |-> s.left,
                 incident |-> w.incident, generation |-> w.generation]
           resolves == Recovers(w, s.time) /\ incidents[w.incident].status # "RESOLVED"
<1>1. Turn(c, "monitoring") /\ s.op = "note"
  BY DEF Noted
<1>2. \/ resolves /\ Becomes(c, x) /\ Then(c, "monitoring", "admin")
      \/ ~ resolves /\ Onward(c, "monitoring", s.left, s.time)
  BY DEF Noted
<1>3. Place(x) = "admin"
  BY DEF Place
<1> HIDE DEF x, resolves
<1>4. CASE resolves /\ Becomes(c, x) /\ Then(c, "monitoring", "admin")
  <2>1. Moves(c) /\ at'[c] = x
    BY <1>1, <1>3, <1>4, ThenMoves, Documented
  <2> QED
    BY <1>1, <1>4, <2>1 DEF x, resolves
<1>5. CASE ~ resolves /\ Onward(c, "monitoring", s.left, s.time)
  <2>1. Moves(c) /\ (at'[c] = Idle \/ \E k \in s.left : at'[c] = Noting(k, s.left, s.time))
    BY <1>1, <1>5, OnwardMoves, Documented
  <2> QED
    BY <1>1, <1>5, <2>1 DEF resolves
<1> QED
  BY <1>2, <1>4, <1>5

\* A recovery is told with the key of the incident's episode.
LEMMA TellsMoves ==
  ASSUME AtTyped, Queueing, NEW c \in Callers, Turn(c, "admin"), Tells(c)
  PROVE  /\ Moves(c)
         /\ at'[c] = [op |-> "tell", key |-> at[c].key, time |-> at[c].time, left |-> at[c].left,
                      notified |-> Never,
                      what |-> Notification("RECOVERY", at[c].incident, at[c].generation, 0,
                                            at[c].time)]
<1> DEFINE x == [op |-> "tell", key |-> at[c].key, time |-> at[c].time, left |-> at[c].left,
                 notified |-> Never,
                 what |-> Notification("RECOVERY", at[c].incident, at[c].generation, 0,
                                       at[c].time)]
<1>1. Becomes(c, x) /\ Then(c, "admin", "monitoring")
  BY DEF Tells
<1>2. Place(x) = "monitoring"
  BY DEF Place
<1> HIDE DEF x
<1>3. Moves(c) /\ at'[c] = x
  BY <1>1, <1>2, ThenMoves, Documented
<1> QED
  BY <1>3 DEF x

\* What was told ends the report of a failure; a success goes on.
LEMMA ToldMoves ==
  ASSUME AtTyped, Queueing, NEW c \in Callers, Told(c)
  PROVE  /\ Moves(c) /\ at[c].op = "tell" /\ Turn(c, "monitoring")
         /\ at'[c] = Idle \/ \E k \in at[c].left : at'[c] = Noting(k, at[c].left, at[c].time)
<1>1. Turn(c, "monitoring") /\ at[c].op = "tell" /\ Onward(c, "monitoring", at[c].left, at[c].time)
  BY DEF Told
<1> QED
  BY <1>1, OnwardMoves, Documented

\* A decision waits for the admin document.
LEMMA DecideMoves ==
  ASSUME AtTyped, Queueing, NEW i, NEW status, Decide(i, status)
  PROVE  /\ Moves(Human) /\ at[Human] = Idle
         /\ at'[Human] = [op |-> "decide", incident |-> i, status |-> status]
<1> DEFINE x == [op |-> "decide", incident |-> i, status |-> status]
<1>1. at[Human] = Idle /\ Becomes(Human, x) /\ Ask(Human, "admin")
  BY DEF Decide
<1>2. Place(x) = "admin"
  BY DEF Place
<1> HIDE DEF x
<1>3. Moves(Human) /\ at'[Human] = x
  BY <1>1, <1>2, AskMoves, Documented
<1> QED
  BY <1>1, <1>3 DEF x

\* A decision that was written is over.
LEMMA DecidedMoves ==
  ASSUME AtTyped, Queueing, Decided
  PROVE  Moves(Human) /\ at[Human].op = "decide" /\ at'[Human] = Idle
<1>1. Turn(Human, "admin") /\ at[Human].op = "decide" /\ Becomes(Human, Idle) /\ Done("admin")
  BY DEF Decided
<1> QED
  BY <1>1, DoneMoves, Documented

\* A report whose watch cannot be written ends.
LEMMA MonitoringFailureMoves ==
  ASSUME AtTyped, Queueing, NEW c \in Callers, MonitoringWriteFails(c)
  PROVE  Moves(c) /\ at'[c] = Idle /\ Turn(c, "monitoring")
<1>1. Turn(c, "monitoring") /\ Becomes(c, Idle) /\ Done("monitoring")
  BY DEF MonitoringWriteFails
<1> QED
  BY <1>1, DoneMoves, Documented

\* A report whose incident cannot be written ends, but a recovery is told all
\* the same.
LEMMA AdminFailureMoves ==
  ASSUME AtTyped, Queueing, NEW c \in Callers, AdminWriteFails(c)
  PROVE  /\ Moves(c) /\ Turn(c, "admin")
         /\ \/ at[c].op = "resolve" /\ Tells(c)
            \/ at'[c] = Idle
<1>1. Turn(c, "admin")
  BY DEF AdminWriteFails
<1>2. CASE at[c].op = "resolve" /\ Tells(c)
  BY <1>1, <1>2, TellsMoves
<1>3. CASE Becomes(c, Idle) /\ Done("admin")
  BY <1>1, <1>3, DoneMoves, Documented
<1> QED
  BY <1>2, <1>3 DEF AdminWriteFails

\* The dispatcher moves alone, between its own operations.
LEMMA DispatcherMoves ==
  ASSUME AtTyped, Queueing, Dispatch
  PROVE  /\ Moves(Dispatcher)
         /\ at'[Dispatcher] = Idle \/ at'[Dispatcher].op \in {"prune", "send", "result"}
<1> DEFINE D == Dispatcher
<1> USE Documented
<1>1. CASE Tick
  <2>1. at[D] = Idle /\ Becomes(D, [op |-> "prune"]) /\ Ask(D, "monitoring")
    BY <1>1 DEF Tick
  <2>2. Place([op |-> "prune"]) = "monitoring"
    BY DEF Place
  <2>3. Moves(D) /\ at'[D] = [op |-> "prune"]
    BY <2>1, <2>2, AskMoves
  <2> QED
    BY <2>3
<1>2. CASE Prune
  <2> DEFINE x == [op |-> "send", left |-> [n \in Oldest(Due, BatchSize) |-> outbox[n].attempts]]
  <2>1. /\ Turn(D, "monitoring") /\ Done("monitoring")
        /\ Becomes(D, Idle) \/ Becomes(D, x)
    BY <1>2 DEF Prune
  <2>2. Place(x) = "none" /\ x.op = "send" /\ Idle.op = "idle"
    BY DEF Place, Idle
  <2> HIDE DEF x
  <2>3. Moves(D) /\ at'[D] \in {Idle, x}
    BY <2>1, <2>2, DoneMoves
  <2> QED
    BY <2>2, <2>3
<1>3. CASE Store
  <2> DEFINE x == [op |-> "send", left |-> at[D].left]
  <2>1. /\ Turn(D, "monitoring") /\ Done("monitoring")
        /\ Becomes(D, Idle) \/ Becomes(D, x)
    BY <1>3 DEF Store
  <2>2. Place(x) = "none" /\ x.op = "send" /\ Idle.op = "idle"
    BY DEF Place, Idle
  <2> HIDE DEF x
  <2>3. Moves(D) /\ at'[D] \in {Idle, x}
    BY <2>1, <2>2, DoneMoves
  <2> QED
    BY <2>2, <2>3
<1>4. CASE StoreFails
  <2>1. CASE Becomes(D, Idle) /\ Done("monitoring")
    BY <1>4, <2>1, DoneMoves DEF StoreFails, Idle
  <2>2. ASSUME NEW x, x.op = "result", Becomes(D, x), Then(D, "monitoring", "monitoring")
        PROVE  Moves(D) /\ at'[D].op = "result"
    <3>1. Place(x) = "monitoring"
      BY <2>2 DEF Place
    <3> QED
      BY <1>4, <2>2, <3>1, ThenMoves DEF StoreFails
  <2> DEFINE y == [at[D] EXCEPT !.again = TRUE, !.limited = FALSE, !.outcome =
                     [status |-> IF at[D].tried + 1 >= MaxAttempts THEN "UNKNOWN"
                                 ELSE "RETRY_PENDING",
                      attempts |-> at[D].tried + 1]]
  <2>3. \/ Becomes(D, Idle) /\ Done("monitoring")
        \/ Becomes(D, y) /\ Then(D, "monitoring", "monitoring")
    BY <1>4 DEF StoreFails
  <2>4. y.op = at[D].op /\ at[D].op = "result"
    BY <1>4 DEF StoreFails
  <2> HIDE DEF y
  <2> QED
    BY <2>1, <2>2, <2>3, <2>4
<1>5. ASSUME NEW n \in DOMAIN outbox, Send(n) PROVE Moves(D) /\ at'[D].op = "result"
  <2>1. PICK x : x.op = "result" /\ Becomes(D, x)
    BY <1>5 DEF Send
  <2>2. Place(x) = "monitoring" /\ Place(at[D]) = "none" /\ Ask(D, "monitoring")
    BY <1>5, <2>1 DEF Place, Send
  <2> QED
    BY <2>1, <2>2, AskMoves
<1> QED
  BY <1>1, <1>2, <1>3, <1>4, <1>5 DEF Dispatch

-----------------------------------------------------------------------------
(* Types *)

\* Incidents keep their places and their names.
Continues(list, new) ==
    /\ DOMAIN list \subseteq DOMAIN new
    /\ \A i \in DOMAIN list : /\ new[i].key = list[i].key
                              /\ new[i].generation = list[i].generation
                              /\ new[i].first = list[i].first

Relabels(list, new, i, status) ==
    /\ DOMAIN list = DOMAIN new
    /\ \A j \in DOMAIN list : new[j].status = IF j = i THEN status ELSE list[j].status

\* What every step keeps of the watches, the incidents and the clock.
Lasts ==
    /\ Continues(incidents, incidents')
    /\ \A k \in Keys : watch[k] \in Watch => watch'[k] \in Watch
    /\ now \in Nat /\ now' \in Nat /\ now <= now'

\* An incident that is found has the key and the generation it was looked up by.
LEMMA FoundOnce ==
  ASSUME NEW list \in Seq(Incident), NEW k, NEW g, Found(list, k, g) # {}
  PROVE  /\ RecordOf(list, k, g) \in DOMAIN list
         /\ list[RecordOf(list, k, g)].key = k /\ list[RecordOf(list, k, g)].generation = g
<1>1. RecordOf(list, k, g) \in Found(list, k, g)
  BY DEF RecordOf
<1> QED
  BY <1>1 DEF Found

\* An occurrence leaves every incident its name, and is one's afterwards.
LEMMA RecordedList ==
  ASSUME NEW list \in Seq(Incident), NEW k \in Keys, NEW g \in Nat, NEW time \in Nat,
         NEW new, new = Recorded(list, k, g, time)
  PROVE  new \in Seq(Incident) /\ Continues(list, new) /\ Found(new, k, g) # {}
<1>0. /\ DOMAIN list = 1 .. Len(list) /\ Len(list) \in Nat
      /\ \A i \in DOMAIN list : list[i] \in Incident
  OBVIOUS
<1>1. CASE Found(list, k, g) # {}
  <2> DEFINE row(i) == IF i \in Found(list, k, g) /\ list[i].status = "RESOLVED"
                       THEN [list[i] EXCEPT !.status = "OPEN"] ELSE list[i]
  <2>1. new = [i \in 1 .. Len(list) |-> row(i)]
    BY <1>0, <1>1 DEF Recorded
  <2>2. ASSUME NEW i \in 1 .. Len(list)
        PROVE  /\ row(i) \in Incident /\ row(i).key = list[i].key
               /\ row(i).generation = list[i].generation /\ row(i).first = list[i].first
    BY <1>0 DEF Incident, IncidentStatus
  <2> HIDE DEF row
  <2>3. new \in Seq(Incident)
    <3>1. \A i \in 1 .. Len(list) : row(i) \in Incident
      BY <2>2
    <3> QED
      BY <1>0, <2>1, <3>1, IsASeq
  <2>4. DOMAIN new = DOMAIN list /\ \A i \in DOMAIN list : new[i] = row(i)
    BY <1>0, <2>1
  <2>5. Found(new, k, g) # {}
    BY <1>0, <1>1, <2>2, <2>4 DEF Found
  <2> QED
    BY <1>0, <2>2, <2>3, <2>4, <2>5 DEF Continues
<1>2. CASE Found(list, k, g) = {}
  <2> DEFINE one == [key |-> k, generation |-> g, status |-> "OPEN", first |-> time]
  <2>1. new = Append(list, one)
    BY <1>2 DEF Recorded
  <2>2. one \in Incident /\ one.key = k /\ one.generation = g
    BY DEF Incident, IncidentStatus
  <2> HIDE DEF one
  <2>3. /\ new \in Seq(Incident) /\ DOMAIN new = 1 .. (Len(list) + 1)
        /\ new[Len(list) + 1] = one /\ \A i \in DOMAIN list : new[i] = list[i]
    BY <1>0, <2>1, <2>2
  <2>4. DOMAIN list \subseteq DOMAIN new /\ Len(list) + 1 \in DOMAIN new
    BY <1>0, <2>3
  <2>5. Found(new, k, g) # {}
    BY <2>2, <2>3, <2>4 DEF Found
  <2> QED
    BY <2>3, <2>4, <2>5 DEF Continues
<1> QED
  BY <1>1, <1>2

\* A change of status keeps the list, but for that status.
LEMMA UpdatedList ==
  ASSUME NEW list \in Seq(Incident), NEW i \in DOMAIN list, NEW status \in IncidentStatus,
         NEW new, new = Updated(list, i, status)
  PROVE  new \in Seq(Incident) /\ Continues(list, new) /\ Relabels(list, new, i, status)
<1>0. /\ DOMAIN list = 1 .. Len(list) /\ Len(list) \in Nat
      /\ \A j \in DOMAIN list : list[j] \in Incident
  OBVIOUS
<1>1. new = [list EXCEPT ![i].status = status] /\ DOMAIN new = DOMAIN list
  BY DEF Updated
<1>2. ASSUME NEW j \in DOMAIN list
      PROVE  /\ new[j] \in Incident
             /\ new[j].key = list[j].key /\ new[j].generation = list[j].generation
             /\ new[j].first = list[j].first
             /\ new[j].status = IF j = i THEN status ELSE list[j].status
  BY <1>0, <1>1 DEF Incident
<1>3. new \in Seq(Incident)
  <2>1. new = [j \in 1 .. Len(list) |-> new[j]]
    BY <1>0, <1>1
  <2>2. \A j \in 1 .. Len(list) : new[j] \in Incident
    BY <1>0, <1>2
  <2> QED
    BY <1>0, <2>1, <2>2, IsASeq
<1> QED
  BY <1>1, <1>2, <1>3 DEF Continues, Relabels

\* Whoever stays relies on nothing that was taken away.
LEMMA StateKeeps ==
  ASSUME Lasts, NEW b \in Callers, StateOK(at[b]), at'[b] = at[b]
  PROVE  StateOK(at[b])'
<1> DEFINE s == at[b]
<1>1. s.op \in {"count", "record", "link", "tell", "note", "resolve"} =>
        s.key \in Keys /\ s.time \in Nat \ {0} /\ s.time <= now'
  BY DEF StateOK, Lasts, Continues
<1>2. s.op \in {"record", "link", "tell", "resolve"} => watch'[s.key] \in Watch
  BY <1>1 DEF StateOK, Lasts, Continues
<1>3. s.op = "link" => Names(s.incident, s.key)' /\ incidents'[s.incident].generation = s.generation
  BY DEF StateOK, Lasts, Continues, Names
<1>4. s.op = "resolve" => Names(s.incident, s.key)'
  BY DEF StateOK, Lasts, Continues, Names
<1>5. s.op = "tell" => Names(s.what.incident, s.key)'
  BY DEF StateOK, Lasts, Continues, Names
<1>6. s.op = "decide" => s.incident \in DOMAIN incidents'
  BY DEF StateOK, Lasts, Continues
<1> QED
  BY <1>1, <1>2, <1>3, <1>4, <1>5, <1>6 DEF StateOK, Names

\* The callers keep their types when one of them moves to a state that has its
\* own.
LEMMA CallersKeep ==
  ASSUME CallersTyped, Lasts, NEW c \in Callers, Moves(c),
         at'[c].op \in OpsOf(c), at'[c].op = "idle" => at'[c] = Idle, StateOK(at[c])'
  PROVE  CallersTyped'
<1>1. AtTyped /\ Queueing
  BY DEF CallersTyped, AtTyped
<1>2. AtTyped' /\ Queueing' /\ \A b \in Callers : b # c => at'[b] = at[b]
  BY <1>1, MovesKeeps
<1>3. ASSUME NEW b \in Callers
      PROVE at'[b].op \in OpsOf(b) /\ StateOK(at[b])' /\ (at'[b].op = "idle" => at'[b] = Idle)
  <2>1. CASE b = c
    BY <2>1
  <2>2. CASE b # c
    <3>1. at'[b] = at[b]
      BY <1>2, <2>2
    <3>2. StateOK(at[b])'
      BY <3>1, StateKeeps DEF CallersTyped
    <3> QED
      BY <3>1, <3>2 DEF CallersTyped
  <2> QED
    BY <2>1, <2>2
<1> QED
  BY <1>2, <1>3 DEF CallersTyped, AtTyped

\* The callers keep their types while nobody moves.
LEMMA CallersStand ==
  ASSUME CallersTyped, Lasts, UNCHANGED <<at, chain>>
  PROVE  CallersTyped'
<1>1. \A b \in Callers : StateOK(at[b])'
  BY StateKeeps DEF CallersTyped
<1>2. Queueing'
  BY DEF CallersTyped, Queueing
<1> QED
  BY <1>1, <1>2 DEF CallersTyped

\* The watches keep their types while none changes.
LEMMA WatchesStand ==
  ASSUME WatchesTyped, Lasts, watch' = watch
  PROVE  WatchesTyped'
  BY DEF WatchesTyped, WatchOK, Lasts, Continues, Names

\* The watches keep their types when one of them changes to a watch.
LEMMA WatchesKeep ==
  ASSUME WatchesTyped, Lasts, NEW k \in Keys, NEW w, watch' = [watch EXCEPT ![k] = w],
         WatchOK(k)'
  PROVE  WatchesTyped'
<1>1. DOMAIN watch = Keys
  BY DEF WatchesTyped
<1>2. watch' = [j \in Keys |-> watch'[j]] /\ \A j \in Keys : j # k => watch'[j] = watch[j]
  BY <1>1
<1>3. ASSUME NEW j \in Keys, j # k PROVE WatchOK(j)'
  <2>1. watch'[j] = watch[j] /\ WatchOK(j)
    BY <1>2, <1>3 DEF WatchesTyped
  <2> QED
    BY <2>1 DEF WatchOK, Lasts, Continues, Names
<1> QED
  BY <1>2, <1>3 DEF WatchesTyped

\* A failure and a success leave a watch its incident and its last notice.
LEMMA FailedTyped ==
  ASSUME NEW k \in Keys, watch[k] = NoWatch \/ watch[k] \in Watch
  PROVE  /\ Failed(k) \in Watch /\ Failed(k).incident = watch[k].incident
         /\ Failed(k).generation = watch[k].generation /\ Failed(k).notified = watch[k].notified
         /\ Failed(k).phase \in {"OPEN", "DEGRADED"}
<1> DEFINE w == watch[k]
           streak == AtMost(w.failures + 1)
           phase == IF w.phase = "OPEN" \/ streak >= ThresholdOf(k) THEN "OPEN" ELSE "DEGRADED"
<1>1. streak \in 0 .. Threshold
  BY MonitoringAssumption DEF MonitoringAssumption, Watch, NoWatch, AtMost
<1>2. phase \in {"OPEN", "DEGRADED"}
  OBVIOUS
<1>3. w \in [failures : 0 .. Threshold, phase : Phases \cup {"none"}, incident : Nat,
             generation : Nat, notified : Nat, candidate : Nat]
  BY MonitoringAssumption DEF MonitoringAssumption, Watch, NoWatch, Never
<1>4. Failed(k) = [w EXCEPT !.failures = streak, !.candidate = Never, !.phase = phase]
  BY DEF Failed
<1> HIDE DEF w, streak, phase
<1>5. /\ Failed(k).failures = streak /\ Failed(k).candidate = 0 /\ Failed(k).phase = phase
      /\ Failed(k).incident = w.incident /\ Failed(k).generation = w.generation
      /\ Failed(k).notified = w.notified
  BY <1>3, <1>4 DEF Never
<1>6. Failed(k) \in Watch
  <2>1. phase \in Phases /\ 0 \in Nat
    BY <1>2 DEF Phases
  <2> QED
    BY <1>1, <1>3, <1>4, <2>1 DEF Watch, Never
<1> QED
  BY <1>2, <1>5, <1>6 DEF w

\* A success keeps the incident, the generation and the last notice of a watch.
LEMMA SucceededTyped ==
  ASSUME NEW w, w = NoWatch \/ w \in Watch, NEW time \in Nat
  PROVE  /\ w = NoWatch => Succeeded(w, time) = NoWatch
         /\ w \in Watch => Succeeded(w, time) \in Watch
         /\ Succeeded(w, time).incident = w.incident
         /\ Succeeded(w, time).generation = w.generation
         /\ Succeeded(w, time).notified = w.notified
<1>1. 0 \in 0 .. Threshold
  BY MonitoringAssumption DEF MonitoringAssumption
<1>2. CASE w = NoWatch
  <2>1. w.incident = 0 /\ w.failures = 0 /\ NoWatch \notin Watch
    BY <1>2 DEF NoWatch, Watch, Phases
  <2> QED
    BY <1>2, <2>1 DEF Succeeded
<1>3. CASE w \in Watch
  <2>1. w # NoWatch
    BY <1>3 DEF NoWatch, Watch, Phases
  <2>2. CASE Candidate(w, time) /\ ~ (w.incident = 0 /\ w.failures = 0)
    <3> DEFINE v == IF w.candidate = Never THEN time ELSE w.candidate
    <3>1. v \in Nat /\ Succeeded(w, time) = [w EXCEPT !.failures = 0, !.candidate = v]
      BY <1>3, <2>2 DEF Succeeded, Watch
    <3> HIDE DEF v
    <3>2. [w EXCEPT !.failures = 0, !.candidate = v] \in Watch
      BY <1>1, <1>3, <3>1 DEF Watch
    <3> QED
      BY <1>3, <2>1, <3>1, <3>2 DEF Watch
  <2>3. CASE ~ Candidate(w, time) /\ ~ (w.incident = 0 /\ w.failures = 0)
    <3> DEFINE v == IF w.incident # 0 THEN "RECOVERED" ELSE "HEALTHY"
    <3>1. /\ v \in Phases
          /\ Succeeded(w, time) = [w EXCEPT !.failures = 0, !.candidate = Never, !.phase = v]
      BY <2>3 DEF Succeeded, Phases
    <3> HIDE DEF v
    <3>2. [w EXCEPT !.failures = 0, !.candidate = Never, !.phase = v] \in Watch
      BY <1>1, <1>3, <3>1 DEF Watch, Never
    <3>3. /\ Succeeded(w, time).incident = w.incident
          /\ Succeeded(w, time).generation = w.generation
          /\ Succeeded(w, time).notified = w.notified
      BY <1>3, <3>1 DEF Watch
    <3> QED
      BY <2>1, <3>1, <3>2, <3>3
  <2>4. CASE w.incident = 0 /\ w.failures = 0
    BY <1>3, <2>1, <2>4 DEF Succeeded
  <2> QED
    BY <2>2, <2>3, <2>4
<1> QED
  BY <1>2, <1>3

\* What an operation leaves alone.
LEMMA LastsAtRest ==
  ASSUME TypeInv, incidents' = incidents, now' = now,
         \A k \in Keys : watch[k] \in Watch => watch'[k] \in Watch
  PROVE  Lasts
  BY DEF Lasts, Continues, TypeInv, RestTyped

\* A counter that rises leaves the others.
LEMMA CountedOne ==
  ASSUME TypeInv, NEW kind \in Kinds, Counts(kind)
  PROVE  /\ faults' \in [Kinds -> Nat] /\ faults'[kind] = faults[kind] + 1
         /\ \A j \in Kinds : j # kind => faults'[j] = faults[j]
  BY DEF Counts, TypeInv, RestTyped

\* The kinds of faults, one by one.
LEMMA KnownKinds ==
  {"write", "lost", "refused", "limited", "crash", "reopen", "overlap"} = Kinds
  BY DEF Kinds

\* The queue of the persistence monitor holds failures and successes.
LEMMA EventsTyped ==
  ASSUME TypeInv
  PROVE  /\ AdminWritten => failing' \in BOOLEAN /\ events' \in Seq({"failure", "success"})
         /\ Append(events, "failure") \in Seq({"failure", "success"})
<1>1. events \in Seq({"failure", "success"}) /\ failing \in BOOLEAN
  BY DEF TypeInv, RestTyped
<1>2. \A e \in {"failure", "success"} : Append(events, e) \in Seq({"failure", "success"})
  BY <1>1
<1> QED
  BY <1>1, <1>2 DEF AdminWritten

-----------------------------------------------------------------------------
(* Types: each step of a report *)

\* What a report may be in the middle of.
LEMMA OpsOfReporter ==
  ASSUME NEW c \in Observers \cup {Listener}
  PROVE  OpsOf(c) = {"idle", "count", "record", "link", "tell", "note", "resolve"}
  BY MonitoringAssumption DEF MonitoringAssumption, OpsOf

\* What the administrator and the dispatcher may be in the middle of.
LEMMA OpsOfOthers ==
  /\ OpsOf(Human) = {"idle", "decide"}
  /\ OpsOf(Dispatcher) = {"idle", "prune", "send", "result"}
  BY MonitoringAssumption DEF MonitoringAssumption, OpsOf

\* A failure that arrives keeps the types (recordFailure).
LEMMA CountTypes ==
  ASSUME TypeInv, NEW c \in Observers \cup {Listener}, NEW k \in Keys, at[c] = Idle,
         Count(c, k, now), UNCHANGED <<durable, now>>
  PROVE  CallersTyped' /\ WatchesTyped' /\ RowsTyped' /\ Lasts
<1>1. c \in Callers /\ CallersTyped /\ AtTyped /\ Queueing
  BY Documented DEF TypeInv, CallersTyped, AtTyped
<1>2. Lasts
  BY LastsAtRest DEF durable
<1>3. Moves(c) /\ at'[c] = [op |-> "count", key |-> k, time |-> now]
  BY <1>1, CountMoves
<1>4. StateOK(at[c])'
  BY <1>3 DEF StateOK, TypeInv, RestTyped
<1>5. at'[c].op \in OpsOf(c) /\ at'[c].op # "idle"
  BY <1>3, OpsOfReporter
<1>6. CallersTyped'
  BY <1>1, <1>2, <1>3, <1>4, <1>5, CallersKeep
<1>7. WatchesTyped'
  BY <1>2, WatchesStand DEF TypeInv, durable
<1> QED
  BY <1>2, <1>6, <1>7 DEF TypeInv, RowsTyped, durable

\* A success that goes on keeps the types of the callers.
LEMMA NotingTypes ==
  ASSUME TypeInv, Lasts, NEW c \in Observers \cup {Listener}, Moves(c),
         NEW K \in SUBSET Keys, NEW time \in Nat \ {0}, time <= now',
         at'[c] = Idle \/ \E k \in K : at'[c] = Noting(k, K, time)
  PROVE  CallersTyped'
<1>1. c \in Callers /\ CallersTyped
  BY Documented DEF TypeInv
<1>2. StateOK(at[c])' /\ at'[c].op \in {"idle", "note"} /\ (at'[c].op = "idle" => at'[c] = Idle)
  <2>1. CASE at'[c] = Idle
    BY <2>1 DEF StateOK, Idle
  <2>2. ASSUME NEW k \in K, at'[c] = Noting(k, K, time)
        PROVE  StateOK(at[c])' /\ at'[c].op = "note"
    BY <2>2 DEF StateOK, Noting
  <2> QED
    BY <2>1, <2>2 DEF Idle
<1>3. at'[c].op \in OpsOf(c)
  BY <1>2, OpsOfReporter
<1> QED
  BY <1>1, <1>2, <1>3, CallersKeep

\* A caller that is done keeps the types of the callers.
LEMMA IdleTypes ==
  ASSUME TypeInv, Lasts, NEW c \in Callers, Moves(c), at'[c] = Idle
  PROVE  CallersTyped'
<1>1. StateOK(at[c])' /\ at'[c].op = "idle"
  BY DEF StateOK, Idle
<1>2. at'[c].op \in OpsOf(c)
  BY <1>1 DEF OpsOf
<1> QED
  BY <1>1, <1>2, CallersKeep DEF TypeInv

\* What the type invariant says, part by part.
LEMMA TypedNow ==
  ASSUME TypeInv
  PROVE  /\ AtTyped /\ Queueing /\ CallersTyped /\ now \in Nat \ {0}
         /\ \A c \in Callers : StateOK(at[c]) /\ at[c].op \in OpsOf(c)
         /\ \A k \in Keys : WatchOK(k)
  BY DEF TypeInv, CallersTyped, AtTyped, WatchesTyped, RestTyped

\* A failure that arrives keeps the types.
LEMMA FailTypes ==
  ASSUME TypeInv, NEW o \in Observers, NEW k \in Keys \ {AdminKey}, Fail(o, k)
  PROVE  TypeInv'
<1>1. CallersTyped' /\ WatchesTyped' /\ RowsTyped'
  BY CountTypes DEF Fail
<1>2. RestTyped'
  BY DEF Fail, TypeInv, RestTyped
<1> QED
  BY <1>1, <1>2 DEF TypeInv

\* A success that arrives keeps the types.
LEMMA SucceedTypes ==
  ASSUME TypeInv, NEW o \in Observers, Succeed(o)
  PROVE  TypeInv'
<1> DEFINE K == {k \in Keys \ {AdminKey} : Tracked(k)}
<1>1. at[o] = Idle /\ Note(o, K, now) /\ UNCHANGED <<durable, now>>
  BY DEF Succeed
<1>2. Lasts
  BY <1>1, LastsAtRest DEF durable
<1>3. Moves(o) /\ \E k \in K : at'[o] = Noting(k, K, now)
  BY <1>1, NoteMoves, TypedNow, Documented
<1>4. CallersTyped'
  <2> HIDE DEF K
  <2>1. K \in SUBSET Keys
    BY DEF K
  <2> QED
    BY <1>1, <1>2, <1>3, <2>1, NotingTypes, TypedNow
<1>5. WatchesTyped' /\ RowsTyped'
  BY <1>1, <1>2, WatchesStand DEF TypeInv, RowsTyped, durable
<1>6. RestTyped'
  BY DEF Succeed, TypeInv, RestTyped
<1> QED
  BY <1>4, <1>5, <1>6 DEF TypeInv

\* The count of a failure keeps the types (recordFailure).
LEMMA CountedTypes ==
  ASSUME TypeInv, NEW c \in Observers \cup {Listener}, Counted(c)
  PROVE  TypeInv'
<1> DEFINE s == at[c]
           w == Failed(s.key)
<1>1. /\ c \in Callers /\ AtTyped /\ Queueing /\ CallersTyped /\ StateOK(s) /\ s.op = "count"
      /\ s.key \in Keys /\ s.time \in Nat \ {0} /\ s.time <= now
  BY TypedNow, Documented DEF Counted, StateOK
<1>2. /\ watch' = [watch EXCEPT ![s.key] = w]
      /\ UNCHANGED <<outbox, incidents, failing, events, now, observations, faults>>
  BY DEF Counted
<1>3. WatchOK(s.key)
  BY <1>1, TypedNow
<1>4. /\ w \in Watch /\ w.incident = watch[s.key].incident
      /\ w.generation = watch[s.key].generation /\ w.notified = watch[s.key].notified
  BY <1>1, <1>3, FailedTyped DEF WatchOK
<1>5. watch'[s.key] = w /\ \A k \in Keys : k # s.key => watch'[k] = watch[k]
  BY <1>1, <1>2 DEF TypeInv, WatchesTyped
<1>6. Lasts
  BY <1>2, <1>4, <1>5, LastsAtRest
<1>7. WatchesTyped'
  <2>1. PICK k \in Keys : k = s.key
    BY <1>1
  <2>2. WatchOK(k)'
    BY <1>2, <1>3, <1>4, <1>5, <2>1 DEF WatchOK, Names
  <2> QED
    BY <1>2, <1>6, <2>1, <2>2, WatchesKeep DEF TypeInv
<1>8. CallersTyped'
  <2>1. Moves(c)
    BY <1>1, CountedMoves
  <2>2. CASE at'[c] = Idle
    BY <1>1, <1>6, <2>1, <2>2, IdleTypes
  <2>3. CASE at'[c] = [op |-> "record", key |-> s.key, time |-> s.time,
                       generation |-> Generation(w), notified |-> w.notified]
    <3>1. Generation(w) \in Nat /\ w.notified \in Nat
      BY <1>4 DEF Generation, Watch
    <3>2. at'[c].op = "record" /\ StateOK(at[c])'
      BY <1>1, <1>2, <1>4, <1>5, <2>3, <3>1 DEF StateOK
    <3> QED
      BY <1>1, <1>6, <2>1, <3>2, CallersKeep, OpsOfReporter
  <2> QED
    BY <1>1, <2>2, <2>3, CountedMoves
<1>9. RowsTyped' /\ RestTyped'
  BY <1>2 DEF TypeInv, RowsTyped, RestTyped
<1> QED
  BY <1>7, <1>8, <1>9 DEF TypeInv

\* The record of a failure keeps the types (openIncident, recordIncident).
LEMMA RecordedTypes ==
  ASSUME TypeInv, NEW c \in Observers \cup {Listener}, RecordedBy(c)
  PROVE  TypeInv' /\ Lasts
<1> DEFINE s == at[c]
<1>1. /\ c \in Callers /\ AtTyped /\ Queueing /\ CallersTyped /\ StateOK(s) /\ s.op = "record"
      /\ s.key \in Keys /\ s.time \in Nat \ {0} /\ s.time <= now
      /\ s.generation \in Nat /\ s.notified \in Nat /\ watch[s.key] \in Watch
  BY TypedNow, Documented DEF RecordedBy, StateOK
<1>2. /\ incidents' = Recorded(incidents, s.key, s.generation, s.time) /\ AdminWritten
      /\ Counts("reopen") \/ UNCHANGED faults
      /\ UNCHANGED <<watch, outbox, now, observations>>
  BY DEF RecordedBy
<1>3. incidents \in Seq(Incident)
  BY DEF TypeInv, RowsTyped
<1>4. /\ incidents' \in Seq(Incident) /\ Continues(incidents, incidents')
      /\ Found(incidents', s.key, s.generation) # {}
  <2>1. PICK k \in Keys, g \in Nat, time \in Nat :
          k = s.key /\ g = s.generation /\ time = s.time
    BY <1>1
  <2>2. incidents' = Recorded(incidents, k, g, time)
    BY <1>2, <2>1
  <2> QED
    BY <1>3, <2>1, <2>2, RecordedList
<1>5. Lasts
  BY <1>2, <1>4, TypedNow DEF Lasts, Continues
<1>6. WatchesTyped'
  BY <1>2, <1>5, WatchesStand DEF TypeInv
<1>7. CallersTyped'
  <2>1. /\ Moves(c)
        /\ at'[c] = [op |-> "link", key |-> s.key, time |-> s.time, generation |-> s.generation,
                     notified |-> s.notified,
                     incident |-> RecordOf(incidents', s.key, s.generation)]
    BY <1>1, RecordedMoves
  <2> DEFINE i == RecordOf(incidents', s.key, s.generation)
  <2>2. i \in DOMAIN incidents' /\ incidents'[i].key = s.key
    BY <1>4, FoundOnce
  <2>3. incidents'[i].generation = s.generation
    BY <1>4, FoundOnce
  <2>4. at'[c].op = "link" /\ StateOK(at[c])'
    <3>1. /\ at'[c].op = "link" /\ at'[c].key = s.key /\ at'[c].time = s.time
          /\ at'[c].generation = s.generation /\ at'[c].notified = s.notified
          /\ at'[c].incident = i
      BY <2>1
    <3> HIDE DEF i
    <3>2. Names(at[c].incident, at[c].key)'
      BY <2>2, <3>1 DEF Names
    <3> QED
      BY <1>1, <1>2, <2>3, <3>1, <3>2 DEF StateOK
  <2> QED
    BY <1>1, <1>5, <2>1, <2>4, CallersKeep, OpsOfReporter
<1>8. RowsTyped'
  BY <1>2, <1>4 DEF TypeInv, RowsTyped, Continues
<1>9. RestTyped'
  BY <1>2, CountedOne, KnownKinds, EventsTyped DEF TypeInv, RestTyped
<1> QED
  BY <1>5, <1>6, <1>7, <1>8, <1>9 DEF TypeInv

\* A period is a number.
LEMMA BucketTyped ==
  ASSUME NEW first \in Nat, NEW time \in Nat
  PROVE  Bucket(first, time) \in Nat
  BY MonitoringAssumption DEF MonitoringAssumption, Bucket

\* The rows of both lists are rows.
LEMMA IncidentsTyped ==
  ASSUME TypeInv
  PROVE  /\ DOMAIN incidents \subseteq Nat \ {0}
         /\ \A i \in DOMAIN incidents : incidents[i] \in Incident
         /\ DOMAIN outbox \subseteq Nat /\ \A n \in DOMAIN outbox : outbox[n] \in Notice
  BY DEF TypeInv, RowsTyped

\* The link of a failure keeps the types (openIncident).
LEMMA LinkedTypes ==
  ASSUME TypeInv, NEW c \in Observers \cup {Listener}, Linked(c)
  PROVE  TypeInv'
<1> DEFINE s == at[c]
           w == [watch[s.key] EXCEPT !.incident = s.incident, !.generation = s.generation,
                                     !.phase = "OPEN"]
<1>1. /\ c \in Callers /\ AtTyped /\ Queueing /\ CallersTyped /\ StateOK(s) /\ s.op = "link"
      /\ s.key \in Keys /\ s.time \in Nat \ {0} /\ s.time <= now
      /\ s.generation \in Nat /\ s.notified \in Nat /\ watch[s.key] \in Watch
      /\ Names(s.incident, s.key) /\ incidents[s.incident].generation = s.generation
  BY TypedNow, Documented DEF Linked, StateOK
<1>2. UNCHANGED <<outbox, incidents, failing, events, now, observations, faults>>
  BY DEF Linked
<1>3. watch' = [watch EXCEPT ![s.key] = w]
  BY DEF Linked
<1>4. s.incident \in Nat \ {0} /\ incidents[s.incident] \in Incident
  BY <1>1, IncidentsTyped DEF Names
<1>5. w \in Watch /\ w.incident = s.incident /\ w.generation = s.generation
  BY <1>1, <1>4 DEF Watch, Phases
<1>6. watch'[s.key] = w /\ \A k \in Keys : k # s.key => watch'[k] = watch[k]
  BY <1>1, <1>3 DEF TypeInv, WatchesTyped
<1> HIDE DEF w
<1>7. Lasts
  BY <1>2, <1>5, <1>6, LastsAtRest
<1>8. WatchesTyped'
  <2>1. PICK k \in Keys : k = s.key
    BY <1>1
  <2>2. WatchOK(k)'
    BY <1>1, <1>2, <1>4, <1>5, <1>6, <2>1 DEF WatchOK, Names
  <2> QED
    BY <1>3, <1>7, <2>1, <2>2, WatchesKeep DEF TypeInv
<1>9. CallersTyped'
  <2>1. Moves(c)
    BY <1>1, LinkedMoves
  <2>2. CASE at'[c] = Idle
    BY <1>1, <1>7, <2>1, <2>2, IdleTypes
  <2>3. CASE at'[c] = Telling(s)
    <3> DEFINE bucket == Bucket(incidents[s.incident].first, s.time)
    <3>1. bucket \in Nat
      BY <1>1, <1>4, BucketTyped DEF Incident
    <3> HIDE DEF bucket
    <3>2. PICK i \in Nat, g \in Nat, b \in Nat, time \in Nat :
            i = s.incident /\ g = s.generation /\ b = bucket /\ time = s.time
      BY <1>1, <1>4, <3>1
    <3>3. PICK what : what = Notification("INCIDENT", i, g, b, time)
      OBVIOUS
    <3>4. /\ what \in Notice /\ what.created = time /\ what.incident = i
          /\ what.status = "PENDING" /\ what.attempts = 0 /\ what.arrived = 0
      BY <3>3 DEF Notification, Notice, NotificationStatus
    <3>5. /\ at'[c].op = "tell" /\ at'[c].key = s.key /\ at'[c].time = s.time
          /\ at'[c].left = {} /\ at'[c].notified = s.notified /\ at'[c].what = what
      BY <2>3, <3>2, <3>3 DEF Telling, bucket
    <3>6. Names(at[c].what.incident, at[c].key)'
      BY <1>1, <1>2, <3>2, <3>4, <3>5 DEF Names
    <3>7. StateOK(at[c])'
      BY <1>1, <1>2, <1>5, <1>6, <3>2, <3>4, <3>5, <3>6 DEF StateOK
    <3> QED
      BY <1>1, <1>7, <2>1, <3>5, <3>7, CallersKeep, OpsOfReporter
  <2> QED
    BY <1>1, <2>2, <2>3, LinkedMoves
<1>10. RowsTyped' /\ RestTyped'
  BY <1>2 DEF TypeInv, RowsTyped, RestTyped
<1> QED
  BY <1>8, <1>9, <1>10 DEF TypeInv

\* The note of a success keeps the types (recordSuccess).
LEMMA NotedTypes ==
  ASSUME TypeInv, NEW c \in Observers \cup {Listener}, Noted(c)
  PROVE  TypeInv'
<1> DEFINE s == at[c]
           w == watch[s.key]
           v == Succeeded(w, s.time)
<1>1. /\ c \in Callers /\ AtTyped /\ Queueing /\ CallersTyped /\ StateOK(s) /\ s.op = "note"
      /\ s.key \in Keys /\ s.time \in Nat \ {0} /\ s.time <= now /\ s.left \subseteq Keys
  BY TypedNow, Documented DEF Noted, StateOK
<1>2. /\ watch' = [watch EXCEPT ![s.key] = v]
      /\ UNCHANGED <<outbox, incidents, failing, events, now, observations, faults>>
  BY DEF Noted
<1>3. WatchOK(s.key) /\ (w = NoWatch \/ w \in Watch)
  BY <1>1, TypedNow DEF WatchOK
<1>4. /\ w = NoWatch => v = NoWatch
      /\ w \in Watch => v \in Watch
      /\ v.incident = w.incident /\ v.generation = w.generation
  <2>1. PICK time \in Nat : time = s.time
    BY <1>1
  <2> QED
    BY <1>3, <2>1, SucceededTyped
<1>5. watch'[s.key] = v /\ \A k \in Keys : k # s.key => watch'[k] = watch[k]
  BY <1>1, <1>2 DEF TypeInv, WatchesTyped
<1> HIDE DEF v
<1>6. Lasts
  BY <1>2, <1>4, <1>5, LastsAtRest
<1>7. WatchesTyped'
  <2>1. PICK k \in Keys : k = s.key
    BY <1>1
  <2>2. WatchOK(k)'
    BY <1>2, <1>3, <1>4, <1>5, <2>1 DEF WatchOK, Names
  <2> QED
    BY <1>2, <1>6, <2>1, <2>2, WatchesKeep DEF TypeInv
<1>8. CallersTyped'
  <2>1. Moves(c)
    BY <1>1, NotedMoves
  <2>2. CASE at'[c] = Idle \/ \E k \in s.left : at'[c] = Noting(k, s.left, s.time)
    BY <1>1, <1>2, <1>6, <2>1, <2>2, NotingTypes
  <2>3. CASE /\ Recovers(w, s.time)
             /\ at'[c] = [op |-> "resolve", key |-> s.key, time |-> s.time, left |-> s.left,
                          incident |-> w.incident, generation |-> w.generation]
    <3>1. w.incident # 0 /\ w \in Watch
      BY <1>3, <2>3 DEF Recovers, NoWatch
    <3>2. /\ at'[c].op = "resolve" /\ at'[c].key = s.key /\ at'[c].time = s.time
          /\ at'[c].left = s.left /\ at'[c].incident = w.incident
          /\ at'[c].generation = w.generation
      BY <2>3
    <3>3. v \in Watch /\ w.generation \in Nat /\ Names(w.incident, s.key)
      BY <1>3, <1>4, <3>1 DEF Watch, WatchOK
    <3>4. StateOK(at[c])'
      BY <1>1, <1>2, <1>5, <3>2, <3>3 DEF StateOK, Names
    <3> QED
      BY <1>1, <1>6, <2>1, <3>2, <3>4, CallersKeep, OpsOfReporter
  <2> QED
    BY <1>1, <2>2, <2>3, NotedMoves
<1>9. RowsTyped' /\ RestTyped'
  BY <1>2 DEF TypeInv, RowsTyped, RestTyped
<1> QED
  BY <1>7, <1>8, <1>9 DEF TypeInv

\* The recovery is told, whether the incident could be resolved or not.
LEMMA TellsTypes ==
  ASSUME TypeInv, Lasts, NEW c \in Observers \cup {Listener}, Turn(c, "admin"),
         at[c].op = "resolve", Tells(c)
  PROVE  CallersTyped'
<1> DEFINE s == at[c]
<1>1. /\ c \in Callers /\ AtTyped /\ Queueing /\ CallersTyped /\ StateOK(s)
      /\ s.key \in Keys /\ s.time \in Nat \ {0} /\ s.time <= now /\ s.left \subseteq Keys
      /\ Names(s.incident, s.key) /\ s.generation \in Nat /\ watch[s.key] \in Watch
  BY TypedNow, Documented DEF StateOK
<1>2. Moves(c)
  BY <1>1, TellsMoves
<1>3. s.incident \in Nat
  BY <1>1, IncidentsTyped DEF Names
<1>4. PICK i \in Nat, g \in Nat, time \in Nat : i = s.incident /\ g = s.generation /\ time = s.time
  BY <1>1, <1>3
<1>5. PICK what : what = Notification("RECOVERY", i, g, 0, time)
  OBVIOUS
<1>6. /\ at'[c].op = "tell" /\ at'[c].key = s.key /\ at'[c].time = s.time
      /\ at'[c].left = s.left /\ at'[c].notified = 0 /\ at'[c].what = what
  <2>1. at'[c] = [op |-> "tell", key |-> s.key, time |-> s.time, left |-> s.left,
                  notified |-> Never,
                  what |-> Notification("RECOVERY", s.incident, s.generation, 0, s.time)]
    BY <1>1, TellsMoves
  <2> QED
    BY <1>4, <1>5, <2>1 DEF Never
<1>7. /\ what \in Notice /\ what.created = time /\ what.incident = i
      /\ what.status = "PENDING" /\ what.attempts = 0 /\ what.arrived = 0
  BY <1>5 DEF Notification, Notice, NotificationStatus
<1>8. now <= now' /\ now \in Nat /\ now' \in Nat /\ watch'[s.key] \in Watch
  BY <1>1 DEF Lasts
<1>9. s.incident \in DOMAIN incidents' /\ incidents'[s.incident].key = s.key
  BY <1>1 DEF Lasts, Continues, Names
<1>10. StateOK(at[c])'
  BY <1>1, <1>4, <1>6, <1>7, <1>8, <1>9 DEF StateOK, Names
<1> QED
  BY <1>1, <1>2, <1>6, <1>10, CallersKeep, OpsOfReporter

\* A resolution keeps the types and changes one status (closeIncident).
LEMMA ResolvedTypes ==
  ASSUME TypeInv, NEW c \in Observers \cup {Listener}, Resolved(c)
  PROVE  /\ TypeInv' /\ Lasts
         /\ Relabels(incidents, incidents', at[c].incident, "RESOLVED")
<1>1. /\ c \in Callers /\ StateOK(at[c]) /\ at[c].op = "resolve" /\ Turn(c, "admin") /\ Tells(c)
      /\ incidents' = Updated(incidents, at[c].incident, "RESOLVED") /\ AdminWritten
      /\ UNCHANGED <<watch, outbox, now, observations, faults>>
  BY TypedNow, Documented DEF Resolved
<1>2. incidents \in Seq(Incident) /\ at[c].incident \in DOMAIN incidents
  BY <1>1 DEF TypeInv, RowsTyped, StateOK, Names
<1>3. "RESOLVED" \in IncidentStatus
  BY DEF IncidentStatus
<1>4. /\ incidents' \in Seq(Incident) /\ Continues(incidents, incidents')
      /\ Relabels(incidents, incidents', at[c].incident, "RESOLVED")
  BY <1>1, <1>2, <1>3, UpdatedList
<1>5. Lasts
  BY <1>1, <1>4, TypedNow DEF Lasts
<1>6. CallersTyped' /\ WatchesTyped'
  BY <1>1, <1>5, TellsTypes, WatchesStand DEF TypeInv
<1>7. RowsTyped' /\ RestTyped'
  BY <1>1, <1>4, EventsTyped DEF TypeInv, RowsTyped, RestTyped, Continues
<1> QED
  BY <1>4, <1>5, <1>6, <1>7 DEF TypeInv

\* What is told keeps the types (requestNotification).
LEMMA ToldTypes ==
  ASSUME TypeInv, NEW c \in Observers \cup {Listener}, Told(c)
  PROVE  TypeInv'
<1> DEFINE s == at[c]
           w == [watch[s.key] EXCEPT !.notified = s.time]
<1>1. /\ c \in Callers /\ AtTyped /\ Queueing /\ CallersTyped /\ StateOK(s) /\ s.op = "tell"
      /\ s.key \in Keys /\ s.time \in Nat \ {0} /\ s.time <= now /\ s.left \subseteq Keys
      /\ watch[s.key] \in Watch /\ s.what \in Notice /\ Names(s.what.incident, s.key)
  BY TypedNow, Documented DEF Told, StateOK
<1>2. UNCHANGED <<incidents, failing, events, now, observations>>
  BY DEF Told
<1>3. \/ UNCHANGED <<outbox, watch, faults>>
      \/ /\ outbox' = Append(outbox, s.what)
         /\ watch' = [watch EXCEPT ![s.key] = w]
         /\ Counts("overlap") \/ UNCHANGED faults
  BY DEF Told, QueuedOnce, Queued
<1>4. /\ w \in Watch /\ w.incident = watch[s.key].incident
      /\ w.generation = watch[s.key].generation
  BY <1>1 DEF Watch
<1>5. \/ watch' = watch
      \/ watch'[s.key] = w /\ \A k \in Keys : k # s.key => watch'[k] = watch[k]
  BY <1>1, <1>3 DEF TypeInv, WatchesTyped
<1> HIDE DEF w
<1>6. Lasts
  BY <1>1, <1>2, <1>4, <1>5, LastsAtRest
<1>7. WatchesTyped'
  <2>1. CASE watch' = watch
    BY <1>6, <2>1, WatchesStand DEF TypeInv
  <2>2. CASE watch' = [watch EXCEPT ![s.key] = w]
    <3>1. PICK k \in Keys : k = s.key
      BY <1>1
    <3>2. WatchOK(k) /\ watch'[k] = w
      BY <2>2, <3>1, TypedNow DEF TypeInv, WatchesTyped
    <3>3. WatchOK(k)'
      BY <1>2, <1>4, <3>1, <3>2 DEF WatchOK, Names
    <3> QED
      BY <1>6, <2>2, <3>1, <3>3, WatchesKeep DEF TypeInv
  <2> QED
    BY <1>3, <2>1, <2>2
<1>8. CallersTyped'
  BY <1>1, <1>2, <1>6, ToldMoves, NotingTypes
<1>9. RowsTyped'
  <2>1. /\ incidents \in Seq(Incident) /\ outbox \in Seq(Notice)
        /\ \A n \in DOMAIN outbox : outbox[n].incident \in DOMAIN incidents
    BY DEF TypeInv, RowsTyped
  <2>2. CASE outbox' = outbox
    BY <1>2, <2>1, <2>2 DEF RowsTyped
  <2>3. CASE outbox' = Append(outbox, s.what)
    <3> HIDE DEF s
    <3>1. /\ outbox' \in Seq(Notice)
          /\ \A n \in DOMAIN outbox' :
               outbox'[n] = s.what \/ (n \in DOMAIN outbox /\ outbox'[n] = outbox[n])
      BY <1>1, <2>1, <2>3
    <3> QED
      BY <1>1, <1>2, <2>1, <3>1 DEF RowsTyped, Names
  <2> QED
    BY <1>3, <2>2, <2>3
<1>10. RestTyped'
  BY <1>2, <1>3, CountedOne, KnownKinds DEF TypeInv, RestTyped
<1> QED
  BY <1>7, <1>8, <1>9, <1>10 DEF TypeInv

\* A decision that begins keeps the types.
LEMMA DecideTypes ==
  ASSUME TypeInv, NEW i \in DOMAIN incidents, NEW status \in IncidentStatus, Decide(i, status)
  PROVE  TypeInv'
<1>1. /\ UNCHANGED <<durable, failing, events, now, faults>> /\ observations' = observations + 1
  BY DEF Decide
<1>2. Lasts
  BY <1>1, LastsAtRest DEF durable
<1>3. /\ Human \in Callers /\ Moves(Human)
      /\ at'[Human] = [op |-> "decide", incident |-> i, status |-> status]
  BY TypedNow, Documented, DecideMoves
<1>4. at'[Human].op = "decide" /\ StateOK(at[Human])'
  BY <1>1, <1>3 DEF StateOK, durable
<1>5. CallersTyped'
  BY <1>2, <1>3, <1>4, CallersKeep, OpsOfOthers, TypedNow
<1>6. WatchesTyped' /\ RowsTyped' /\ RestTyped'
  BY <1>1, <1>2, WatchesStand DEF TypeInv, RowsTyped, RestTyped, durable
<1> QED
  BY <1>5, <1>6 DEF TypeInv

\* A decision that is written keeps the types and changes one status.
LEMMA DecidedTypes ==
  ASSUME TypeInv, Decided
  PROVE  /\ TypeInv' /\ Lasts
         /\ Relabels(incidents, incidents', at[Human].incident, at[Human].status)
<1>1. /\ Human \in Callers /\ StateOK(at[Human]) /\ at[Human].op = "decide"
      /\ incidents' = Updated(incidents, at[Human].incident, at[Human].status) /\ AdminWritten
      /\ Counts("reopen") \/ UNCHANGED faults
      /\ UNCHANGED <<watch, outbox, now, observations>>
  BY TypedNow, Documented DEF Decided
<1>2. /\ incidents \in Seq(Incident) /\ at[Human].incident \in DOMAIN incidents
      /\ at[Human].status \in IncidentStatus
  BY <1>1 DEF TypeInv, RowsTyped, StateOK
<1>3. /\ incidents' \in Seq(Incident) /\ Continues(incidents, incidents')
      /\ Relabels(incidents, incidents', at[Human].incident, at[Human].status)
  BY <1>1, <1>2, UpdatedList
<1>4. Lasts
  BY <1>1, <1>3, TypedNow DEF Lasts
<1>5. CallersTyped' /\ WatchesTyped'
  BY <1>1, <1>4, DecidedMoves, IdleTypes, TypedNow, WatchesStand DEF TypeInv
<1>6. RowsTyped'
  BY <1>1, <1>3 DEF TypeInv, RowsTyped, Continues
<1>7. RestTyped'
  BY <1>1, CountedOne, KnownKinds, EventsTyped DEF TypeInv, RestTyped
<1> QED
  BY <1>3, <1>4, <1>5, <1>6, <1>7 DEF TypeInv

\* What is sent, stored and pruned keeps the rows in their places, with their keys.
Rewrites ==
    /\ DOMAIN outbox' = DOMAIN outbox
    /\ \A n \in DOMAIN outbox :
        /\ outbox'[n].kind = outbox[n].kind /\ outbox'[n].incident = outbox[n].incident
        /\ outbox'[n].generation = outbox[n].generation /\ outbox'[n].bucket = outbox[n].bucket
        /\ outbox'[n].created = outbox[n].created

\* An outbox whose rows are rewritten is an outbox.
LEMMA RowsRewritten ==
  ASSUME TypeInv, DOMAIN outbox' = DOMAIN outbox, outbox' = [n \in DOMAIN outbox |-> outbox'[n]],
         \A n \in DOMAIN outbox : outbox'[n] \in Notice
  PROVE  outbox' \in Seq(Notice)
<1>1. DOMAIN outbox = 1 .. Len(outbox) /\ Len(outbox) \in Nat
  BY DEF TypeInv, RowsTyped
<1>2. PICK N \in Nat : DOMAIN outbox = 1 .. N
  BY <1>1
<1>3. outbox' = [n \in 1 .. N |-> outbox'[n]] /\ \A n \in 1 .. N : outbox'[n] \in Notice
  BY <1>2
<1> QED
  BY <1>3, IsASeq

\* The dispatcher adds and removes no row: it rewrites rows.
LEMMA DispatchRewrites ==
  ASSUME TypeInv, DispatchInv, Dispatch \/ \E n \in DOMAIN outbox : BackoffPasses(n)
  PROVE  outbox' \in Seq(Notice) /\ Rewrites
<1>1. \A n \in DOMAIN outbox : outbox[n] \in Notice
  BY IncidentsTyped
<1>2. outbox \in Seq(Notice) /\ outbox = [n \in DOMAIN outbox |-> outbox[n]]
  BY DEF TypeInv, RowsTyped
<1>3. CASE outbox' = outbox
  BY <1>2, <1>3 DEF Rewrites
<1>4. ASSUME NEW m \in DOMAIN outbox, NEW row \in Notice,
             outbox' = [outbox EXCEPT ![m] = row],
             row.kind = outbox[m].kind, row.incident = outbox[m].incident,
             row.generation = outbox[m].generation, row.bucket = outbox[m].bucket,
             row.created = outbox[m].created
      PROVE  outbox' \in Seq(Notice) /\ Rewrites
  <2>1. /\ DOMAIN outbox' = DOMAIN outbox /\ outbox' = [n \in DOMAIN outbox |-> outbox'[n]]
        /\ \A n \in DOMAIN outbox : outbox'[n] = IF n = m THEN row ELSE outbox[n]
    BY <1>2, <1>4
  <2>2. outbox' \in Seq(Notice)
    BY <1>1, <2>1, RowsRewritten
  <2> QED
    BY <1>4, <2>1, <2>2 DEF Rewrites
<1>5. CASE Prune
  <2>1. CASE outbox' = Pruned
    <3>1. /\ DOMAIN outbox' = DOMAIN outbox /\ outbox' = [n \in DOMAIN outbox |-> outbox'[n]]
          /\ \A n \in DOMAIN outbox :
               outbox'[n] = IF n \in Doomed THEN [outbox[n] EXCEPT !.status = "GONE"] ELSE outbox[n]
      BY <2>1 DEF Pruned
    <3>2. ASSUME NEW n \in DOMAIN outbox
          PROVE  /\ outbox'[n] \in Notice
                 /\ outbox'[n].kind = outbox[n].kind /\ outbox'[n].incident = outbox[n].incident
                 /\ outbox'[n].generation = outbox[n].generation
                 /\ outbox'[n].bucket = outbox[n].bucket /\ outbox'[n].created = outbox[n].created
      BY <1>1, <3>1 DEF Notice, NotificationStatus
    <3> QED
      BY <3>1, <3>2, RowsRewritten DEF Rewrites
  <2> QED
    BY <1>3, <1>5, <2>1 DEF Prune
<1>6. ASSUME NEW n \in DOMAIN outbox, Send(n) PROVE outbox' \in Seq(Notice) /\ Rewrites
  <2>1. PICK arrives \in BOOLEAN :
          outbox' = [outbox EXCEPT ![n].arrived = IF arrives THEN @ + 1 ELSE @]
    BY <1>6 DEF Send
  <2> DEFINE arrived == IF arrives THEN outbox[n].arrived + 1 ELSE outbox[n].arrived
             row == [outbox[n] EXCEPT !.arrived = arrived]
  <2>2. arrived \in Nat
    BY <1>1 DEF Notice
  <2>3. outbox' = [outbox EXCEPT ![n] = row]
    BY <2>1
  <2> HIDE DEF arrived
  <2>4. /\ row \in Notice /\ row.kind = outbox[n].kind /\ row.incident = outbox[n].incident
        /\ row.generation = outbox[n].generation /\ row.bucket = outbox[n].bucket
        /\ row.created = outbox[n].created
    BY <1>1, <2>2 DEF Notice
  <2> HIDE DEF row
  <2> QED
    BY <1>4, <2>3, <2>4
<1>7. CASE Store
  <2> DEFINE s == at[Dispatcher]
             row == [outbox[s.n] EXCEPT !.status = s.outcome.status,
                                        !.attempts = s.outcome.attempts,
                                        !.later = s.outcome.status = "RETRY_PENDING"]
  <2>1. /\ s.n \in DOMAIN outbox /\ s.outcome.status \in NotificationStatus
        /\ s.outcome.attempts \in Nat
    BY <1>7, DispatchAssumption DEF DispatchAssumption, Store, DispatchInv, DispatchOK,
       NotificationStatus, Final
  <2>2. outbox' = [outbox EXCEPT ![s.n] = row]
    BY <1>7 DEF Store
  <2>3. (s.outcome.status = "RETRY_PENDING") \in BOOLEAN
    OBVIOUS
  <2>4. /\ row \in Notice /\ row.kind = outbox[s.n].kind /\ row.incident = outbox[s.n].incident
        /\ row.generation = outbox[s.n].generation /\ row.bucket = outbox[s.n].bucket
        /\ row.created = outbox[s.n].created
    BY <1>1, <2>1, <2>3 DEF Notice
  <2> HIDE DEF row
  <2> QED
    BY <1>4, <2>1, <2>2, <2>4
<1>8. ASSUME NEW n \in DOMAIN outbox, BackoffPasses(n)
      PROVE  outbox' \in Seq(Notice) /\ Rewrites
  <2> DEFINE row == [outbox[n] EXCEPT !.later = FALSE]
  <2>1. outbox' = [outbox EXCEPT ![n] = row]
    BY <1>8 DEF BackoffPasses
  <2>2. /\ row \in Notice /\ row.kind = outbox[n].kind /\ row.incident = outbox[n].incident
        /\ row.generation = outbox[n].generation /\ row.bucket = outbox[n].bucket
        /\ row.created = outbox[n].created
    BY <1>1 DEF Notice
  <2> HIDE DEF row
  <2> QED
    BY <1>4, <2>1, <2>2
<1> QED
  BY <1>3, <1>5, <1>6, <1>7, <1>8 DEF Dispatch, Tick, StoreFails

\* The tick and the faults it meets leave the reports alone.
LEMMA DispatchFaults ==
  ASSUME Dispatch \/ \E n \in DOMAIN outbox : BackoffPasses(n)
  PROVE  /\ UNCHANGED <<watch, incidents, failing, events, now, observations>>
         /\ \/ UNCHANGED faults
            \/ \E kind \in {"write", "lost", "refused", "limited"} : Faulty(kind)
<1>1. ASSUME NEW n, Send(n)
      PROVE  UNCHANGED faults \/ \E kind \in {"write", "lost", "refused", "limited"} : Faulty(kind)
  BY <1>1 DEF Send
<1> QED
  BY <1>1 DEF Dispatch, Tick, Prune, Store, StoreFails, Send, BackoffPasses, Others

\* The dispatcher keeps the types (monitoring.dispatcher.ts).
LEMMA DispatchTypes ==
  ASSUME TypeInv, DispatchInv, Dispatch \/ \E n \in DOMAIN outbox : BackoffPasses(n)
  PROVE  TypeInv'
<1>1. outbox' \in Seq(Notice) /\ Rewrites
  BY DispatchRewrites
<1>2. /\ UNCHANGED <<watch, incidents, failing, events, now, observations>>
      /\ \/ UNCHANGED faults
         \/ \E kind \in {"write", "lost", "refused", "limited"} : Faulty(kind)
  BY DispatchFaults
<1>3. Lasts
  BY <1>2, LastsAtRest
<1>4. WatchesTyped'
  BY <1>2, <1>3, WatchesStand DEF TypeInv
<1>5. RowsTyped'
  BY <1>1, <1>2 DEF TypeInv, RowsTyped, Rewrites
<1>6. RestTyped'
  BY <1>2, CountedOne, KnownKinds DEF TypeInv, RestTyped, Faulty
<1>7. CallersTyped'
  <2>1. CASE Dispatch
    <3>1. /\ Moves(Dispatcher)
          /\ at'[Dispatcher] = Idle \/ at'[Dispatcher].op \in {"prune", "send", "result"}
      BY <2>1, DispatcherMoves, TypedNow
    <3>2. at'[Dispatcher].op \in {"idle", "prune", "send", "result"} /\ StateOK(at[Dispatcher])'
      BY <3>1 DEF StateOK, Idle
    <3>3. at'[Dispatcher].op = "idle" => at'[Dispatcher] = Idle
      BY <3>1
    <3> QED
      BY <1>3, <3>1, <3>2, <3>3, CallersKeep, OpsOfOthers, Documented, TypedNow
  <2>2. CASE UNCHANGED <<at, chain>>
    BY <1>3, <2>2, CallersStand, TypedNow
  <2> QED
    BY <2>1, <2>2 DEF BackoffPasses
<1> QED
  BY <1>4, <1>5, <1>6, <1>7 DEF TypeInv

-----------------------------------------------------------------------------
(* Types: failures, the clock, crashes *)

\* A failed write of the monitoring document keeps the types.
LEMMA MonitoringFailureTypes ==
  ASSUME TypeInv, NEW c \in Callers, MonitoringWriteFails(c)
  PROVE  TypeInv'
<1>1. Counts("write") /\ UNCHANGED <<durable, failing, events, now, observations>>
  BY DEF MonitoringWriteFails, Faulty
<1>2. Lasts
  BY <1>1, LastsAtRest DEF durable
<1>3. CallersTyped'
  BY <1>2, MonitoringFailureMoves, IdleTypes, TypedNow
<1>4. WatchesTyped' /\ RowsTyped'
  BY <1>1, <1>2, WatchesStand DEF TypeInv, RowsTyped, durable
<1>5. RestTyped'
  BY <1>1, CountedOne, KnownKinds DEF TypeInv, RestTyped
<1> QED
  BY <1>3, <1>4, <1>5 DEF TypeInv

\* A failed write of the admin document keeps the types.
LEMMA AdminFailureTypes ==
  ASSUME TypeInv, NEW c \in Observers \cup {Listener, Human}, AdminWriteFails(c)
  PROVE  TypeInv'
<1>1. /\ c \in Callers /\ Counts("write") /\ UNCHANGED <<durable, now, observations>>
      /\ failing' = TRUE /\ events' = Append(events, "failure")
  BY Documented DEF AdminWriteFails, Faulty
<1>2. Lasts
  BY <1>1, LastsAtRest DEF durable
<1>3. CallersTyped'
  <2>1. CASE at'[c] = Idle
    BY <1>1, <1>2, <2>1, AdminFailureMoves, IdleTypes, TypedNow
  <2>2. CASE at[c].op = "resolve" /\ Tells(c)
    <3>1. c # Human
      BY <2>2, OpsOfOthers, TypedNow, Documented
    <3> QED
      BY <1>1, <1>2, <2>2, <3>1, AdminFailureMoves, TellsTypes, TypedNow
  <2> QED
    BY <1>1, <2>1, <2>2, AdminFailureMoves, TypedNow
<1>4. WatchesTyped' /\ RowsTyped'
  BY <1>1, <1>2, WatchesStand DEF TypeInv, RowsTyped, durable
<1>5. RestTyped'
  BY <1>1, CountedOne, KnownKinds, EventsTyped DEF TypeInv, RestTyped
<1> QED
  BY <1>3, <1>4, <1>5 DEF TypeInv

\* The persistence monitor's queue keeps the types.
LEMMA ListenTypes ==
  ASSUME TypeInv, Listen
  PROVE  TypeInv'
<1>1. /\ at[Listener] = Idle /\ events # <<>> /\ events' = Tail(events)
      /\ UNCHANGED <<durable, failing, now, observations, faults>>
  BY DEF Listen
<1>2. Lasts
  BY <1>1, LastsAtRest DEF durable
<1>3. WatchesTyped' /\ RowsTyped'
  BY <1>1, <1>2, WatchesStand DEF TypeInv, RowsTyped, durable
<1>4. RestTyped'
  BY <1>1 DEF TypeInv, RestTyped
<1>5. CallersTyped'
  <2>1. CASE Count(Listener, AdminKey, now)
    BY <1>1, <2>1, CountTypes, Documented
  <2>2. CASE Note(Listener, {AdminKey}, now)
    <3>1. PICK K \in SUBSET Keys, time \in Nat \ {0} : K = {AdminKey} /\ time = now
      BY TypedNow, Documented
    <3>2. Moves(Listener) /\ \E k \in K : at'[Listener] = Noting(k, K, time)
      BY <1>1, <2>2, <3>1, NoteMoves, TypedNow, Documented
    <3>3. time <= now'
      BY <1>1, <3>1
    <3> QED
      BY <1>2, <3>2, <3>3, NotingTypes, Documented
  <2>3. CASE UNCHANGED <<at, chain>>
    BY <1>2, <2>3, CallersStand, TypedNow
  <2> QED
    BY <2>1, <2>2, <2>3 DEF Listen
<1> QED
  BY <1>3, <1>4, <1>5 DEF TypeInv

\* The clock keeps the types.
LEMMA TimeTypes ==
  ASSUME TypeInv, TimePasses
  PROVE  TypeInv'
<1>1. /\ now' = now + 1
      /\ UNCHANGED <<durable, chain, at, failing, events, observations, faults>>
  BY DEF TimePasses
<1>2. Lasts
  BY <1>1, TypedNow DEF Lasts, Continues, durable
<1>3. CallersTyped'
  BY <1>1, <1>2, CallersStand, TypedNow
<1>4. WatchesTyped' /\ RowsTyped'
  BY <1>1, <1>2, WatchesStand DEF TypeInv, RowsTyped, durable
<1>5. RestTyped'
  BY <1>1 DEF TypeInv, RestTyped
<1> QED
  BY <1>3, <1>4, <1>5 DEF TypeInv

\* The empty sequence is a sequence of anything.
LEMMA NothingYet ==
  ASSUME NEW S, NEW s, s = <<>>
  PROVE  s \in Seq(S)
  OBVIOUS

\* Nobody stands in an empty chain.
LEMMA NobodyWaits ==
  ASSUME NEW s, s = <<>>
  PROVE  s \in Seq(Callers) /\ NoTwice(s) /\ \A c : ~ Stands(s, c)
  BY DEF NoTwice, Stands

\* A crash keeps the types.
LEMMA CrashTypes ==
  ASSUME TypeInv, Crash
  PROVE  TypeInv'
<1>1. /\ chain' = [d \in Documents |-> <<>>] /\ at' = [c \in DOMAIN at |-> Idle]
      /\ failing' = FALSE /\ events' = <<>> /\ Counts("crash")
      /\ UNCHANGED <<durable, now, observations>>
  BY DEF Crash, Faulty
<1>2. Lasts
  BY <1>1, LastsAtRest DEF durable
<1>3. WatchesTyped' /\ RowsTyped'
  BY <1>1, <1>2, WatchesStand DEF TypeInv, RowsTyped, durable
<1>4. RestTyped'
  <2>1. events' \in Seq({"failure", "success"}) /\ failing' \in BOOLEAN
    BY <1>1, NothingYet
  <2> QED
    BY <1>1, <2>1, CountedOne, KnownKinds DEF TypeInv, RestTyped
<1>5. CallersTyped'
  <2>1. DOMAIN at = Callers
    BY TypedNow DEF AtTyped
  <2>2. at' = [c \in Callers |-> at'[c]] /\ \A c \in Callers : at'[c] = Idle
    BY <1>1, <2>1
  <2>3. Queueing'
    <3>1. chain' = [d \in Documents |-> chain'[d]] /\ \A d \in Documents : chain'[d] = <<>>
      BY <1>1
    <3>2. \A d \in Documents : \A c \in Callers : Place(at'[c]) # d
      BY <2>2, Documented DEF Documents
    <3> QED
      BY <3>1, <3>2, NobodyWaits DEF Queueing
  <2>4. \A c \in Callers : Idle.op \in OpsOf(c)
    BY DEF OpsOf, Idle
  <2>5. \A c \in Callers : StateOK(at[c])'
    BY <2>2 DEF StateOK, Idle
  <2> QED
    BY <2>2, <2>3, <2>4, <2>5 DEF CallersTyped
<1> QED
  BY <1>3, <1>4, <1>5 DEF TypeInv

\* The initial state is well typed.
LEMMA TypeInit == Init => TypeInv
<1> SUFFICES ASSUME Init PROVE TypeInv
  OBVIOUS
<1>1. /\ watch = [k \in Keys |-> NoWatch] /\ outbox = <<>> /\ incidents = <<>>
      /\ chain = [d \in Documents |-> <<>>] /\ at = [c \in Callers |-> Idle]
      /\ failing = FALSE /\ events = <<>> /\ now = 1 /\ observations = 0
      /\ faults = [k \in Kinds |-> 0]
  BY DEF Init, EngineInit
<1>2. CallersTyped
  <2>1. at = [c \in Callers |-> at[c]] /\ \A c \in Callers : at[c] = Idle
    BY <1>1
  <2>2. Queueing
    <3>1. chain = [d \in Documents |-> chain[d]] /\ \A d \in Documents : chain[d] = <<>>
      BY <1>1
    <3>2. \A d \in Documents : \A c \in Callers : Place(at[c]) # d
      BY <2>1, Documented DEF Documents
    <3> QED
      BY <3>1, <3>2, NobodyWaits DEF Queueing
  <2>3. \A c \in Callers : Idle.op \in OpsOf(c)
    BY DEF OpsOf, Idle
  <2>4. \A c \in Callers : StateOK(at[c])
    BY <2>1 DEF StateOK, Idle
  <2> QED
    BY <2>1, <2>2, <2>3, <2>4 DEF CallersTyped
<1>3. WatchesTyped
  <2>1. watch = [k \in Keys |-> watch[k]] /\ \A k \in Keys : watch[k] = NoWatch
    BY <1>1
  <2> QED
    BY <2>1 DEF WatchesTyped, WatchOK, NoWatch
<1>4. RowsTyped
  BY <1>1 DEF RowsTyped
<1>5. RestTyped
  <2>1. events \in Seq({"failure", "success"})
    BY <1>1, NothingYet
  <2>2. faults \in [Kinds -> Nat]
    BY <1>1
  <2>3. failing \in BOOLEAN
    BY <1>1, Zenon
  <2>4. now \in Nat \ {0} /\ observations \in Nat
    BY DEF Init, EngineInit
  <2> QED
    BY <2>1, <2>2, <2>3, <2>4 DEF RestTyped
<1> QED
  BY <1>2, <1>3, <1>4, <1>5 DEF TypeInv

\* Every step keeps the types.
LEMMA TypeStep ==
  ASSUME TypeInv, DispatchInv, [Next]_vars
  PROVE  TypeInv'
<1>1. CASE Report
  BY <1>1, SucceedTypes, FailTypes, DecideTypes DEF Report
<1>2. CASE Commits
  BY <1>2, CountedTypes, RecordedTypes, LinkedTypes, NotedTypes, ResolvedTypes, ToldTypes,
     DecidedTypes DEF Commits
<1>3. CASE WriteFails
  BY <1>3, MonitoringFailureTypes, AdminFailureTypes, Documented DEF WriteFails
<1>4. CASE Dispatch \/ \E n \in DOMAIN outbox : BackoffPasses(n)
  BY <1>4, DispatchTypes
<1>5. CASE UNCHANGED vars
  <2>1. /\ Lasts /\ UNCHANGED <<watch, outbox, incidents, chain, at, failing, events, now,
                                observations, faults>>
    BY <1>5, LastsAtRest DEF vars, engineVars, durable
  <2>2. CallersTyped' /\ WatchesTyped'
    BY <2>1, CallersStand, WatchesStand DEF TypeInv
  <2> QED
    BY <2>1, <2>2 DEF TypeInv, RowsTyped, RestTyped
<1> QED
  BY <1>1, <1>2, <1>3, <1>4, <1>5, ListenTypes, TimeTypes, CrashTypes DEF Next, EngineNext

-----------------------------------------------------------------------------
(* The dispatcher *)

\* What is assumed of the dispatcher's constants.
LEMMA AttemptBounds ==
  MaxAttempts \in Nat /\ MaxAttempts > 0 /\ BatchSize \in Nat
  BY DispatchAssumption DEF DispatchAssumption

\* What may hide an arrival is counted, and rises with its own kinds only.
LEMMA HiddenTyped ==
  ASSUME TypeInv
  PROVE  /\ Hidden \in Nat
         /\ UNCHANGED faults => Hidden' = Hidden
         /\ \A kind \in Kinds : Counts(kind) =>
              Hidden' = IF kind \in {"crash", "write", "lost"} THEN Hidden + 1 ELSE Hidden
<1>1. faults["crash"] \in Nat /\ faults["write"] \in Nat /\ faults["lost"] \in Nat
  BY KnownKinds DEF TypeInv, RestTyped
<1>2. ASSUME NEW kind \in Kinds, Counts(kind)
      PROVE  Hidden' = IF kind \in {"crash", "write", "lost"} THEN Hidden + 1 ELSE Hidden
  <2>1. /\ faults'["crash"] = IF kind = "crash" THEN faults["crash"] + 1 ELSE faults["crash"]
        /\ faults'["write"] = IF kind = "write" THEN faults["write"] + 1 ELSE faults["write"]
        /\ faults'["lost"] = IF kind = "lost" THEN faults["lost"] + 1 ELSE faults["lost"]
    BY <1>2, KnownKinds DEF Counts, TypeInv, RestTyped
  <2> QED
    BY <1>1, <2>1 DEF Hidden
<1> QED
  BY <1>1, <1>2 DEF Hidden

Fresh(row) == row.status = "PENDING" /\ row.attempts = 0 /\ row.arrived = 0

\* Rows that were there stay, and who comes has not been tried.
LEMMA DispatchStands ==
  ASSUME TypeInv, DispatchInv, at'[Dispatcher] = at[Dispatcher], Hidden' \in Nat, Hidden <= Hidden',
         DOMAIN outbox \subseteq DOMAIN outbox',
         \A n \in DOMAIN outbox : outbox'[n] = outbox[n],
         \A n \in DOMAIN outbox' \ DOMAIN outbox : Fresh(outbox'[n])
  PROVE  DispatchInv'
<1> DEFINE s == at[Dispatcher]
<1>1. Hidden \in Nat /\ \A n \in DOMAIN outbox : outbox[n] \in Notice /\ RowOK(n)
  BY HiddenTyped, IncidentsTyped DEF DispatchInv
<1>2. ASSUME NEW n \in DOMAIN outbox' PROVE RowOK(n)'
  <2>1. CASE n \in DOMAIN outbox
    <3>1. outbox'[n] = outbox[n] /\ outbox[n].arrived \in Nat /\ RowOK(n)
      BY <1>1, <2>1 DEF Notice
    <3> QED
      BY <1>1, <3>1 DEF RowOK
  <2>2. CASE n \notin DOMAIN outbox
    <3>1. Fresh(outbox'[n])
      BY <2>2
    <3> QED
      BY <3>1, AttemptBounds DEF RowOK, Fresh, Waiting
  <2> QED
    BY <2>1, <2>2
<1>3. DispatchOK(at[Dispatcher])'
  <2>1. DispatchOK(s)
    BY DEF DispatchInv
  <2>2. s.op = "send" => Sending(s.left)'
    <3>1. ASSUME s.op = "send" PROVE Sending(s.left)
      BY <2>1, <3>1 DEF DispatchOK
    <3> QED
      BY <3>1 DEF Sending
  <2>3. s.op = "result" => Sending(s.left)'
    <3>1. ASSUME s.op = "result" PROVE Sending(s.left)
      BY <2>1, <3>1 DEF DispatchOK
    <3> QED
      BY <3>1 DEF Sending
  <2>4. s.op = "result" =>
          /\ s.n \in DOMAIN outbox' \ DOMAIN s.left /\ outbox'[s.n] = outbox[s.n]
          /\ outbox[s.n].arrived \in Nat
    BY <1>1, <2>1 DEF DispatchOK, Notice
  <2> QED
    BY <1>1, <2>1, <2>2, <2>3, <2>4 DEF DispatchOK
<1> QED
  BY <1>2, <1>3 DEF DispatchInv

\* A fault that leaves the outbox alone keeps what the dispatcher relies on.
LEMMA DispatchIdles ==
  ASSUME TypeInv, DispatchInv, outbox' = outbox,
         at'[Dispatcher].op \notin {"send", "result"}, Hidden' = Hidden + 1
  PROVE  DispatchInv'
<1>1. Hidden \in Nat /\ \A n \in DOMAIN outbox : outbox[n] \in Notice /\ RowOK(n)
  BY HiddenTyped, IncidentsTyped DEF DispatchInv
<1>2. ASSUME NEW n \in DOMAIN outbox PROVE RowOK(n)'
  <2>1. RowOK(n) /\ outbox[n].arrived \in Nat
    BY <1>1, <1>2 DEF Notice
  <2> QED
    BY <1>1, <2>1 DEF RowOK
<1> QED
  BY <1>2 DEF DispatchInv, DispatchOK

\* A tick claims rows that wait (dispatch).
LEMMA TickDispatch ==
  ASSUME TypeInv, DispatchInv, Tick
  PROVE  DispatchInv'
<1>1. /\ at[Dispatcher] = Idle /\ at'[Dispatcher] = [op |-> "prune"] /\ UNCHANGED <<outbox, faults>>
  BY TypedNow, Documented DEF Tick, Becomes, AtTyped
<1>2. \A n \in DOMAIN outbox : RowOK(n)'
  BY <1>1 DEF DispatchInv, RowOK, Hidden, Idle
<1> QED
  BY <1>1, <1>2 DEF DispatchInv, DispatchOK

\* Pruning takes only rows whose outcome is final (pruneNotifications).
LEMMA PruneDispatch ==
  ASSUME TypeInv, DispatchInv, Prune
  PROVE  DispatchInv'
<1> DEFINE batch == Oldest(Due, BatchSize)
           x == [op |-> "send", left |-> [n \in batch |-> outbox[n].attempts]]
<1>1. Dispatcher \in DOMAIN at
  BY TypedNow, Documented DEF AtTyped
<1>2. CASE Faulty("write") /\ Becomes(Dispatcher, Idle) /\ UNCHANGED outbox
  <2>1. Hidden' = Hidden + 1 /\ at'[Dispatcher] = Idle
    BY <1>1, <1>2, HiddenTyped, KnownKinds DEF Faulty, Becomes
  <2> QED
    BY <1>2, <2>1, DispatchIdles DEF Idle
<1>3. CASE /\ outbox' = Pruned /\ UNCHANGED faults
           /\ Becomes(Dispatcher, Idle) \/ Becomes(Dispatcher, x)
  <2>1. at'[Dispatcher] \in {Idle, x}
    BY <1>1, <1>3 DEF Becomes
  <2>2. at[Dispatcher].op = "prune" /\ Hidden' = Hidden /\ Hidden \in Nat
    BY <1>3, HiddenTyped DEF Prune
  <2>3. /\ DOMAIN outbox' = DOMAIN outbox
        /\ \A n \in DOMAIN outbox : outbox[n] \in Notice /\ RowOK(n) /\ outbox'[n] =
             IF n \in Doomed THEN [outbox[n] EXCEPT !.status = "GONE"] ELSE outbox[n]
    BY <1>3, IncidentsTyped DEF Pruned, DispatchInv
  <2>4. ASSUME NEW n \in DOMAIN outbox' PROVE RowOK(n)'
    <3>1. at'[Dispatcher].op # "result"
      BY <2>1 DEF Idle
    <3>2. CASE n \in Doomed
      <4>1. /\ outbox'[n].status = "GONE" /\ outbox'[n].attempts = outbox[n].attempts
            /\ outbox'[n].arrived = outbox[n].arrived
        BY <2>3, <2>4, <3>2 DEF Notice
      <4> QED
        BY <2>2, <2>3, <2>4, <4>1 DEF RowOK, Waiting
    <3>3. CASE n \notin Doomed
      BY <2>2, <2>3, <2>4, <3>1, <3>3 DEF RowOK
    <3> QED
      BY <3>2, <3>3
  <2>5. \A n \in batch : n \in DOMAIN outbox /\ n \notin Doomed /\ outbox[n].status \in Waiting
    BY DEF Oldest, Due, With, Doomed, Final, Waiting
  <2>6. CASE at'[Dispatcher] = Idle
    BY <2>4, <2>6 DEF DispatchInv, DispatchOK, Idle
  <2>7. CASE at'[Dispatcher] = x
    <3> DEFINE left == [n \in batch |-> outbox[n].attempts]
    <3>1. /\ left = [n \in DOMAIN left |-> left[n]]
          /\ DOMAIN left \subseteq DOMAIN outbox'
          /\ \A n \in DOMAIN left : outbox'[n].status \in Waiting /\ left[n] = outbox'[n].attempts
      BY <2>3, <2>5
    <3>2. at'[Dispatcher].op = "send" /\ at'[Dispatcher].left = left
      BY <2>7
    <3> HIDE DEF left, batch
    <3> QED
      BY <2>4, <3>1, <3>2 DEF DispatchInv, DispatchOK, Sending
  <2> QED
    BY <2>1, <2>6, <2>7
<1>4. \/ /\ outbox' = Pruned /\ UNCHANGED faults
         /\ Becomes(Dispatcher, Idle) \/ Becomes(Dispatcher, x)
      \/ Faulty("write") /\ Becomes(Dispatcher, Idle) /\ UNCHANGED outbox
  BY DEF Prune
<1> QED
  BY <1>2, <1>3, <1>4

\* A send counts what arrived in the row it claimed (send).
LEMMA SendDispatch ==
  ASSUME TypeInv, DispatchInv, NEW n \in DOMAIN outbox, Send(n)
  PROVE  DispatchInv'
<1> DEFINE left == at[Dispatcher].left
           rest == [m \in DOMAIN left \ {n} |-> left[m]]
<1>1. PICK answer \in {"taken", "refused", "limited", "lost"}, arrives \in BOOLEAN :
        /\ answer = "taken" => arrives
        /\ arrives => answer \in {"taken", "lost"}
        /\ IF answer = "taken" THEN UNCHANGED faults ELSE Faulty(answer)
        /\ outbox' = [outbox EXCEPT ![n].arrived = IF arrives THEN @ + 1 ELSE @]
        /\ Becomes(Dispatcher,
             [op |-> "result", n |-> n, tried |-> left[n], limited |-> answer = "limited",
              again |-> FALSE, outcome |-> Outcome(n, left[n], answer), left |-> rest])
  BY DEF Send
<1>2. at[Dispatcher].op = "send" /\ n \in DOMAIN left
  BY DEF Send, Oldest
<1>3. Sending(left)
  BY <1>2 DEF DispatchInv, DispatchOK
<1>4. /\ outbox[n] \in Notice /\ outbox[n].status \in Waiting /\ left[n] = outbox[n].attempts
      /\ outbox[n].arrived \in Nat /\ left[n] \in Nat /\ left[n] < MaxAttempts
      /\ outbox[n].arrived <= Hidden /\ Hidden \in Nat
  BY <1>2, <1>3, IncidentsTyped, HiddenTyped DEF Sending, DispatchInv, RowOK, Notice
<1>5. /\ at'[Dispatcher].op = "result" /\ at'[Dispatcher].n = n /\ at'[Dispatcher].tried = left[n]
      /\ at'[Dispatcher].limited = (answer = "limited") /\ at'[Dispatcher].again = FALSE
      /\ at'[Dispatcher].outcome = Outcome(n, left[n], answer) /\ at'[Dispatcher].left = rest
      /\ DOMAIN at'[Dispatcher] = {"op", "n", "tried", "limited", "again", "outcome", "left"}
  BY <1>1, TypedNow, Documented DEF Becomes, AtTyped
<1>6. /\ Hidden' \in Nat /\ Hidden <= Hidden'
      /\ answer = "lost" => Hidden' = Hidden + 1
  BY <1>1, <1>4, HiddenTyped, KnownKinds DEF Faulty
<1>7. /\ DOMAIN outbox' = DOMAIN outbox
      /\ \A m \in DOMAIN outbox : m # n => outbox'[m] = outbox[m]
      /\ outbox'[n].status = outbox[n].status /\ outbox'[n].attempts = outbox[n].attempts
      /\ outbox'[n].arrived = IF arrives THEN outbox[n].arrived + 1 ELSE outbox[n].arrived
  <2>1. outbox'[n] = [outbox[n] EXCEPT !.arrived = IF arrives THEN @ + 1 ELSE @]
    BY <1>1
  <2> QED
    BY <1>1, <1>4, <2>1 DEF Notice
<1>8. ASSUME NEW m \in DOMAIN outbox' PROVE RowOK(m)'
  <2>1. CASE m = n
    <3>1. outbox'[n].arrived <= 1 + Hidden' /\ outbox'[n].status # "SENT"
      BY <1>4, <1>6, <1>7 DEF Waiting
    <3> QED
      BY <1>4, <1>5, <1>7, <2>1, <3>1, AttemptBounds DEF RowOK
  <2>2. CASE m # n
    <3>1. outbox'[m] = outbox[m] /\ RowOK(m) /\ outbox[m].arrived \in Nat
      BY <1>7, <1>8, <2>2, IncidentsTyped DEF DispatchInv, Notice
    <3> QED
      BY <1>2, <1>4, <1>6, <3>1 DEF RowOK
  <2> QED
    BY <2>1, <2>2
<1>9. Sending(at[Dispatcher].left)' /\ n \notin DOMAIN at'[Dispatcher].left
  <2>1. /\ DOMAIN rest = DOMAIN left \ {n} /\ \A m \in DOMAIN rest : rest[m] = left[m]
        /\ rest = [m \in DOMAIN rest |-> rest[m]]
    OBVIOUS
  <2> HIDE DEF rest
  <2>2. /\ DOMAIN rest \subseteq DOMAIN outbox'
        /\ \A m \in DOMAIN rest : outbox'[m].status \in Waiting /\ rest[m] = outbox'[m].attempts
    BY <1>3, <1>7, <2>1 DEF Sending
  <2> QED
    BY <1>5, <2>1, <2>2 DEF Sending
<1>10. DispatchOK(at[Dispatcher])'
  <2> DEFINE o == Outcome(n, left[n], answer)
  <2>1. /\ o.status \in {"SENT", "FAILED", "RETRY_PENDING", "UNKNOWN"}
        /\ o.attempts \in 0 .. MaxAttempts
        /\ o.status = "RETRY_PENDING" => o.attempts < MaxAttempts
        /\ o.status = "SENT" <=> answer = "taken"
    BY <1>4, AttemptBounds DEF Outcome
  <2>2. o.status = "SENT" => outbox'[n].arrived > 0
    BY <1>1, <1>4, <1>7, <2>1
  <2>3. o.status # "SENT" => outbox'[n].arrived <= Hidden'
    BY <1>1, <1>4, <1>6, <1>7, <2>1
  <2> HIDE DEF o
  <2> QED
    BY <1>4, <1>5, <1>7, <1>9, <2>1, <2>2, <2>3 DEF DispatchOK, o
<1> QED
  BY <1>8, <1>10 DEF DispatchInv

\* An outcome is that of the row that was sent (recordNotificationResult).
LEMMA StoreDispatch ==
  ASSUME TypeInv, DispatchInv, Store
  PROVE  DispatchInv'
<1> DEFINE s == at[Dispatcher]
<1>1. /\ s.op = "result" /\ UNCHANGED faults
      /\ Becomes(Dispatcher, Idle) \/ Becomes(Dispatcher, [op |-> "send", left |-> s.left])
  BY DEF Store
<1>2. /\ at'[Dispatcher] = Idle \/ at'[Dispatcher] = [op |-> "send", left |-> s.left]
      /\ at'[Dispatcher].op # "result"
  BY <1>1, TypedNow, Documented DEF Becomes, AtTyped, Idle
<1>3. DispatchOK(s) /\ Sending(s.left)
  BY <1>1 DEF DispatchInv, DispatchOK
<1>4. /\ s.n \in DOMAIN outbox \ DOMAIN s.left /\ outbox[s.n] \in Notice
      /\ outbox[s.n].arrived \in Nat
  BY <1>1, <1>3, IncidentsTyped DEF DispatchOK, Notice
<1>5. Hidden' = Hidden /\ Hidden \in Nat
  BY <1>1, HiddenTyped
<1>6. /\ DOMAIN outbox' = DOMAIN outbox
      /\ \A m \in DOMAIN outbox : m # s.n => outbox'[m] = outbox[m]
      /\ outbox'[s.n].status = s.outcome.status /\ outbox'[s.n].attempts = s.outcome.attempts
      /\ outbox'[s.n].arrived = outbox[s.n].arrived
  <2>1. outbox' = [outbox EXCEPT ![s.n] = [outbox[s.n] EXCEPT !.status = s.outcome.status,
                                        !.attempts = s.outcome.attempts,
                                        !.later = s.outcome.status = "RETRY_PENDING"]]
    BY DEF Store
  <2>2. outbox'[s.n] = [outbox[s.n] EXCEPT !.status = s.outcome.status,
                                        !.attempts = s.outcome.attempts,
                                        !.later = s.outcome.status = "RETRY_PENDING"]
    BY <1>4, <2>1
  <2> QED
    BY <1>4, <2>1, <2>2 DEF Notice
<1>7. ASSUME NEW m \in DOMAIN outbox' PROVE RowOK(m)'
  <2>1. CASE m = s.n
    <3>1. /\ outbox'[m].attempts \in 0 .. MaxAttempts
          /\ outbox'[m].status = "RETRY_PENDING" => outbox'[m].attempts < MaxAttempts
          /\ outbox'[m].status # "PENDING"
          /\ outbox'[m].status = "SENT" => outbox'[m].arrived > 0
          /\ outbox'[m].status # "SENT" => outbox'[m].arrived <= Hidden
      BY <1>1, <1>3, <1>6, <2>1 DEF DispatchOK
    <3>2. outbox'[m].arrived <= 1 + Hidden
      BY <1>4, <1>6, <2>1 DEF DispatchInv, RowOK
    <3> QED
      BY <1>2, <1>5, <3>1, <3>2, AttemptBounds DEF RowOK, Waiting
  <2>2. CASE m # s.n
    <3>1. outbox'[m] = outbox[m] /\ RowOK(m)
      BY <1>6, <1>7, <2>2 DEF DispatchInv
    <3> QED
      BY <1>2, <1>5, <2>2, <3>1 DEF RowOK
  <2> QED
    BY <2>1, <2>2
<1>8. DispatchOK(at[Dispatcher])'
  <2>1. CASE at'[Dispatcher] = Idle
    BY <2>1 DEF DispatchOK, Idle
  <2>2. CASE at'[Dispatcher] = [op |-> "send", left |-> s.left]
    <3>1. at'[Dispatcher].op = "send" /\ at'[Dispatcher].left = s.left
      BY <2>2
    <3>2. Sending(at[Dispatcher].left)'
      BY <1>3, <1>4, <1>6, <3>1 DEF Sending
    <3> QED
      BY <3>1, <3>2 DEF DispatchOK
  <2> QED
    BY <1>2, <2>1, <2>2
<1> QED
  BY <1>7, <1>8 DEF DispatchInv

\* An outcome that cannot be written is a fault of its own.
LEMMA StoreFailsDispatch ==
  ASSUME TypeInv, DispatchInv, StoreFails
  PROVE  DispatchInv'
<1> DEFINE s == at[Dispatcher]
           y == [s EXCEPT !.again = TRUE, !.limited = FALSE, !.outcome =
                   [status |-> IF s.tried + 1 >= MaxAttempts THEN "UNKNOWN" ELSE "RETRY_PENDING",
                    attempts |-> s.tried + 1]]
<1>1. /\ s.op = "result" /\ Faulty("write") /\ outbox' = outbox
      /\ Becomes(Dispatcher, Idle) \/ Becomes(Dispatcher, y)
  BY DEF StoreFails
<1>2. Hidden' = Hidden + 1 /\ Hidden \in Nat
  BY <1>1, HiddenTyped, KnownKinds DEF Faulty
<1>3. at'[Dispatcher] = Idle \/ at'[Dispatcher] = y
  BY <1>1, TypedNow, Documented DEF Becomes, AtTyped
<1>4. CASE at'[Dispatcher] = Idle
  BY <1>1, <1>2, <1>4, DispatchIdles DEF Idle
<1>5. CASE at'[Dispatcher] = y
  <2>1. DispatchOK(s) /\ Sending(s.left)
    BY <1>1 DEF DispatchInv, DispatchOK
  <2>2. /\ s.n \in DOMAIN outbox \ DOMAIN s.left /\ outbox[s.n].status \in Waiting
        /\ s.tried = outbox[s.n].attempts
        /\ outbox[s.n] \in Notice /\ RowOK(s.n)
    BY <1>1, <2>1, IncidentsTyped DEF DispatchOK, DispatchInv
  <2>3. /\ s.tried \in Nat /\ s.tried < MaxAttempts /\ outbox[s.n].arrived \in Nat
        /\ outbox[s.n].arrived <= Hidden'
    BY <1>2, <2>2 DEF RowOK, Notice
  <2> DEFINE z == at'[Dispatcher]
  <2>4. /\ z.op = "result" /\ z.left = s.left /\ z.n = s.n /\ z.tried = s.tried
        /\ z.limited = FALSE /\ z.again = TRUE
        /\ z.outcome.status = IF s.tried + 1 >= MaxAttempts THEN "UNKNOWN" ELSE "RETRY_PENDING"
        /\ z.outcome.attempts = s.tried + 1
        /\ DOMAIN z = {"op", "n", "tried", "limited", "again", "outcome", "left"}
    <3>1. DOMAIN s = {"op", "n", "tried", "limited", "again", "outcome", "left"}
      BY <1>1, <2>1 DEF DispatchOK
    <3>2. DOMAIN y = DOMAIN s
      OBVIOUS
    <3> QED
      BY <1>1, <1>5, <3>1, <3>2
  <2>5. ASSUME NEW m \in DOMAIN outbox' PROVE RowOK(m)'
    <3>1. RowOK(m) /\ outbox[m].arrived \in Nat
      BY <1>1, <2>5, IncidentsTyped DEF DispatchInv, Notice
    <3> QED
      BY <1>1, <1>2, <2>4, <3>1 DEF RowOK
  <2>6. Sending(at[Dispatcher].left)'
    BY <1>1, <2>1, <2>4 DEF Sending
  <2>7. DispatchOK(at[Dispatcher])'
    <3>1. /\ z.outcome.status \in {"UNKNOWN", "RETRY_PENDING"}
          /\ z.outcome.attempts \in 0 .. MaxAttempts
          /\ z.outcome.status = "RETRY_PENDING" => z.outcome.attempts < MaxAttempts
      BY <2>3, <2>4, AttemptBounds
    <3>2. /\ s.n \in DOMAIN outbox' \ DOMAIN s.left /\ outbox'[s.n].status \in Waiting
          /\ s.tried = outbox'[s.n].attempts /\ outbox'[s.n].arrived <= Hidden'
      BY <1>1, <2>2, <2>3
    <3> QED
      BY <2>4, <2>6, <3>1, <3>2 DEF DispatchOK
  <2> QED
    BY <2>5, <2>7 DEF DispatchInv
<1> QED
  BY <1>3, <1>4, <1>5

\* A backoff that passes changes no outcome.
LEMMA BackoffDispatch ==
  ASSUME TypeInv, DispatchInv, NEW n \in DOMAIN outbox, BackoffPasses(n)
  PROVE  DispatchInv'
<1>1. at' = at /\ faults' = faults /\ outbox' = [outbox EXCEPT ![n].later = FALSE]
  BY DEF BackoffPasses
<1>2. Hidden' = Hidden
  BY <1>1, HiddenTyped
<1>3. /\ DOMAIN outbox' = DOMAIN outbox
      /\ \A m \in DOMAIN outbox : /\ outbox'[m].status = outbox[m].status
                                  /\ outbox'[m].attempts = outbox[m].attempts
                                  /\ outbox'[m].arrived = outbox[m].arrived
  BY <1>1, IncidentsTyped DEF Notice
<1>4. \A m \in DOMAIN outbox : RowOK(m)'
  BY <1>1, <1>2, <1>3 DEF DispatchInv, RowOK
<1>5. DispatchOK(at[Dispatcher])'
  <2> DEFINE s == at[Dispatcher]
  <2>1. DispatchOK(s)
    BY DEF DispatchInv
  <2>2. Sending(s.left) => Sending(s.left)'
    BY <1>1, <1>3 DEF Sending
  <2>3. s.op = "send" => Sending(s.left)'
    BY <2>1, <2>2 DEF DispatchOK
  <2>4. s.op = "result" => Sending(s.left)' /\ s.n \in DOMAIN outbox
    BY <2>1, <2>2 DEF DispatchOK
  <2> QED
    BY <1>1, <1>2, <1>3, <2>1, <2>3, <2>4 DEF DispatchOK
<1> QED
  BY <1>3, <1>4, <1>5 DEF DispatchInv

\* A step of the engine moves one caller, never the dispatcher, or nobody.
LEMMA EngineMoves ==
  ASSUME TypeInv, EngineNext
  PROVE  \/ \E c \in Callers \ {Dispatcher} : Moves(c)
         \/ UNCHANGED <<at, chain>>
<1>1. AtTyped /\ Queueing
  BY TypedNow
<1>2. Observers \cup {Listener, Human} \subseteq Callers \ {Dispatcher}
  BY Documented
<1>3. CASE Report
  <2>1. ASSUME NEW o \in Observers, NEW k, Fail(o, k) PROVE Moves(o)
    BY <1>1, <1>2, <2>1, CountMoves DEF Fail
  <2>2. ASSUME NEW o \in Observers, Succeed(o) PROVE Moves(o)
    BY <1>1, <1>2, <2>2, NoteMoves DEF Succeed
  <2>3. ASSUME NEW i, NEW status, Decide(i, status) PROVE Moves(Human)
    BY <1>1, <2>3, DecideMoves
  <2> QED
    BY <1>2, <1>3, <2>1, <2>2, <2>3 DEF Report
<1>4. CASE Commits
  BY <1>1, <1>2, <1>4, CountedMoves, RecordedMoves, LinkedMoves, NotedMoves, ToldMoves, TellsMoves,
     DecidedMoves DEF Commits, Resolved
<1>5. CASE WriteFails
  BY <1>1, <1>2, <1>5, MonitoringFailureMoves, AdminFailureMoves DEF WriteFails
<1>6. CASE Listen
  BY <1>1, <1>2, <1>6, CountMoves, NoteMoves DEF Listen
<1>7. CASE TimePasses
  BY <1>7 DEF TimePasses
<1> QED
  BY <1>3, <1>4, <1>5, <1>6, <1>7 DEF EngineNext

\* What the engine does to the outbox: a report is told.
LEMMA EngineRows ==
  ASSUME TypeInv, EngineNext
  PROVE  \/ outbox' = outbox
         \/ \E c \in Observers \cup {Listener} :
              Told(c) /\ outbox' = Append(outbox, at[c].what) /\ at[c].what \in Notice
              /\ Fresh(at[c].what)
<1>1. CASE Report
  BY <1>1 DEF Report, Fail, Succeed, Decide, durable
<1>2. CASE WriteFails
  BY <1>2 DEF WriteFails, MonitoringWriteFails, AdminWriteFails, durable
<1>3. ASSUME NEW c \in Observers \cup {Listener}, Told(c)
      PROVE  \/ outbox' = outbox
             \/ outbox' = Append(outbox, at[c].what) /\ at[c].what \in Notice /\ Fresh(at[c].what)
  <2>1. StateOK(at[c]) /\ at[c].op = "tell"
    BY <1>3, TypedNow, Documented DEF Told
  <2>2. at[c].what \in Notice /\ Fresh(at[c].what)
    BY <2>1 DEF StateOK, Fresh
  <2> QED
    BY <1>3, <2>2 DEF Told, QueuedOnce, Queued
<1>4. ASSUME NEW c, Counted(c) \/ RecordedBy(c) \/ Linked(c) \/ Noted(c) \/ Resolved(c) \/ Decided
      PROVE  outbox' = outbox
  BY <1>4 DEF Counted, RecordedBy, Linked, Noted, Resolved, Decided
<1>5. CASE Commits
  BY <1>3, <1>4, <1>5 DEF Commits
<1> QED
  BY <1>1, <1>2, <1>5 DEF EngineNext, Listen, TimePasses, durable

\* Faults are counted, never taken back.
LEMMA FaultsGrow ==
  ASSUME TypeInv, [Next]_vars
  PROVE  UNCHANGED faults \/ \E kind \in Kinds : Counts(kind)
<1>1. CASE Report
  BY <1>1 DEF Report, Fail, Succeed, Decide
<1>2. CASE WriteFails
  BY <1>2, KnownKinds DEF WriteFails, MonitoringWriteFails, AdminWriteFails, Faulty
<1>3. ASSUME NEW c, Counted(c) \/ RecordedBy(c) \/ Linked(c) \/ Noted(c) \/ Resolved(c)
      PROVE  UNCHANGED faults \/ Counts("reopen")
  BY <1>3 DEF Counted, RecordedBy, Linked, Noted, Resolved
<1>4. ASSUME NEW c, Told(c)
      PROVE  UNCHANGED faults \/ Counts("overlap")
  BY <1>4 DEF Told, QueuedOnce, Queued
<1>5. CASE Decided
  BY <1>5, KnownKinds DEF Decided
<1>6. CASE Commits
  BY <1>3, <1>4, <1>5, <1>6, KnownKinds DEF Commits
<1>7. CASE Dispatch \/ \E n \in DOMAIN outbox : BackoffPasses(n)
  BY <1>7, DispatchFaults, KnownKinds DEF Faulty
<1>8. CASE Crash
  BY <1>8, KnownKinds DEF Crash, Faulty
<1> QED
  BY <1>1, <1>2, <1>6, <1>7, <1>8 DEF Next, EngineNext, Listen, TimePasses, vars, engineVars

\* A step of the engine takes nothing from the dispatcher.
LEMMA EngineDispatch ==
  ASSUME TypeInv, DispatchInv, EngineNext
  PROVE  DispatchInv'
<1>1. at'[Dispatcher] = at[Dispatcher]
  <2>1. ASSUME NEW c \in Callers \ {Dispatcher}, Moves(c) PROVE at'[Dispatcher] = at[Dispatcher]
    BY <2>1, MovesKeeps, TypedNow, Documented
  <2> QED
    BY <2>1, EngineMoves
<1>2. Hidden' \in Nat /\ Hidden <= Hidden'
  <2>1. [Next]_vars
    BY DEF Next
  <2> QED
    BY <2>1, HiddenTyped, FaultsGrow
<1>3. /\ DOMAIN outbox \subseteq DOMAIN outbox' /\ \A n \in DOMAIN outbox : outbox'[n] = outbox[n]
      /\ \A n \in DOMAIN outbox' \ DOMAIN outbox : Fresh(outbox'[n])
  <2>1. CASE outbox' = outbox
    BY <2>1
  <2>2. ASSUME NEW what \in Notice, outbox' = Append(outbox, what), Fresh(what)
        PROVE  /\ DOMAIN outbox \subseteq DOMAIN outbox'
               /\ \A n \in DOMAIN outbox : outbox'[n] = outbox[n]
               /\ \A n \in DOMAIN outbox' \ DOMAIN outbox : Fresh(outbox'[n])
    <3>1. outbox \in Seq(Notice)
      BY DEF TypeInv, RowsTyped
    <3>2. \A n \in DOMAIN outbox' \ DOMAIN outbox : outbox'[n] = what
      BY <2>2, <3>1
    <3> QED
      BY <2>2, <3>1, <3>2
  <2> QED
    BY <2>1, <2>2, EngineRows
<1> QED
  BY <1>1, <1>2, <1>3, DispatchStands

\* Every step keeps what the dispatcher relies on.
LEMMA DispatchStep ==
  ASSUME TypeInv, DispatchInv, [Next]_vars
  PROVE  DispatchInv'
<1>1. CASE Crash
  <2>1. outbox' = outbox /\ Counts("crash") /\ at' = [c \in DOMAIN at |-> Idle]
    BY <1>1 DEF Crash, Faulty, durable
  <2>2. at'[Dispatcher] = Idle
    BY <2>1, TypedNow, Documented DEF AtTyped
  <2>3. Hidden' = Hidden + 1
    BY <2>1, HiddenTyped, KnownKinds
  <2> QED
    BY <2>1, <2>2, <2>3, DispatchIdles DEF Idle
<1>2. CASE UNCHANGED vars
  <2>1. at' = at /\ outbox' = outbox /\ faults' = faults
    BY <1>2 DEF vars, engineVars, durable
  <2> QED
    BY <2>1, HiddenTyped, DispatchStands
<1>3. CASE Dispatch
  BY <1>3, TickDispatch, PruneDispatch, SendDispatch, StoreDispatch, StoreFailsDispatch DEF Dispatch
<1> QED
  BY <1>1, <1>2, <1>3, EngineDispatch, BackoffDispatch DEF Next

\* The dispatcher begins with an empty outbox.
LEMMA DispatchInit == Init => DispatchInv
<1> SUFFICES ASSUME Init PROVE DispatchInv
  OBVIOUS
<1>1. outbox = <<>> /\ at[Dispatcher] = Idle
  BY Documented DEF Init, EngineInit
<1> QED
  BY <1>1 DEF DispatchInv, DispatchOK, Idle

\* The types and what the dispatcher relies on hold for ever.
LEMMA SafeAtLast == Spec => [](TypeInv /\ DispatchInv)
  BY TypeInit, TypeStep, DispatchInit, DispatchStep, PTL DEF Spec

\* Watches, incidents, rows and callers keep their types in every state
\* (monitoring.types.ts).
THEOREM MonitoringTypes == Spec => []TypeOK
<1>1. ASSUME TypeInv, DispatchInv PROVE TypeOK
  <2>1. \A k \in Keys : WatchOK(k)
    BY <1>1, TypedNow
  <2>2. \A n \in DOMAIN outbox :
          outbox[n].status \in NotificationStatus /\ outbox[n].attempts \in 0 .. MaxAttempts
    BY <1>1, IncidentsTyped, AttemptBounds DEF DispatchInv, RowOK, Notice
  <2> QED
    BY <1>1, <2>1, <2>2, IncidentsTyped DEF TypeOK, TypeInv, RowsTyped, WatchOK, Names, Tracked
<1> QED
  BY <1>1, SafeAtLast, PTL

\* SENT means arrived, and a message arrives again only through a crash, a
\* failed write or a lost answer (send, recordNotificationResult).
THEOREM RepeatsAreAlwaysExplained == Spec => []RepeatsAreExplained
<1>1. ASSUME TypeInv, DispatchInv PROVE RepeatsAreExplained
  <2>1. Hidden = faults["crash"] + faults["write"] + faults["lost"]
        /\ faults["crash"] \in Nat /\ faults["write"] \in Nat /\ faults["lost"] \in Nat
    BY <1>1, KnownKinds DEF Hidden, TypeInv, RestTyped
  <2>2. \A n \in DOMAIN outbox : outbox[n].arrived \in Nat
    BY <1>1, IncidentsTyped DEF Notice
  <2> QED
    BY <1>1, <2>1, <2>2 DEF RepeatsAreExplained, DispatchInv, RowOK
<1> QED
  BY <1>1, SafeAtLast, PTL

-----------------------------------------------------------------------------
(* Failures are told in the order in which they came *)

Advances(c) ==
    \/ Stage(at'[c]) = 0
    \/ Stage(at[c]) = 0 /\ Stage(at'[c]) = 1 /\ at'[c].time = now
    \/ /\ Stage(at[c]) \in 1 .. 3 /\ Stage(at'[c]) = Stage(at[c]) + 1
       /\ at'[c].time = at[c].time
       /\ Stage(at'[c]) = 2 => Counted(c)
       /\ Stage(at'[c]) = 3 => RecordedBy(c)
       /\ Stage(at'[c]) = 4 => Linked(c)

\* The stages of a failure, and the document where each of them waits.
LEMMA Stages ==
  ASSUME NEW s
  PROVE  /\ Stage(s) \in 0 .. 4
         /\ Stage(s) > 0 => Place(s) = IF Stage(s) = 2 THEN "admin" ELSE "monitoring"
         /\ Stage(s) = 1 <=> s.op = "count"
         /\ Stage(s) = 2 <=> s.op = "record"
         /\ Stage(s) = 3 <=> s.op = "link"
         /\ Stage(s) = 4 <=> s.op = "tell" /\ s.what.kind = "INCIDENT"
  BY DEF Stage, Place

\* A success is no stage of a failure.
LEMMA NotingIsApart ==
  ASSUME NEW s, s = Idle \/ \E k, K, time : s = Noting(k, K, time)
  PROVE  Stage(s) = 0 /\ s.op \in {"idle", "note"}
  BY DEF Stage, Idle, Noting

\* A step moves nobody, or one report to its next stage, or a crash ends all.
LEMMA PipelineStep ==
  ASSUME TypeInv, [Next]_vars
  PROVE  \/ UNCHANGED <<at, chain>>
         \/ \E c \in Callers : Moves(c) /\ Advances(c)
         \/ \A c \in Callers : at'[c] = Idle
<1>1. AtTyped /\ Queueing /\ Observers \cup {Listener, Human, Dispatcher} \subseteq Callers
  BY TypedNow, Documented
<1>2. Stage(Idle) = 0
  BY DEF Stage, Idle
<1>3. ASSUME NEW c \in Callers, NEW k, at[c] = Idle, Count(c, k, now)
      PROVE  Moves(c) /\ Advances(c)
  <2>1. Moves(c) /\ at'[c] = [op |-> "count", key |-> k, time |-> now]
    BY <1>1, <1>3, CountMoves
  <2>2. at'[c].op = "count" /\ at'[c].time = now
    BY <2>1
  <2>3. Stage(at'[c]) = 1
    BY <2>2, Stages
  <2> QED
    BY <1>2, <1>3, <2>1, <2>2, <2>3 DEF Advances
<1>4. ASSUME NEW c \in Callers, NEW K, at[c] = Idle, Note(c, K, now)
      PROVE  Moves(c) /\ Advances(c)
  <2>1. Moves(c) /\ \E k \in K : at'[c] = Noting(k, K, now)
    BY <1>1, <1>4, NoteMoves
  <2>2. Stage(at'[c]) = 0
    BY <2>1, NotingIsApart
  <2> QED
    BY <2>1, <2>2 DEF Advances
<1>5. CASE Report
  <2>1. ASSUME NEW i, NEW status, Decide(i, status) PROVE Moves(Human) /\ Advances(Human)
    <3>1. Moves(Human) /\ at'[Human] = [op |-> "decide", incident |-> i, status |-> status]
      BY <1>1, <2>1, DecideMoves
    <3>2. at'[Human].op = "decide"
      BY <3>1
    <3> QED
      BY <3>1, <3>2 DEF Advances, Stage
  <2> QED
    BY <1>1, <1>3, <1>4, <1>5, <2>1 DEF Report, Fail, Succeed
<1>6. ASSUME NEW c \in Observers \cup {Listener}, Counted(c) PROVE Moves(c) /\ Advances(c)
  <2>1. /\ Moves(c) /\ at[c].op = "count"
        /\ \/ at'[c] = Idle
           \/ at'[c] = [op |-> "record", key |-> at[c].key, time |-> at[c].time,
                        generation |-> Generation(Failed(at[c].key)),
                        notified |-> Failed(at[c].key).notified]
    BY <1>1, <1>6, CountedMoves
  <2>2. at'[c] = Idle \/ (at'[c].op = "record" /\ at'[c].time = at[c].time)
    BY <2>1
  <2> QED
    BY <1>2, <1>6, <2>1, <2>2, Stages DEF Advances
<1>7. ASSUME NEW c \in Observers \cup {Listener}, RecordedBy(c) PROVE Moves(c) /\ Advances(c)
  <2>1. /\ Moves(c) /\ at[c].op = "record"
        /\ at'[c] = [op |-> "link", key |-> at[c].key, time |-> at[c].time,
                     generation |-> at[c].generation, notified |-> at[c].notified,
                     incident |-> RecordOf(incidents', at[c].key, at[c].generation)]
    BY <1>1, <1>7, RecordedMoves
  <2>2. at'[c].op = "link" /\ at'[c].time = at[c].time
    BY <2>1
  <2> QED
    BY <1>7, <2>1, <2>2, Stages DEF Advances
<1>8. ASSUME NEW c \in Observers \cup {Listener}, Linked(c) PROVE Moves(c) /\ Advances(c)
  <2>1. /\ Moves(c) /\ at[c].op = "link"
        /\ at'[c] = Idle \/ at'[c] = Telling(at[c])
    BY <1>1, <1>8, LinkedMoves
  <2>2. \/ at'[c] = Idle
        \/ at'[c].op = "tell" /\ at'[c].what.kind = "INCIDENT" /\ at'[c].time = at[c].time
    BY <2>1 DEF Telling, Notification
  <2> QED
    BY <1>2, <1>8, <2>1, <2>2, Stages DEF Advances
<1>9. ASSUME NEW c \in Observers \cup {Listener}, Noted(c) PROVE Moves(c) /\ Advances(c)
  <2> DEFINE x == [op |-> "resolve", key |-> at[c].key, time |-> at[c].time, left |-> at[c].left,
                   incident |-> watch[at[c].key].incident,
                   generation |-> watch[at[c].key].generation]
  <2>1. /\ Moves(c)
        /\ \/ at'[c] = x
           \/ at'[c] = Idle
           \/ \E k \in at[c].left : at'[c] = Noting(k, at[c].left, at[c].time)
    BY <1>1, <1>9, NotedMoves
  <2>2. Stage(x) = 0
    BY DEF Stage
  <2> HIDE DEF x
  <2>3. Stage(at'[c]) = 0
    BY <2>1, <2>2, NotingIsApart
  <2> QED
    BY <2>1, <2>3 DEF Advances
<1>10. ASSUME NEW c \in Callers, Turn(c, "admin"), Tells(c) PROVE Moves(c) /\ Advances(c)
  <2>1. /\ Moves(c)
        /\ at'[c] = [op |-> "tell", key |-> at[c].key, time |-> at[c].time, left |-> at[c].left,
                     notified |-> Never,
                     what |-> Notification("RECOVERY", at[c].incident, at[c].generation, 0,
                                           at[c].time)]
    BY <1>1, <1>10, TellsMoves
  <2>2. at'[c].op = "tell" /\ at'[c].what.kind = "RECOVERY"
    BY <2>1 DEF Notification
  <2> QED
    BY <2>1, <2>2 DEF Advances, Stage
<1>11. ASSUME NEW c \in Observers \cup {Listener}, Told(c) PROVE Moves(c) /\ Advances(c)
  <2>1. /\ Moves(c)
        /\ at'[c] = Idle \/ \E k \in at[c].left : at'[c] = Noting(k, at[c].left, at[c].time)
    BY <1>1, <1>11, ToldMoves
  <2>2. Stage(at'[c]) = 0
    BY <2>1, NotingIsApart
  <2> QED
    BY <2>1, <2>2 DEF Advances
<1>12. CASE Decided
  BY <1>1, <1>2, <1>12, DecidedMoves DEF Advances
<1>13. CASE Commits
  BY <1>1, <1>6, <1>7, <1>8, <1>9, <1>10, <1>11, <1>12, <1>13 DEF Commits, Resolved
<1>14. CASE WriteFails
  <2>1. ASSUME NEW c \in Callers, MonitoringWriteFails(c) PROVE Moves(c) /\ Advances(c)
    BY <1>1, <1>2, <2>1, MonitoringFailureMoves DEF Advances
  <2>2. ASSUME NEW c \in Callers, AdminWriteFails(c) PROVE Moves(c) /\ Advances(c)
    BY <1>1, <1>2, <1>10, <2>2, AdminFailureMoves DEF Advances
  <2> QED
    BY <1>1, <1>14, <2>1, <2>2 DEF WriteFails
<1>15. CASE Listen
  BY <1>1, <1>3, <1>4, <1>15 DEF Listen
<1>16. CASE Dispatch
  <2>1. /\ Moves(Dispatcher)
        /\ at'[Dispatcher] = Idle \/ at'[Dispatcher].op \in {"prune", "send", "result"}
    BY <1>1, <1>16, DispatcherMoves
  <2>2. at'[Dispatcher].op \in {"prune", "send", "result"} => Stage(at'[Dispatcher]) = 0
    BY DEF Stage
  <2> QED
    BY <1>1, <1>2, <2>1, <2>2 DEF Advances
<1>17. CASE Crash
  BY <1>1, <1>17 DEF Crash, AtTyped
<1> QED
  BY <1>5, <1>13, <1>14, <1>15, <1>16, <1>17
  DEF Next, EngineNext, TimePasses, BackoffPasses, vars, engineVars

\* Who fails has a time, and it is not to come.
LEMMA FailingTimes ==
  ASSUME TypeInv
  PROVE  \A c \in Callers : Stage(at[c]) > 0 \/ at[c].op = "tell" =>
           at[c].key \in Keys /\ at[c].time \in Nat \ {0} /\ at[c].time <= now
<1>1. ASSUME NEW c \in Callers, Stage(at[c]) > 0 \/ at[c].op = "tell"
      PROVE  at[c].op \in {"count", "record", "link", "tell"}
  BY <1>1, Stages
<1> QED
  BY <1>1, TypedNow DEF StateOK

\* Nobody is before the head of a chain, at its stage or behind.
LEMMA FirstInLine ==
  ASSUME TypeInv, Ordered, NEW c \in Callers, Stage(at[c]) > 0, Turn(c, Place(at[c]))
  PROVE  \A b \in Callers : Stage(at[b]) > 0 /\ Stage(at[b]) <= Stage(at[c]) =>
           at[c].time <= at[b].time
<1> SUFFICES ASSUME NEW b \in Callers, Stage(at[b]) > 0, Stage(at[b]) <= Stage(at[c]), b # c
             PROVE  at[c].time <= at[b].time
  BY FailingTimes
<1>1. Place(at[c]) \in Documents
  BY Stages, Documented
<1>2. Stage(at[b]) = Stage(at[c]) => Place(at[b]) = Place(at[c])
  BY Stages
<1>3. Stage(at[b]) = Stage(at[c]) => Precedes(Place(at[b]), c, b)
  BY <1>1, <1>2, TurnIsFirst, TypedNow
<1>4. Ahead(c, b)
  BY <1>3, Stages DEF Ahead
<1> QED
  BY <1>4 DEF Ordered, Failing

\* A failure that goes on joins the end of the next chain, behind those before
\* it.
LEMMA OrderedMoves ==
  ASSUME TypeInv, Ordered, NEW c \in Callers, Moves(c), Advances(c)
  PROVE  Ordered'
<1> SUFFICES ASSUME NEW a \in Callers, NEW b \in Callers,
                    Stage(at'[a]) > 0, Stage(at'[b]) > 0, Ahead(a, b)'
             PROVE  at'[a].time <= at'[b].time
  BY DEF Ordered, Failing
<1>1. /\ \A d \in Callers : d # c => at'[d] = at[d]
      /\ \A q \in Documents : \A d, e \in Callers :
           Precedes(q, d, e)' <=>
             \/ Precedes(q, d, e) /\ d # c /\ e # c
             \/ q = Place(at'[c]) /\ e = c /\ d # c /\ Place(at[d]) = q
  BY MovesKeeps, TypedNow
<1>2. PICK q \in Documents : q = Place(at'[b])
  BY Stages, Documented
<1>3. \/ Stage(at'[a]) > Stage(at'[b])
      \/ Stage(at'[a]) = Stage(at'[b]) /\ Precedes(q, a, b)'
  BY <1>2 DEF Ahead, Precedes
<1>4. CASE a # c /\ b # c
  <2>1. at'[a] = at[a] /\ at'[b] = at[b]
    BY <1>1, <1>4
  <2>2. Ahead(a, b)
    BY <1>1, <1>2, <1>3, <1>4, <2>1 DEF Ahead
  <2> QED
    BY <2>1, <2>2 DEF Ordered, Failing
<1>5. CASE b = c
  <2>1. a # c
    BY <1>1, <1>2, <1>3, <1>5, Stages
  <2>2. at'[a] = at[a]
    BY <1>1, <2>1
  <2>3. CASE Stage(at'[c]) = 1 /\ at'[c].time = now
    BY <1>5, <2>2, <2>3, FailingTimes
  <2>4. CASE /\ Stage(at[c]) \in 1 .. 3 /\ Stage(at'[c]) = Stage(at[c]) + 1
             /\ at'[c].time = at[c].time
    <3>1. Stage(at[a]) > Stage(at[c])
      BY <1>3, <1>5, <2>2, <2>4, Stages
    <3>2. Ahead(a, c)
      BY <3>1 DEF Ahead
    <3> QED
      BY <1>5, <2>2, <2>4, <3>2 DEF Ordered, Failing
  <2> QED
    BY <1>5, <2>3, <2>4 DEF Advances
<1>6. CASE a = c /\ b # c
  <2>1. at'[b] = at[b] /\ ~ Precedes(q, a, b)'
    BY <1>1, <1>2, <1>6
  <2>2. Stage(at'[c]) > Stage(at[b])
    BY <1>3, <1>6, <2>1
  <2>3. /\ Stage(at[c]) \in 1 .. 3 /\ Stage(at'[c]) = Stage(at[c]) + 1
        /\ at'[c].time = at[c].time
    BY <1>6, <2>1, <2>2, Stages DEF Advances
  <2>4. Stage(at[b]) <= Stage(at[c]) /\ Stage(at[b]) > 0
    BY <2>1, <2>2, <2>3, Stages
  <2>5. Turn(c, Place(at[c]))
    <3>1. Place(at[c]) # "none"
      BY <2>3, Stages
    <3> QED
      BY <3>1 DEF Moves
  <2> QED
    BY <1>6, <2>1, <2>3, <2>4, <2>5, FirstInLine
<1> QED
  BY <1>4, <1>5, <1>6

\* Failures stay in the order in which they came.
LEMMA OrderedStep ==
  ASSUME TypeInv, Ordered, [Next]_vars
  PROVE  Ordered'
<1>1. CASE UNCHANGED <<at, chain>>
  <2>1. Failing' = Failing
    BY <1>1 DEF Failing
  <2>2. ASSUME NEW a \in Callers, NEW b \in Callers PROVE Ahead(a, b)' <=> Ahead(a, b)
    BY <1>1 DEF Ahead, Precedes
  <2> QED
    BY <1>1, <2>1, <2>2 DEF Ordered, Failing
<1>2. CASE \A c \in Callers : at'[c] = Idle
  <2>1. Failing' = {}
    BY <1>2 DEF Failing, Stage, Idle
  <2> QED
    BY <2>1 DEF Ordered
<1> QED
  BY <1>1, <1>2, PipelineStep, OrderedMoves

\* Who fails has failed before, or fails now.
Followed(c) ==
    Stage(at'[c]) > 0 =>
        \/ Stage(at'[c]) = 1 /\ at'[c].time = now
        \/ /\ Stage(at[c]) > 0 /\ Stage(at[c]) <= Stage(at'[c]) /\ at'[c].time = at[c].time
           /\ Stage(at'[c]) = 2 => at'[c] = at[c] \/ Counted(c)
           /\ Stage(at'[c]) = 3 => at'[c] = at[c] \/ RecordedBy(c)
           /\ Stage(at'[c]) = 4 => at'[c] = at[c] \/ Linked(c)

\* A failure that is under way after a step was under way at the same time
\* before, or has just come.
LEMMA FollowedStep ==
  ASSUME TypeInv, [Next]_vars
  PROVE  \A c \in Callers : Followed(c)
<1>1. ASSUME NEW c \in Callers, at'[c] = at[c] PROVE Followed(c)
  BY <1>1, Stages DEF Followed
<1>2. ASSUME NEW c \in Callers, Moves(c), Advances(c) PROVE \A b \in Callers : Followed(b)
  <2>1. \A b \in Callers : b # c => at'[b] = at[b]
    BY <1>2, MovesKeeps, TypedNow
  <2>2. Followed(c)
    BY <1>2, Stages DEF Followed, Advances
  <2> QED
    BY <1>1, <2>1, <2>2
<1>3. CASE UNCHANGED <<at, chain>>
  BY <1>1, <1>3
<1>4. CASE \A c \in Callers : at'[c] = Idle
  BY <1>4 DEF Followed, Stage, Idle
<1> QED
  BY <1>2, <1>3, <1>4, PipelineStep

-----------------------------------------------------------------------------
(* What a step makes of the lists and of the outbox *)

Reporters == Observers \cup {Listener}

\* Incidents are never removed, and only a report adds one.
LEMMA IncidentsStep ==
  ASSUME TypeInv, [Next]_vars
  PROVE  /\ Continues(incidents, incidents') /\ now <= now' /\ now' \in Nat
         /\ \/ DOMAIN incidents' = DOMAIN incidents
            \/ \E c \in Reporters : RecordedBy(c)
<1>0. now \in Nat
  BY TypedNow
<1>1. ASSUME UNCHANGED <<incidents, now>>
      PROVE  Continues(incidents, incidents') /\ now <= now' /\ now' \in Nat
             /\ DOMAIN incidents' = DOMAIN incidents
  BY <1>0, <1>1 DEF Continues
<1>2. CASE Report
  BY <1>1, <1>2 DEF Report, Fail, Succeed, Decide, durable
<1>3. CASE WriteFails
  BY <1>1, <1>3 DEF WriteFails, MonitoringWriteFails, AdminWriteFails, durable
<1>4. ASSUME NEW c, Counted(c) \/ Linked(c) \/ Noted(c) \/ Told(c)
      PROVE  UNCHANGED <<incidents, now>>
  BY <1>4 DEF Counted, Linked, Noted, Told
<1>5. ASSUME NEW c \in Reporters, RecordedBy(c) PROVE Lasts
  BY <1>5, RecordedTypes DEF Reporters
<1>6. ASSUME NEW c \in Reporters, Resolved(c) PROVE Lasts /\ DOMAIN incidents' = DOMAIN incidents
  BY <1>6, ResolvedTypes DEF Reporters, Relabels
<1>7. CASE Decided
  BY <1>7, DecidedTypes DEF Relabels, Lasts
<1>8. CASE Commits
  BY <1>1, <1>4, <1>5, <1>6, <1>7, <1>8 DEF Commits, Reporters, Lasts
<1>9. CASE Dispatch \/ \E n \in DOMAIN outbox : BackoffPasses(n)
  BY <1>1, <1>9, DispatchFaults
<1>10. CASE TimePasses
  BY <1>0, <1>10 DEF TimePasses, durable, Continues
<1> QED
  BY <1>1, <1>2, <1>3, <1>8, <1>9, <1>10
  DEF Next, EngineNext, Listen, Crash, durable, vars, engineVars

\* A row is gone for good.
LEMMA GoneForGood ==
  ASSUME TypeInv, DispatchInv, Dispatch \/ \E n \in DOMAIN outbox : BackoffPasses(n)
  PROVE  \A n \in DOMAIN outbox : outbox[n].status = "GONE" => outbox'[n].status = "GONE"
<1>0. \A n \in DOMAIN outbox : outbox[n] \in Notice
  BY IncidentsTyped
<1>1. CASE Tick \/ StoreFails
  BY <1>1 DEF Tick, StoreFails
<1>2. CASE Prune
  <2>1. CASE outbox' = Pruned
    <3>1. \A n \in DOMAIN outbox : outbox'[n].status \in {outbox[n].status, "GONE"}
      BY <1>0, <2>1 DEF Pruned, Notice
    <3> QED
      BY <3>1
  <2> QED
    BY <1>2, <2>1 DEF Prune
<1>3. CASE Store
  <2>1. at[Dispatcher].n \in DOMAIN outbox /\ outbox[at[Dispatcher].n].status # "GONE"
    BY <1>3 DEF Store, DispatchInv, DispatchOK, Waiting
  <2> QED
    BY <1>0, <1>3, <2>1 DEF Store
<1>4. ASSUME NEW n \in DOMAIN outbox, Send(n) \/ BackoffPasses(n)
      PROVE  \A m \in DOMAIN outbox : outbox[m].status = "GONE" => outbox'[m].status = "GONE"
  <2>1. \A m \in DOMAIN outbox : outbox'[m].status = outbox[m].status
    <3>1. \/ \E x : outbox' = [outbox EXCEPT ![n].arrived = x]
          \/ outbox' = [outbox EXCEPT ![n].later = FALSE]
      BY <1>4 DEF Send, BackoffPasses
    <3> QED
      BY <1>0, <3>1 DEF Notice
  <2> QED
    BY <2>1
<1> QED
  BY <1>1, <1>2, <1>3, <1>4 DEF Dispatch

\* A step rewrites rows, and never revives a pruned one, or adds the row that is
\* told.
LEMMA OutboxStep ==
  ASSUME TypeInv, DispatchInv, [Next]_vars
  PROVE  \/ /\ Rewrites
            /\ \A n \in DOMAIN outbox : outbox[n].status = "GONE" => outbox'[n].status = "GONE"
         \/ \E c \in Reporters :
              Told(c) /\ outbox' = Append(outbox, at[c].what) /\ at[c].what \in Notice
              /\ Fresh(at[c].what)
<1>1. outbox' = outbox => Rewrites
  BY DEF Rewrites
<1>2. CASE EngineNext
  BY <1>1, <1>2, EngineRows DEF Reporters
<1>3. CASE Dispatch \/ \E n \in DOMAIN outbox : BackoffPasses(n)
  BY <1>3, GoneForGood, DispatchRewrites
<1> QED
  BY <1>1, <1>2, <1>3 DEF Next, Crash, durable, vars, engineVars

\* An outbox with one more row keeps the others.
LEMMA Appended ==
  ASSUME TypeInv, NEW row \in Notice, outbox' = Append(outbox, row)
  PROVE  /\ Len(outbox) + 1 \notin DOMAIN outbox
         /\ DOMAIN outbox' = DOMAIN outbox \cup {Len(outbox) + 1}
         /\ outbox'[Len(outbox) + 1] = row
         /\ \A n \in DOMAIN outbox : outbox'[n] = outbox[n]
  BY DEF TypeInv, RowsTyped

-----------------------------------------------------------------------------
(* What a report makes of the list *)

Opens(list, new, i, k, g, time) ==
    /\ i \notin DOMAIN list /\ DOMAIN new = DOMAIN list \cup {i}
    /\ new[i] = [key |-> k, generation |-> g, status |-> "OPEN", first |-> time]
    /\ \A j \in DOMAIN list : new[j] = list[j]

Reopens(list, new, k, g) ==
    /\ DOMAIN new = DOMAIN list
    /\ \A j \in DOMAIN list :
        new[j].status = IF j \in Found(list, k, g) /\ list[j].status = "RESOLVED"
                        THEN "OPEN" ELSE list[j].status

\* A record opens an incident that is not there, and reopens one that is.
LEMMA RecordedAs ==
  ASSUME NEW list \in Seq(Incident), NEW k \in Keys, NEW g \in Nat, NEW time \in Nat,
         NEW new, new = Recorded(list, k, g, time)
  PROVE  /\ Found(list, k, g) = {} =>
              Opens(list, new, Len(list) + 1, k, g, time) /\ RecordOf(new, k, g) = Len(list) + 1
         /\ Found(list, k, g) # {} => Reopens(list, new, k, g)
<1>0. /\ DOMAIN list = 1 .. Len(list) /\ Len(list) \in Nat
      /\ \A i \in DOMAIN list : list[i] \in Incident
  OBVIOUS
<1>1. CASE Found(list, k, g) # {}
  <2>1. new = [i \in DOMAIN list |->
                 IF i \in Found(list, k, g) /\ list[i].status = "RESOLVED"
                 THEN [list[i] EXCEPT !.status = "OPEN"] ELSE list[i]]
    BY <1>1 DEF Recorded
  <2>2. \A i \in DOMAIN list : [list[i] EXCEPT !.status = "OPEN"].status = "OPEN"
    BY <1>0 DEF Incident
  <2> QED
    BY <1>1, <2>1, <2>2 DEF Reopens
<1>2. CASE Found(list, k, g) = {}
  <2> DEFINE one == [key |-> k, generation |-> g, status |-> "OPEN", first |-> time]
  <2>1. new = Append(list, one)
    BY <1>2 DEF Recorded
  <2>2. one \in Incident /\ one.key = k /\ one.generation = g
    BY DEF Incident, IncidentStatus
  <2> HIDE DEF one
  <2>3. /\ new \in Seq(Incident) /\ DOMAIN new = DOMAIN list \cup {Len(list) + 1}
        /\ Len(list) + 1 \notin DOMAIN list
        /\ new[Len(list) + 1] = one /\ \A i \in DOMAIN list : new[i] = list[i]
    BY <1>0, <2>1, <2>2
  <2>4. Found(new, k, g) = {Len(list) + 1}
    BY <1>2, <2>2, <2>3 DEF Found
  <2>5. RecordOf(new, k, g) = Len(list) + 1
    BY <2>4 DEF RecordOf
  <2> QED
    BY <1>2, <2>3, <2>5 DEF Opens, one
<1> QED
  BY <1>1, <1>2

\* The transaction that records a failure, with what it knows and makes.
Records(c, k, g, time, i) ==
    /\ at[c].op = "record" /\ Turn(c, "admin") /\ Moves(c)
    /\ k = at[c].key /\ g = at[c].generation /\ time = at[c].time
    /\ time <= now
    /\ incidents' \in Seq(Incident) /\ Continues(incidents, incidents')
    /\ incidents'[i].key = k /\ incidents'[i].generation = g
    /\ at'[c] = [op |-> "link", key |-> k, time |-> time, generation |-> g,
                 notified |-> at[c].notified, incident |-> i]
    /\ \/ Free(k, g) /\ Opens(incidents, incidents', i, k, g, time) /\ UNCHANGED faults
       \/ /\ ~ Free(k, g) /\ Reopens(incidents, incidents', k, g)
          /\ \/ Counts("reopen")
             \/ /\ UNCHANGED faults
                /\ \A j \in Found(incidents, k, g) : incidents[j].status # "RESOLVED"

\* What the step that records a failure does, by name.
LEMMA Recording ==
  ASSUME TypeInv, NEW c \in Reporters, RecordedBy(c)
  PROVE  \E k \in Keys, g \in Nat, time \in Nat \ {0}, i \in DOMAIN incidents' :
           Records(c, k, g, time, i)
<1>0. c \in Callers /\ AtTyped /\ Queueing
  BY TypedNow, Documented DEF Reporters
<1>1. at[c].op = "record" /\ Turn(c, "admin")
  BY DEF RecordedBy
<1>2. StateOK(at[c])
  BY <1>0, TypedNow
<1>3. PICK k \in Keys, g \in Nat, time \in Nat \ {0} :
        k = at[c].key /\ g = at[c].generation /\ time = at[c].time /\ time <= now
  BY <1>1, <1>2 DEF StateOK
<1>4. incidents \in Seq(Incident)
  BY DEF TypeInv, RowsTyped
<1>5. incidents' = Recorded(incidents, k, g, time)
  BY <1>3 DEF RecordedBy
<1>6. /\ incidents' \in Seq(Incident) /\ Continues(incidents, incidents')
      /\ Found(incidents', k, g) # {}
  BY <1>4, <1>5, RecordedList
<1>7. PICK i : i = RecordOf(incidents', k, g)
  OBVIOUS
<1>8. i \in DOMAIN incidents' /\ incidents'[i].key = k /\ incidents'[i].generation = g
  BY <1>6, <1>7, FoundOnce
<1>9. /\ Moves(c)
      /\ at'[c] = [op |-> "link", key |-> at[c].key, time |-> at[c].time,
                   generation |-> at[c].generation, notified |-> at[c].notified,
                   incident |-> RecordOf(incidents', at[c].key, at[c].generation)]
  BY <1>0, RecordedMoves
<1>10. /\ Free(k, g) => Opens(incidents, incidents', i, k, g, time)
       /\ ~ Free(k, g) => Reopens(incidents, incidents', k, g)
  BY <1>4, <1>5, <1>7, RecordedAs DEF Free
<1>11. IF \E j \in Found(incidents, k, g) : incidents[j].status = "RESOLVED"
       THEN Counts("reopen") ELSE UNCHANGED faults
  BY <1>3 DEF RecordedBy
<1>12. \/ Free(k, g) /\ Opens(incidents, incidents', i, k, g, time) /\ UNCHANGED faults
       \/ /\ ~ Free(k, g) /\ Reopens(incidents, incidents', k, g)
          /\ \/ Counts("reopen")
             \/ /\ UNCHANGED faults
                /\ \A j \in Found(incidents, k, g) : incidents[j].status # "RESOLVED"
  BY <1>10, <1>11 DEF Free
<1> QED
  BY <1>1, <1>3, <1>6, <1>7, <1>8, <1>9, <1>12 DEF Records

\* No row is younger than a failure under way.
LEMMA RowsBeforeStep ==
  ASSUME TypeInv, DispatchInv, Ordered, RowsBefore, [Next]_vars
  PROVE  RowsBefore'
<1>1. now <= now' /\ now \in Nat /\ now' \in Nat
  BY IncidentsStep, TypedNow
<1>2. /\ \A n \in DOMAIN outbox : outbox[n].created \in Nat
      /\ \A c \in Callers : Stage(at[c]) > 0 => at[c].time \in Nat
  BY IncidentsTyped, FailingTimes DEF Notice
<1>3. ASSUME NEW row, row.created \in Nat, row.created <= now,
             row.kind = "INCIDENT" => \A c \in Failing : row.created <= at[c].time
      PROVE  /\ row.created <= now'
             /\ row.kind = "INCIDENT" => \A c \in Failing' : row.created <= at'[c].time
  <2>1. ASSUME row.kind = "INCIDENT", NEW c \in Callers, Stage(at'[c]) > 0
        PROVE  row.created <= at'[c].time
    <3>1. Followed(c)
      BY FollowedStep
    <3> QED
      BY <1>1, <1>3, <2>1, <3>1 DEF Followed, Failing
  <2> QED
    BY <1>1, <1>3, <2>1 DEF Failing
<1>4. CASE Rewrites
  <2>1. ASSUME NEW n \in DOMAIN outbox'
        PROVE  /\ outbox'[n].created <= now'
               /\ outbox'[n].kind = "INCIDENT" =>
                    \A c \in Failing' : outbox'[n].created <= at'[c].time
    BY <1>2, <1>3, <1>4, <2>1 DEF Rewrites, RowsBefore
  <2> QED
    BY <2>1 DEF RowsBefore
<1>5. ASSUME NEW c \in Reporters, Told(c), outbox' = Append(outbox, at[c].what),
             at[c].what \in Notice
      PROVE  RowsBefore'
  <2>1. PICK row \in Notice : row = at[c].what
    BY <1>5
  <2>2. c \in Callers /\ at[c].op = "tell" /\ Turn(c, "monitoring") /\ StateOK(at[c])
    BY <1>5, TypedNow, Documented DEF Told, Reporters
  <2>3. row.created = at[c].time /\ row.created \in Nat /\ row.created <= now
    BY <2>1, <2>2 DEF StateOK, Notice
  <2>4. ASSUME row.kind = "INCIDENT", NEW b \in Callers, Stage(at[b]) > 0
        PROVE  row.created <= at[b].time
    <3>1. Stage(at[c]) = 4 /\ Place(at[c]) = "monitoring"
      BY <2>1, <2>2, <2>4, Stages
    <3> QED
      BY <2>2, <2>3, <2>4, <3>1, FirstInLine, Stages
  <2>5. /\ row.created <= now'
        /\ row.kind = "INCIDENT" => \A b \in Failing' : row.created <= at'[b].time
    BY <1>3, <2>3, <2>4 DEF Failing
  <2>6. /\ DOMAIN outbox' = DOMAIN outbox \cup {Len(outbox) + 1}
        /\ outbox'[Len(outbox) + 1] = row
        /\ \A n \in DOMAIN outbox : outbox'[n] = outbox[n]
    BY <1>5, <2>1, Appended
  <2>7. ASSUME NEW n \in DOMAIN outbox
        PROVE  /\ outbox[n].created <= now'
               /\ outbox[n].kind = "INCIDENT" => \A b \in Failing' : outbox[n].created <= at'[b].time
    BY <1>2, <1>3, <2>7 DEF RowsBefore
  <2> QED
    BY <2>5, <2>6, <2>7 DEF RowsBefore
<1> QED
  BY <1>4, <1>5, OutboxStep

\* The transaction that links a watch to its incident.
Links(c, i, k, g, time) ==
    /\ at[c].op = "link" /\ Turn(c, "monitoring") /\ Moves(c)
    /\ i = at[c].incident /\ k = at[c].key /\ g = at[c].generation /\ time = at[c].time
    /\ incidents[i].key = k /\ incidents[i].generation = g /\ incidents[i].first \in Nat
    /\ time <= now
    /\ watch[k] \in Watch
    /\ watch' = [watch EXCEPT ![k].incident = i, ![k].generation = g, ![k].phase = "OPEN"]
    /\ UNCHANGED <<incidents, outbox, now, faults>>
    /\ \/ at'[c] = Idle
       \/ /\ at'[c] = Telling(at[c]) /\ MayNotify(at[c].notified, time)
          /\ at'[c].op = "tell" /\ at'[c].what.kind = "INCIDENT"
          /\ at'[c].what.incident = i /\ at'[c].time = time
          /\ at'[c].notified = at[c].notified
          /\ at'[c].what.bucket = Bucket(incidents[i].first, time)

\* What the step that links a failure does, by name.
LEMMA Linking ==
  ASSUME TypeInv, NEW c \in Reporters, Linked(c)
  PROVE  \E i \in DOMAIN incidents, k \in Keys, g \in Nat, time \in Nat \ {0} :
           Links(c, i, k, g, time)
<1>0. c \in Callers /\ AtTyped /\ Queueing
  BY TypedNow, Documented DEF Reporters
<1>1. /\ Moves(c) /\ at[c].op = "link" /\ Turn(c, "monitoring")
      /\ \/ at'[c] = Idle
         \/ at'[c] = Telling(at[c]) /\ MayNotify(at[c].notified, at[c].time)
  BY <1>0, LinkedMoves
<1>2. StateOK(at[c])
  BY <1>0, TypedNow
<1>3. /\ at[c].key \in Keys /\ at[c].generation \in Nat /\ at[c].time \in Nat \ {0}
      /\ at[c].time <= now /\ watch[at[c].key] \in Watch
      /\ Names(at[c].incident, at[c].key)
      /\ incidents[at[c].incident].generation = at[c].generation
  BY <1>1, <1>2 DEF StateOK
<1>4. /\ at[c].incident \in DOMAIN incidents /\ incidents[at[c].incident].key = at[c].key
      /\ incidents[at[c].incident].first \in Nat
  BY <1>3, IncidentsTyped DEF Names, Incident
<1>5. ASSUME at'[c] = Telling(at[c])
      PROVE  /\ at'[c].op = "tell" /\ at'[c].what.kind = "INCIDENT"
             /\ at'[c].what.incident = at[c].incident /\ at'[c].time = at[c].time
             /\ at'[c].notified = at[c].notified
             /\ at'[c].what.bucket = Bucket(incidents[at[c].incident].first, at[c].time)
  BY <1>5 DEF Telling, Notification
<1>6. /\ watch' = [watch EXCEPT ![at[c].key].incident = at[c].incident,
                                ![at[c].key].generation = at[c].generation,
                                ![at[c].key].phase = "OPEN"]
      /\ UNCHANGED <<incidents, outbox, now, faults>>
  BY DEF Linked
<1> QED
  BY <1>1, <1>3, <1>4, <1>5, <1>6 DEF Links

\* No incident is first seen after a failure that finds it.
LEMMA FirstsBeforeStep ==
  ASSUME TypeInv, Ordered, FirstsBefore, [Next]_vars
  PROVE  FirstsBefore'
<1>1. /\ Continues(incidents, incidents') /\ now <= now' /\ now \in Nat /\ now' \in Nat
      /\ DOMAIN incidents' = DOMAIN incidents \/ \E c \in Reporters : RecordedBy(c)
  BY IncidentsStep, TypedNow
<1>2. /\ \A i \in DOMAIN incidents : incidents[i].first \in Nat /\ incidents[i].first <= now
      /\ \A c \in Callers : Stage(at[c]) > 0 => at[c].time \in Nat
  BY IncidentsTyped, FailingTimes DEF Incident, FirstsBefore
<1>3. \A c \in Callers : Followed(c)
  BY FollowedStep
<1>4. \A i \in DOMAIN incidents : i \in DOMAIN incidents' /\ incidents'[i].first = incidents[i].first
  BY <1>1 DEF Continues
<1>5. ASSUME NEW b \in Callers, Stage(at'[b]) \in 1 .. 2, NEW i \in DOMAIN incidents
      PROVE  incidents'[i].first <= at'[b].time
  <2>1. CASE at'[b].time = now
    BY <1>2, <1>4, <2>1
  <2>2. CASE Stage(at[b]) > 0 /\ Stage(at[b]) <= Stage(at'[b]) /\ at'[b].time = at[b].time
    <3>1. b \in Failing /\ Stage(at[b]) <= 2
      BY <1>5, <2>2, Stages DEF Failing
    <3> QED
      BY <1>4, <2>2, <3>1 DEF FirstsBefore
  <2> QED
    BY <1>3, <1>5, <2>1, <2>2 DEF Followed
<1>6. ASSUME NEW b \in Callers, Stage(at[b]) = 3
      PROVE  at[b].incident \in DOMAIN incidents /\ incidents[at[b].incident].first <= at[b].time
  BY <1>6, TypedNow, Stages DEF StateOK, Names, FirstsBefore, Failing
<1>7. ASSUME NEW b \in Callers, Stage(at[b]) = 4
      PROVE  /\ at[b].what.incident \in DOMAIN incidents
             /\ incidents[at[b].what.incident].first <= at[b].time
  BY <1>7, TypedNow, Stages DEF StateOK, Names, FirstsBefore, Failing
<1>8. ASSUME NEW b \in Callers, Stage(at'[b]) = 4
      PROVE  incidents'[at'[b].what.incident].first <= at'[b].time
  <2>1. CASE at'[b] = at[b]
    BY <1>4, <1>7, <1>8, <2>1
  <2>2. CASE Linked(b)
    <3>1. b \in Reporters /\ at'[b] # Idle /\ Stage(at[b]) = 3
      <4>1. at[b].op = "link" /\ Stage(at[b]) = 3 /\ at'[b] # Idle
        BY <1>8, <2>2, Stages DEF Linked, Idle
      <4> QED
        BY <4>1, TypedNow, OpsOfOthers DEF Callers, Reporters
    <3>2. PICK i \in DOMAIN incidents, k \in Keys, g \in Nat, time \in Nat \ {0} :
            Links(b, i, k, g, time)
      BY <2>2, <3>1, Linking
    <3>3. /\ at'[b].what.incident = at[b].incident /\ at'[b].time = at[b].time
      BY <3>1, <3>2 DEF Links
    <3> QED
      BY <1>4, <1>6, <3>1, <3>3
  <2> QED
    BY <1>3, <1>8, <2>1, <2>2 DEF Followed
<1>9. CASE DOMAIN incidents' = DOMAIN incidents /\ ~ \E c \in Reporters : RecordedBy(c)
  <2>1. ASSUME NEW b \in Callers, Stage(at'[b]) = 3
        PROVE  incidents'[at'[b].incident].first <= at'[b].time
    <3>1. at'[b] = at[b]
      <4>1. RecordedBy(b) => b \in Reporters
        <5>1. RecordedBy(b) => at[b].op = "record"
          BY DEF RecordedBy
        <5> QED
          BY <5>1, TypedNow, OpsOfOthers DEF Callers, Reporters
      <4> QED
        BY <1>3, <1>9, <2>1, <4>1 DEF Followed
    <3> QED
      BY <1>4, <1>6, <2>1, <3>1
  <2>2. \A i \in DOMAIN incidents' : incidents'[i].first <= now'
    BY <1>1, <1>2, <1>4, <1>9
  <2> QED
    BY <1>5, <1>8, <1>9, <2>1, <2>2, Stages DEF FirstsBefore, Failing
<1>10. ASSUME NEW c \in Reporters, RecordedBy(c) PROVE FirstsBefore'
  <2>0. PICK k \in Keys, g \in Nat, time \in Nat \ {0}, i \in DOMAIN incidents' :
          Records(c, k, g, time, i)
    BY <1>10, Recording
  <2>1. /\ at[c].op = "record" /\ Turn(c, "admin") /\ Moves(c)
        /\ time = at[c].time /\ time <= now
        /\ at'[c] = [op |-> "link", key |-> k, time |-> time, generation |-> g,
                     notified |-> at[c].notified, incident |-> i]
        /\ \/ Opens(incidents, incidents', i, k, g, time)
           \/ Reopens(incidents, incidents', k, g)
    BY <2>0 DEF Records
  <2>2. c \in Callers /\ Stage(at[c]) = 2 /\ Place(at[c]) = "admin"
    BY <2>1, Documented, Stages DEF Reporters
  <2>3. \A j \in DOMAIN incidents' : j \in DOMAIN incidents \/ (j = i /\ incidents'[j].first = time)
    BY <2>1 DEF Opens, Reopens
  <2>4. incidents'[i].first <= time
    BY <1>4, <2>1, <2>2, <2>3 DEF FirstsBefore, Failing
  <2>5. ASSUME NEW b \in Callers, Stage(at'[b]) \in 1 .. 2 PROVE time <= at'[b].time
    <3>1. \/ at'[b].time = now
          \/ Stage(at[b]) > 0 /\ Stage(at[b]) <= Stage(at[c]) /\ at'[b].time = at[b].time
      BY <1>3, <2>2, <2>5, Stages DEF Followed
    <3> QED
      BY <2>1, <2>2, <3>1, FirstInLine
  <2>6. at'[c].incident = i /\ at'[c].time = time
    BY <2>1
  <2>7. ASSUME NEW b \in Callers, b # c, Stage(at'[b]) = 3
        PROVE  incidents'[at'[b].incident].first <= at'[b].time
    <3>1. at'[b] = at[b]
      BY <2>1, <2>2, <2>7, MovesKeeps, TypedNow
    <3> QED
      BY <1>4, <1>6, <2>7, <3>1
  <2>8. \A j \in DOMAIN incidents' : incidents'[j].first <= now'
    BY <1>1, <1>2, <1>4, <2>1, <2>3
  <2>9. ASSUME NEW b \in Callers, Stage(at'[b]) \in 1 .. 2, NEW j \in DOMAIN incidents'
        PROVE  incidents'[j].first <= at'[b].time
    BY <1>5, <2>3, <2>5, <2>9
  <2>10. ASSUME NEW b \in Callers, Stage(at'[b]) = 3
         PROVE  incidents'[at'[b].incident].first <= at'[b].time
    BY <2>4, <2>6, <2>7, <2>10
  <2> QED
    BY <1>8, <2>8, <2>9, <2>10, Stages DEF FirstsBefore, Failing
<1> QED
  BY <1>1, <1>9, <1>10

\* Rows belong to the period in which they were asked for.
LEMMA PeriodsStep ==
  ASSUME TypeInv, DispatchInv, FirstsBefore, Periods, [Next]_vars
  PROVE  Periods'
<1>1. \A i \in DOMAIN incidents : i \in DOMAIN incidents' /\ incidents'[i].first = incidents[i].first
  BY IncidentsStep DEF Continues
<1>2. /\ \A n \in DOMAIN outbox : outbox[n].incident \in DOMAIN incidents
      /\ DOMAIN outbox = 1 .. Len(outbox)
  BY DEF TypeInv, RowsTyped
<1>3. ASSUME NEW c \in Callers, at'[c].op = "tell", at'[c].what.kind = "INCIDENT"
      PROVE  /\ at'[c].what.bucket = Bucket(incidents'[at'[c].what.incident].first, at'[c].time)
             /\ MayNotify(at'[c].notified, at'[c].time)
  <2>1. Stage(at'[c]) = 4
    BY <1>3, Stages
  <2>2. CASE at'[c] = at[c]
    <3>1. Stage(at[c]) = 4 /\ at[c].op = "tell" /\ at[c].what.kind = "INCIDENT"
      BY <1>3, <2>2, <2>1
    <3>2. at[c].what.incident \in DOMAIN incidents
      BY <3>1, TypedNow DEF StateOK, Names
    <3>3. /\ at[c].what.bucket = Bucket(incidents[at[c].what.incident].first, at[c].time)
          /\ MayNotify(at[c].notified, at[c].time)
      BY <3>1 DEF Periods
    <3> QED
      BY <1>1, <2>2, <3>2, <3>3
  <2>3. CASE Linked(c)
    <3>1. c \in Reporters /\ at'[c] # Idle
      <4>1. at[c].op = "link" /\ at'[c] # Idle
        BY <1>3, <2>3 DEF Linked, Idle
      <4> QED
        BY <4>1, TypedNow, OpsOfOthers DEF Callers, Reporters
    <3>2. PICK i \in DOMAIN incidents, k \in Keys, g \in Nat, time \in Nat \ {0} :
            Links(c, i, k, g, time)
      BY <2>3, <3>1, Linking
    <3>3. /\ at'[c].what.incident = i /\ at'[c].time = time
          /\ at'[c].notified = at[c].notified /\ MayNotify(at[c].notified, time)
          /\ at'[c].what.bucket = Bucket(incidents[i].first, time)
      BY <3>1, <3>2 DEF Links
    <3> QED
      BY <1>1, <3>3
  <2> QED
    BY <2>1, <2>2, <2>3, FollowedStep DEF Followed
<1>4. ASSUME NEW n \in DOMAIN outbox, outbox[n].kind = "INCIDENT"
      PROVE  LET first == incidents'[outbox[n].incident].first
             IN /\ first <= outbox[n].created /\ 0 < outbox[n].created
                /\ outbox[n].bucket = Bucket(first, outbox[n].created)
  BY <1>1, <1>2, <1>4 DEF Periods
<1>5. CASE Rewrites
  BY <1>3, <1>4, <1>5 DEF Rewrites, Periods
<1>6. ASSUME NEW c \in Reporters, Told(c), outbox' = Append(outbox, at[c].what),
             at[c].what \in Notice
      PROVE  Periods'
  <2>1. PICK row \in Notice : row = at[c].what
    BY <1>6
  <2>2. c \in Callers /\ at[c].op = "tell" /\ StateOK(at[c])
    BY <1>6, TypedNow, Documented DEF Told, Reporters
  <2>3. row.created = at[c].time /\ 0 < row.created /\ row.incident \in DOMAIN incidents
    BY <2>1, <2>2 DEF StateOK, Names
  <2>4. ASSUME row.kind = "INCIDENT"
        PROVE  LET first == incidents'[row.incident].first
               IN /\ first <= row.created /\ row.bucket = Bucket(first, row.created)
    <3>1. Stage(at[c]) = 4
      BY <2>1, <2>2, <2>4, Stages
    <3>2. incidents[row.incident].first <= at[c].time
      BY <2>1, <2>2, <3>1 DEF FirstsBefore, Failing
    <3>3. row.bucket = Bucket(incidents[row.incident].first, at[c].time)
      BY <2>1, <2>2, <2>4 DEF Periods
    <3> QED
      BY <1>1, <2>3, <3>2, <3>3
  <2>5. /\ DOMAIN outbox' = DOMAIN outbox \cup {Len(outbox) + 1}
        /\ outbox'[Len(outbox) + 1] = row
        /\ \A n \in DOMAIN outbox : outbox'[n] = outbox[n]
    BY <1>6, <2>1, Appended
  <2> QED
    BY <1>3, <1>4, <2>3, <2>4, <2>5 DEF Periods
<1> QED
  BY <1>5, <1>6, OutboxStep

\* A key has one row that is not pruned.
LEMMA LiveOnceStep ==
  ASSUME TypeInv, DispatchInv, LiveOnce, [Next]_vars
  PROVE  LiveOnce'
<1>1. CASE /\ Rewrites
           /\ \A n \in DOMAIN outbox : outbox[n].status = "GONE" => outbox'[n].status = "GONE"
  <2>1. \A m, n \in DOMAIN outbox : SameKey(outbox'[m], outbox'[n]) => SameKey(outbox[m], outbox[n])
    BY <1>1 DEF Rewrites, SameKey
  <2> QED
    BY <1>1, <2>1 DEF LiveOnce, Rewrites
<1>2. ASSUME NEW c \in Reporters, Told(c), outbox' = Append(outbox, at[c].what),
             at[c].what \in Notice
      PROVE  LiveOnce'
  <2>1. PICK row \in Notice : row = at[c].what
    BY <1>2
  <2>2. PICK last : last = Len(outbox) + 1
    OBVIOUS
  <2>3. /\ last \notin DOMAIN outbox /\ DOMAIN outbox' = DOMAIN outbox \cup {last}
        /\ outbox'[last] = row /\ \A n \in DOMAIN outbox : outbox'[n] = outbox[n]
    BY <1>2, <2>1, <2>2, Appended
  <2>4. outbox' # outbox
    BY <2>3
  <2>5. \A n \in DOMAIN outbox : SameKey(outbox[n], row) => outbox[n].status = "GONE"
    BY <1>2, <2>1, <2>4 DEF Told, QueuedOnce
  <2>6. \A n \in DOMAIN outbox : SameKey(row, outbox[n]) => SameKey(outbox[n], row)
    BY DEF SameKey
  <2> QED
    BY <2>3, <2>5, <2>6 DEF LiveOnce
<1> QED
  BY <1>1, <1>2, OutboxStep

\* No counter of faults ever falls.
LEMMA FaultsRise ==
  ASSUME TypeInv, [Next]_vars
  PROVE  \A kind \in Kinds : /\ faults[kind] \in Nat /\ faults'[kind] \in Nat
                             /\ faults[kind] <= faults'[kind]
<1>1. faults \in [Kinds -> Nat]
  BY DEF TypeInv, RestTyped
<1>2. ASSUME NEW kind \in Kinds, Counts(kind)
      PROVE  \A j \in Kinds : faults'[j] \in Nat /\ faults[j] <= faults'[j]
  BY <1>1, <1>2, CountedOne
<1> QED
  BY <1>1, <1>2, FaultsGrow

\* The last notice of a watch changes only with a row that is told.
LEMMA NotifiedStep ==
  ASSUME TypeInv, [Next]_vars
  PROVE  \/ \A k \in Keys : watch'[k].notified = watch[k].notified
         \/ \E c \in Reporters : Told(c) /\ Queued(at[c])
<1>0. \A k \in Keys : watch[k] = NoWatch \/ watch[k] \in Watch
  BY TypedNow DEF WatchOK
<1>1. ASSUME watch' = watch PROVE \A k \in Keys : watch'[k].notified = watch[k].notified
  BY <1>1
<1>2. ASSUME NEW j \in Keys, NEW w, w.notified = watch[j].notified,
             watch' = [watch EXCEPT ![j] = w]
      PROVE  \A k \in Keys : watch'[k].notified = watch[k].notified
  <2>1. watch = [k \in Keys |-> watch[k]]
    BY DEF TypeInv, WatchesTyped
  <2> QED
    BY <1>2, <2>1
<1>3. CASE Report
  BY <1>1, <1>3 DEF Report, Fail, Succeed, Decide, durable
<1>4. CASE WriteFails
  BY <1>1, <1>4 DEF WriteFails, MonitoringWriteFails, AdminWriteFails, durable
<1>5. ASSUME NEW c \in Reporters, Counted(c) \/ Noted(c)
      PROVE  \A k \in Keys : watch'[k].notified = watch[k].notified
  <2>1. at[c].op \in {"count", "note"} /\ StateOK(at[c])
    BY <1>5, TypedNow, Documented DEF Counted, Noted, Reporters
  <2>2. PICK k \in Keys, time \in Nat : k = at[c].key /\ time = at[c].time
    BY <2>1 DEF StateOK
  <2>3. Failed(k).notified = watch[k].notified /\ Succeeded(watch[k], time).notified = watch[k].notified
    BY <1>0, FailedTyped, SucceededTyped
  <2>4. \/ watch' = [watch EXCEPT ![k] = Failed(k)]
        \/ watch' = [watch EXCEPT ![k] = Succeeded(watch[k], time)]
    BY <1>5, <2>2 DEF Counted, Noted
  <2> QED
    BY <1>2, <2>3, <2>4
<1>6. ASSUME NEW c \in Reporters, Linked(c)
      PROVE  \A k \in Keys : watch'[k].notified = watch[k].notified
  <2>1. PICK i \in DOMAIN incidents, k \in Keys, g \in Nat, time \in Nat \ {0} :
          Links(c, i, k, g, time)
    BY <1>6, Linking
  <2>2. /\ watch[k] \in Watch
        /\ watch' = [watch EXCEPT ![k].incident = i, ![k].generation = g, ![k].phase = "OPEN"]
    BY <2>1 DEF Links
  <2>3. watch' = [watch EXCEPT ![k] = [watch[k] EXCEPT !.incident = i, !.generation = g,
                                                         !.phase = "OPEN"]]
    <3>1. watch = [j \in Keys |-> watch[j]]
      BY DEF TypeInv, WatchesTyped
    <3> QED
      BY <2>2, <3>1 DEF Watch
  <2>4. [watch[k] EXCEPT !.incident = i, !.generation = g, !.phase = "OPEN"].notified
          = watch[k].notified
    BY <2>2 DEF Watch
  <2> QED
    BY <1>2, <2>3, <2>4
<1>7. ASSUME NEW c \in Reporters, Told(c)
      PROVE  watch' = watch \/ Queued(at[c])
  BY <1>7 DEF Told, QueuedOnce
<1>8. ASSUME NEW c, RecordedBy(c) \/ Resolved(c) \/ Decided PROVE watch' = watch
  BY <1>8 DEF RecordedBy, Resolved, Decided
<1>9. CASE Commits
  BY <1>1, <1>5, <1>6, <1>7, <1>8, <1>9 DEF Commits, Reporters
<1>10. CASE Dispatch \/ \E n \in DOMAIN outbox : BackoffPasses(n)
  BY <1>1, <1>10, DispatchFaults
<1> QED
  BY <1>1, <1>3, <1>4, <1>9, <1>10
  DEF Next, EngineNext, Listen, TimePasses, Crash, durable, vars, engineVars

\* A step rewrites rows and leaves the notices, or tells.
LEMMA NoticeStep ==
  ASSUME TypeInv, DispatchInv, [Next]_vars
  PROVE  \/ Rewrites /\ \A k \in Keys : watch'[k].notified = watch[k].notified
         \/ \E c \in Reporters : Told(c) /\ Queued(at[c]) /\ at[c].what \in Notice
<1>1. ASSUME NEW c \in Reporters, Told(c) PROVE at[c].what \in Notice
  BY <1>1, TypedNow, Documented DEF Told, StateOK, Reporters
<1>2. ASSUME NEW c \in Reporters, Told(c), outbox' = Append(outbox, at[c].what)
      PROVE  Queued(at[c])
  <2>1. outbox' # outbox
    BY <1>1, <1>2, Appended
  <2> QED
    BY <1>2, <2>1 DEF Told, QueuedOnce
<1> QED
  BY <1>1, <1>2, OutboxStep, NotifiedStep

\* A notice that the cooldown allows belongs to a later period.
LEMMA LaterPeriod ==
  ASSUME NEW first \in Nat, NEW m \in Nat, NEW n \in Nat, first <= m, m + RepeatAfter <= n
  PROVE  Bucket(first, m) # Bucket(first, n)
<1>0. RepeatAfter \in Nat \ {0}
  BY MonitoringAssumption DEF MonitoringAssumption
<1> DEFINE x == m - first
           y == n - first
           R == RepeatAfter
<1>1. x \in Nat /\ y \in Nat /\ x + R <= y /\ R \in Nat \ {0}
  BY <1>0
<1>2. Bucket(first, m) = x \div R /\ Bucket(first, n) = y \div R
  <2>1. m <= first => x = 0 /\ 0 \div R = 0
    BY <1>0
  <2> QED
    BY <1>0, <1>1, <2>1 DEF Bucket
<1> HIDE DEF x, y, R
<1>3. /\ x = R * (x \div R) + (x % R) /\ x % R \in 0 .. R - 1
      /\ y = R * (y \div R) + (y % R) /\ y % R \in 0 .. R - 1
  BY <1>1
<1>4. SUFFICES ASSUME x \div R = y \div R PROVE FALSE
  BY <1>2
<1> DEFINE p == R * (x \div R)
<1>5. p \in Int /\ x = p + (x % R) /\ y = p + (y % R)
  <2>1. x \div R \in Int /\ R \in Int
    BY <1>1
  <2>2. p \in Int
    BY <2>1
  <2> QED
    BY <1>3, <1>4, <2>2
<1> HIDE DEF p
<1>6. PICK a \in 0 .. R - 1, b \in 0 .. R - 1 : x = p + a /\ y = p + b
  BY <1>3, <1>5
<1> QED
  BY <1>1, <1>5, <1>6

Backs == {k \in Keys : Back(k)}

\* What is counted of the outbox and of the watches is finite.
LEMMA AgainFinite ==
  ASSUME TypeInv
  PROVE  /\ IsFiniteSet(Again) /\ IsFiniteSet(Backs)
         /\ Cardinality(Again) \in Nat /\ Cardinality(Backs) \in Nat
<1>1. IsFiniteSet(DOMAIN outbox)
  <2>1. DOMAIN outbox = 1 .. Len(outbox) /\ Len(outbox) \in Nat
    BY DEF TypeInv, RowsTyped
  <2> QED
    BY <2>1, FS_Interval
<1>2. IsFiniteSet(Again)
  BY <1>1, FS_Subset DEF Again
<1>3. IsFiniteSet(Backs)
  <2> DEFINE f == [n \in DOMAIN outbox |-> incidents[outbox[n].incident].key]
             told == {f[n] : n \in DOMAIN outbox}
  <2>1. f \in Surjection(DOMAIN outbox, told)
    BY DEF Surjection
  <2>2. Backs \subseteq told
    BY DEF Backs, Back
  <2>3. IsFiniteSet(told)
    BY <1>1, <2>1, FS_Surjection
  <2> QED
    BY <2>2, <2>3, FS_Subset
<1> QED
  BY <1>2, <1>3, FS_CardinalityType

\* A set without one of its elements has one fewer.
LEMMA OneFewer ==
  ASSUME NEW S, IsFiniteSet(S), NEW x \in S
  PROVE  Cardinality(S \ {x}) = Cardinality(S) - 1
  BY FS_RemoveElement

\* One more element makes a set larger by one at most.
LEMMA AtMostOneMore ==
  ASSUME NEW S, IsFiniteSet(S), NEW T, NEW x, T \subseteq S \cup {x}
  PROVE  /\ IsFiniteSet(T) /\ Cardinality(T) \in Nat /\ Cardinality(S) \in Nat
         /\ Cardinality(T) <= Cardinality(S) + 1
         /\ x \notin T => Cardinality(T) <= Cardinality(S)
<1>1. /\ IsFiniteSet(S \cup {x}) /\ Cardinality(S) \in Nat /\ Cardinality(S \cup {x}) \in Nat
      /\ Cardinality(S \cup {x}) <= Cardinality(S) + 1
  BY FS_AddElement, FS_CardinalityType
<1>2. IsFiniteSet(T) /\ Cardinality(T) <= Cardinality(S \cup {x})
  BY <1>1, FS_Subset
<1>3. x \notin T => T \subseteq S
  OBVIOUS
<1>4. x \notin T => Cardinality(T) <= Cardinality(S)
  BY <1>3, FS_Subset
<1> QED
  BY <1>1, <1>2, <1>4, FS_CardinalityType

\* Nothing is told: no notice is new, and no watch knows of another.
LEMMA AgainRewritten ==
  ASSUME TypeInv, [Next]_vars, Rewrites, \A k \in Keys : watch'[k].notified = watch[k].notified
  PROVE  Again' = Again /\ Backs' = Backs
<1>1. \A m, n \in DOMAIN outbox : SameKey(outbox'[m], outbox'[n]) <=> SameKey(outbox[m], outbox[n])
  BY DEF Rewrites, SameKey
<1>2. Again' = Again
  BY <1>1 DEF Again, Rewrites
<1>3. \A n \in DOMAIN outbox : incidents'[outbox[n].incident].key = incidents[outbox[n].incident].key
  BY IncidentsStep DEF Continues, TypeInv, RowsTyped
<1>4. ASSUME NEW k \in Keys PROVE Back(k)' <=> Back(k)
  BY <1>3 DEF Back, Rewrites
<1> QED
  BY <1>2, <1>4 DEF Backs

\* A notice that is queued.
LEMMA Queueings ==
  ASSUME TypeInv, NEW c \in Reporters, Told(c), Queued(at[c]), at[c].what \in Notice
  PROVE  \E k \in Keys, time \in Nat \ {0}, row \in Notice, last \in Nat :
           /\ k = at[c].key /\ time = at[c].time /\ row = at[c].what /\ last = Len(outbox) + 1
           /\ row.created = time /\ Names(row.incident, k)
           /\ last \notin DOMAIN outbox /\ DOMAIN outbox' = DOMAIN outbox \cup {last}
           /\ outbox'[last] = row /\ \A n \in DOMAIN outbox : outbox'[n] = outbox[n] /\ n < last
           /\ watch'[k].notified = time
           /\ \A j \in Keys \ {k} : watch'[j] = watch[j]
           /\ incidents' = incidents
<1>1. c \in Callers /\ at[c].op = "tell" /\ StateOK(at[c])
  BY TypedNow, Documented DEF Told, Reporters
<1>2. PICK k \in Keys, time \in Nat \ {0}, row \in Notice :
        /\ k = at[c].key /\ time = at[c].time /\ row = at[c].what /\ row.created = time
        /\ Names(row.incident, k)
  BY <1>1 DEF StateOK
<1>3. /\ outbox' = Append(outbox, row) /\ watch' = [watch EXCEPT ![k].notified = time]
  BY <1>2 DEF Queued
<1>4. watch[k] \in Watch
  BY <1>1, <1>2 DEF StateOK
<1>5. /\ watch'[k].notified = time
      /\ \A j \in Keys \ {k} : watch'[j] = watch[j]
  <2>1. watch = [j \in Keys |-> watch[j]]
    BY DEF TypeInv, WatchesTyped
  <2> QED
    BY <1>3, <1>4, <2>1 DEF Watch
<1>6. PICK last \in Nat : last = Len(outbox) + 1
  BY DEF TypeInv, RowsTyped
<1>7. /\ last \notin DOMAIN outbox /\ DOMAIN outbox' = DOMAIN outbox \cup {last}
      /\ outbox'[last] = row /\ \A n \in DOMAIN outbox : outbox'[n] = outbox[n]
  BY <1>3, <1>6, Appended
<1>8. \A n \in DOMAIN outbox : n < last
  BY <1>6 DEF TypeInv, RowsTyped
<1>9. incidents' = incidents
  BY DEF Told
<1> QED
  BY <1>2, <1>5, <1>6, <1>7, <1>8, <1>9

\* A row that repeats a key is paid for by an overlap, when it is told or when
\* the watch went back.
LEMMA AgainTold ==
  ASSUME TypeInv, ToldInv, NEW c \in Reporters, Told(c), Queued(at[c]), at[c].what \in Notice
  PROVE  AgainIsPaid'
<1>1. PICK k \in Keys, time \in Nat \ {0}, row \in Notice, last \in Nat :
           /\ k = at[c].key /\ time = at[c].time /\ row = at[c].what /\ last = Len(outbox) + 1
           /\ row.created = time /\ Names(row.incident, k)
           /\ last \notin DOMAIN outbox /\ DOMAIN outbox' = DOMAIN outbox \cup {last}
           /\ outbox'[last] = row /\ \A n \in DOMAIN outbox : outbox'[n] = outbox[n] /\ n < last
           /\ watch'[k].notified = time
           /\ \A j \in Keys \ {k} : watch'[j] = watch[j]
           /\ incidents' = incidents
  BY Queueings
<1>2. c \in Callers /\ at[c].op = "tell" /\ Turn(c, "monitoring") /\ StateOK(at[c])
  BY TypedNow, Documented DEF Told, Reporters
<1>3. /\ \A n \in DOMAIN outbox : outbox[n] \in Notice /\ n \in Nat
      /\ \A j \in Keys : watch[j] # NoWatch => watch[j].notified \in Nat
      /\ watch[k] \in Watch /\ watch[k].notified \in Nat
  BY <1>1, <1>2, IncidentsTyped, TypedNow DEF WatchOK, Watch, StateOK
<1>4. IF Overlaps(at[c]) THEN Counts("overlap") ELSE UNCHANGED faults
  BY DEF Queued
<1>5. /\ faults["overlap"] \in Nat
      /\ Overlaps(at[c]) => faults'["overlap"] = faults["overlap"] + 1
      /\ ~ Overlaps(at[c]) => faults'["overlap"] = faults["overlap"]
  BY <1>4, CountedOne, KnownKinds DEF TypeInv, RestTyped
<1>6. /\ IsFiniteSet(Again) /\ IsFiniteSet(Backs)
      /\ Cardinality(Again) \in Nat /\ Cardinality(Backs) \in Nat
      /\ Cardinality(Again) + Cardinality(Backs) <= faults["overlap"]
  BY AgainFinite DEF ToldInv, AgainIsPaid, Backs
<1>7. ASSUME NEW j \in Keys, j # k PROVE Back(j)' <=> Back(j)
  BY <1>1, <1>7 DEF Back, Names
<1>8. Backs' \subseteq Backs \cup {k}
  BY <1>7 DEF Backs
<1>9. Again' \subseteq Again \cup {last}
  BY <1>1, <1>3 DEF Again
<1>10. CASE row.kind = "INCIDENT"
  <2>1. Stage(at[c]) = 4
    BY <1>1, <1>2, <1>10, Stages
  <2>2. ASSUME NEW n \in DOMAIN outbox, outbox[n].kind = "INCIDENT"
        PROVE  outbox[n].created <= time
    BY <1>1, <1>2, <2>1, <2>2 DEF ToldInv, RowsBefore, Failing
  <2>3. ~ Back(k)'
    <3>1. ASSUME NEW n \in DOMAIN outbox', outbox'[n].kind = "INCIDENT"
          PROVE  ~ outbox'[n].created > watch'[k].notified
      <4>1. CASE n = last
        BY <1>1, <3>1, <4>1
      <4>2. CASE n \in DOMAIN outbox
        <5>1. outbox'[n] = outbox[n] /\ outbox[n].created <= time /\ outbox[n].created \in Nat
          BY <1>1, <1>3, <2>2, <3>1, <4>2 DEF Notice
        <5> QED
          BY <1>1, <5>1
      <4> QED
        BY <1>1, <4>1, <4>2
    <3> QED
      BY <3>1 DEF Back
  <2>4. Backs' = Backs \ {k}
    BY <1>7, <2>3 DEF Backs
  <2>5. /\ Cardinality(Again') \in Nat /\ Cardinality(Again') <= Cardinality(Again) + 1
        /\ last \notin Again' => Cardinality(Again') <= Cardinality(Again)
    BY <1>6, <1>9, AtMostOneMore
  <2>6. /\ k \in Backs => Cardinality(Backs') = Cardinality(Backs) - 1
        /\ k \notin Backs => Backs' = Backs
    BY <1>6, <2>4, OneFewer
  <2>7. Cardinality(Backs') \in Nat /\ Cardinality(Backs') <= Cardinality(Backs)
    <3>1. IsFiniteSet(Backs')
      BY <1>6, <2>4, FS_Subset
    <3> QED
      BY <1>6, <2>6, <3>1, FS_CardinalityType
  <2>8. ASSUME last \in Again', ~ Overlaps(at[c]) PROVE k \in Backs
    <3>1. PICK m \in DOMAIN outbox : SameKey(outbox[m], row)
      BY <1>1, <2>8 DEF Again
    <3>2. /\ outbox[m].kind = "INCIDENT" /\ outbox[m].incident = row.incident
          /\ outbox[m].bucket = row.bucket
      BY <1>10, <3>1 DEF SameKey
    <3>3. PICK first \in Nat : first = incidents[row.incident].first
      BY <1>1, IncidentsTyped DEF Names, Incident
    <3>4. /\ first <= outbox[m].created /\ 0 < outbox[m].created
          /\ outbox[m].bucket = Bucket(first, outbox[m].created)
      BY <3>2, <3>3 DEF ToldInv, Periods
    <3>5. /\ row.bucket = Bucket(first, time) /\ MayNotify(at[c].notified, time)
      BY <1>1, <1>2, <1>10, <3>3 DEF ToldInv, Periods
    <3>6. watch[k].notified = at[c].notified
      BY <1>1, <1>10, <2>8 DEF Overlaps
    <3>7. SUFFICES ASSUME ~ Back(k) PROVE FALSE
      BY DEF Backs
    <3>8. outbox[m].created \in Nat /\ outbox[m].created <= watch[k].notified
      <4>1. outbox[m].created \in Nat
        BY <1>3 DEF Notice
      <4>2. incidents[outbox[m].incident].key = k
        BY <1>1, <3>2 DEF Names
      <4> QED
        BY <1>3, <3>2, <3>7, <4>1, <4>2 DEF Back
    <3>9. time >= watch[k].notified + RepeatAfter
      BY <1>3, <3>4, <3>5, <3>6, <3>8 DEF MayNotify, Never
    <3>10. outbox[m].created + RepeatAfter <= time
      <4>1. RepeatAfter \in Nat
        BY MonitoringAssumption DEF MonitoringAssumption
      <4> QED
        BY <1>1, <1>3, <3>8, <3>9, <4>1
    <3>11. Bucket(first, outbox[m].created) # Bucket(first, time)
      BY <1>1, <3>3, <3>4, <3>8, <3>10, LaterPeriod
    <3> QED
      BY <3>2, <3>4, <3>5, <3>11
  <2>9. Cardinality(Again') + Cardinality(Backs') <= faults'["overlap"]
    BY <1>5, <1>6, <2>5, <2>6, <2>7, <2>8
  <2> QED
    BY <2>9 DEF AgainIsPaid, Backs
<1>11. CASE row.kind # "INCIDENT"
  <2>1. last \notin Again'
    BY <1>1, <1>11 DEF Again
  <2>2. Cardinality(Again') \in Nat /\ Cardinality(Again') <= Cardinality(Again)
    BY <1>6, <1>9, <2>1, AtMostOneMore
  <2>3. /\ Cardinality(Backs') \in Nat /\ Cardinality(Backs') <= Cardinality(Backs) + 1
        /\ (k \notin Backs' \/ k \in Backs) => Cardinality(Backs') <= Cardinality(Backs)
    <3>1. k \in Backs => Backs' \subseteq Backs
      BY <1>8
    <3>2. k \in Backs => Cardinality(Backs') <= Cardinality(Backs)
      BY <1>6, <3>1, FS_Subset
    <3> QED
      BY <1>6, <1>8, <3>2, AtMostOneMore
  <2>4. ASSUME k \in Backs', k \notin Backs PROVE Overlaps(at[c])
    <3>1. Back(k)' /\ ~ Back(k)
      BY <2>4 DEF Backs
    <3>2. PICK n \in DOMAIN outbox' :
            /\ outbox'[n].kind = "INCIDENT" /\ incidents'[outbox'[n].incident].key = k
            /\ outbox'[n].created > watch'[k].notified
      BY <3>1 DEF Back
    <3>3. n \in DOMAIN outbox /\ outbox'[n] = outbox[n] /\ outbox[n].created > time
      BY <1>1, <1>11, <3>2
    <3>4. outbox[n].created <= watch[k].notified /\ outbox[n].created \in Nat
      <4>1. ~ outbox[n].created > watch[k].notified
        BY <1>1, <3>1, <3>2, <3>3 DEF Back
      <4>2. outbox[n].created \in Nat
        BY <1>3, <3>3 DEF Notice
      <4> QED
        BY <1>3, <4>1, <4>2
    <3>5. time < watch[k].notified
      BY <1>1, <1>3, <3>3, <3>4
    <3> QED
      BY <1>1, <1>11, <3>5 DEF Overlaps
  <2>5. Cardinality(Again') + Cardinality(Backs') <= faults'["overlap"]
    BY <1>5, <1>6, <2>2, <2>3, <2>4
  <2> QED
    BY <2>5 DEF AgainIsPaid, Backs
<1> QED
  BY <1>10, <1>11

\* Every step keeps repetitions paid for.
LEMMA AgainStep ==
  ASSUME TypeInv, DispatchInv, ToldInv, [Next]_vars
  PROVE  AgainIsPaid'
<1>1. CASE Rewrites /\ \A k \in Keys : watch'[k].notified = watch[k].notified
  <2>1. Again' = Again /\ Backs' = Backs
    BY <1>1, AgainRewritten
  <2>2. /\ faults["overlap"] \in Nat /\ faults'["overlap"] \in Nat
        /\ faults["overlap"] <= faults'["overlap"]
    BY FaultsRise, KnownKinds
  <2>3. /\ Cardinality(Again) + Cardinality(Backs) <= faults["overlap"]
        /\ Cardinality(Again) \in Nat /\ Cardinality(Backs) \in Nat
    BY AgainFinite DEF ToldInv, AgainIsPaid, Backs
  <2>4. Cardinality(Again') + Cardinality(Backs') <= faults'["overlap"]
    BY <2>1, <2>2, <2>3
  <2> QED
    BY <2>4 DEF AgainIsPaid, Backs
<1> QED
  BY <1>1, AgainTold, NoticeStep

\* Every step keeps what the outbox promises.
LEMMA ToldStep ==
  ASSUME TypeInv, DispatchInv, ToldInv, [Next]_vars
  PROVE  ToldInv'
  BY OrderedStep, RowsBeforeStep, FirstsBeforeStep, PeriodsStep, LiveOnceStep, AgainStep
  DEF ToldInv

\* Nothing has been told at first.
LEMMA ToldInit == Init => ToldInv
<1> SUFFICES ASSUME Init PROVE ToldInv
  OBVIOUS
<1>1. /\ outbox = <<>> /\ incidents = <<>> /\ faults = [k \in Kinds |-> 0]
      /\ at = [c \in Callers |-> Idle]
  BY DEF Init, EngineInit
<1>2. DOMAIN outbox = {} /\ DOMAIN incidents = {}
  BY <1>1
<1>3. Failing = {}
  BY <1>1 DEF Failing, Stage, Idle
<1>4. Again = {} /\ {k \in Keys : Back(k)} = {}
  BY <1>2 DEF Again, Back
<1>5. Cardinality(Again) + Cardinality({k \in Keys : Back(k)}) <= faults["overlap"]
  <2>1. Cardinality(Again) = 0 /\ Cardinality({k \in Keys : Back(k)}) = 0
    BY <1>4, FS_EmptySet
  <2> QED
    BY <1>1, <2>1, KnownKinds
<1>6. \A c \in Callers : at[c].op # "tell"
  BY <1>1 DEF Idle
<1> QED
  BY <1>2, <1>3, <1>5, <1>6
  DEF ToldInv, Ordered, RowsBefore, FirstsBefore, Periods, LiveOnce, AgainIsPaid

\* What the outbox promises holds for ever.
LEMMA ToldAtLast == Spec => []ToldInv
<1>1. TypeInv /\ DispatchInv /\ ToldInv /\ [Next]_vars => ToldInv'
  BY ToldStep
<1> QED
  BY <1>1, SafeAtLast, ToldInit, PTL DEF Spec

\* The outbox never holds a notification twice, and an episode is told again in
\* a period only when its row was pruned and reports overlapped, whatever the
\* thresholds and however many reports, faults and crashes (requestNotification).
THEOREM NothingIsToldTwice == Spec => []ToldOnce
<1>1. TypeInv /\ ToldInv => ToldOnce
  <2> SUFFICES ASSUME TypeInv, ToldInv PROVE ToldOnce
    OBVIOUS
  <2>1. /\ Cardinality(Again) + Cardinality(Backs) <= faults["overlap"]
        /\ Cardinality(Again) \in Nat /\ Cardinality(Backs) \in Nat /\ faults["overlap"] \in Nat
    BY AgainFinite, KnownKinds DEF ToldInv, AgainIsPaid, Backs, TypeInv, RestTyped
  <2>2. Cardinality(Again) <= faults["overlap"]
    BY <2>1
  <2> QED
    BY <2>2 DEF ToldInv, LiveOnce, ToldOnce
<1> QED
  BY <1>1, SafeAtLast, ToldAtLast, PTL

-----------------------------------------------------------------------------
(* Episodes are numbered *)

\* An episode that is taken stays taken.
LEMMA FreeKeeps ==
  ASSUME TypeInv, [Next]_vars
  PROVE  \A k, g : ~ Free(k, g) => ~ Free(k, g)'
<1>1. Continues(incidents, incidents')
  BY IncidentsStep
<1> QED
  BY <1>1 DEF Free, Found, Continues

\* Only the count of a failure sends it on to be recorded.
LEMMA RecordersAre ==
  ASSUME TypeInv, [Next]_vars, NEW c \in Callers, at'[c].op = "record"
  PROVE  at'[c] = at[c] \/ (c \in Reporters /\ Counted(c))
<1>1. Stage(at'[c]) = 2
  BY Stages
<1>2. at'[c] = at[c] \/ Counted(c)
  BY <1>1, FollowedStep DEF Followed
<1>3. Counted(c) => c \in Reporters
  <2>1. Counted(c) => at[c].op = "count"
    BY DEF Counted
  <2> QED
    BY <2>1, TypedNow, OpsOfOthers DEF Callers, Reporters
<1> QED
  BY <1>2, <1>3

\* The episode in which a failure is counted is the last that is known, or the
\* next when that one is resolved.
LEMMA Counting ==
  ASSUME TypeInv, NEW c \in Reporters, Counted(c), at'[c].op = "record"
  PROVE  \E k \in Keys, g \in Nat :
           /\ at'[c].key = k /\ at'[c].generation = g /\ incidents' = incidents
           /\ \/ g = 0
              \/ \E i \in DOMAIN incidents :
                   /\ incidents[i].key = k
                   /\ \/ incidents[i].status # "RESOLVED" /\ g = incidents[i].generation
                      \/ incidents[i].status = "RESOLVED" /\ g = incidents[i].generation + 1
<1>1. c \in Callers /\ at[c].op = "count" /\ StateOK(at[c]) /\ AtTyped /\ Queueing
  BY TypedNow, Documented DEF Counted, Reporters
<1>2. PICK k \in Keys : k = at[c].key
  BY <1>1 DEF StateOK
<1>3. PICK w : w = Failed(k)
  OBVIOUS
<1>4. at'[c] = [op |-> "record", key |-> at[c].key, time |-> at[c].time,
                generation |-> Generation(Failed(at[c].key)),
                notified |-> Failed(at[c].key).notified]
  BY <1>1, CountedMoves DEF Idle
<1>5. at'[c].key = k /\ at'[c].generation = Generation(w)
  BY <1>2, <1>3, <1>4
<1>6. /\ WatchOK(k) /\ w.incident = watch[k].incident /\ w.generation = watch[k].generation
  BY <1>3, TypedNow, FailedTyped DEF WatchOK
<1>7. CASE w.incident = 0
  BY <1>5, <1>6, <1>7 DEF Generation, WatchOK, Counted
<1>8. CASE w.incident # 0
  <2>1. PICK i \in DOMAIN incidents :
          i = w.incident /\ incidents[i].key = k /\ incidents[i].generation = w.generation
    BY <1>6, <1>8 DEF WatchOK, Names
  <2>2. incidents[i].generation \in Nat
    BY IncidentsTyped DEF Incident
  <2> QED
    BY <1>5, <1>8, <2>1, <2>2 DEF Generation, Counted
<1> QED
  BY <1>7, <1>8

\* Episodes keep numbers of their own, without gaps.
LEMMA NumberedStep ==
  ASSUME TypeInv, Numbered, [Next]_vars
  PROVE  Numbered'
<1>1. \A k, g : ~ Free(k, g) => ~ Free(k, g)'
  BY FreeKeeps
<1>2. Continues(incidents, incidents')
  BY IncidentsStep
<1>3. \A i \in DOMAIN incidents : incidents[i].generation \in Nat
  BY IncidentsTyped DEF Incident
<1>4. ASSUME NEW c \in Callers, at'[c].op = "record"
      PROVE  \A g \in 0 .. at'[c].generation - 1 : ~ Free(at'[c].key, g)
  <2>1. CASE at'[c] = at[c]
    BY <1>4, <2>1 DEF Numbered
  <2>2. CASE c \in Reporters /\ Counted(c)
    <3>1. PICK k \in Keys, h \in Nat :
            /\ at'[c].key = k /\ at'[c].generation = h
            /\ \/ h = 0
               \/ \E i \in DOMAIN incidents :
                    /\ incidents[i].key = k
                    /\ \/ h = incidents[i].generation
                       \/ h = incidents[i].generation + 1
      BY <1>4, <2>2, Counting
    <3>2. ASSUME NEW g \in 0 .. h - 1 PROVE ~ Free(k, g)
      <4>1. PICK i \in DOMAIN incidents :
              incidents[i].key = k /\ (h = incidents[i].generation \/ h = incidents[i].generation + 1)
        BY <3>1, <3>2
      <4>2. CASE g = incidents[i].generation
        BY <4>1, <4>2 DEF Free, Found
      <4>3. CASE g \in 0 .. incidents[i].generation - 1
        BY <4>1, <4>3 DEF Numbered
      <4> QED
        BY <1>3, <3>2, <4>1, <4>2, <4>3
    <3> QED
      BY <3>1, <3>2
  <2> QED
    BY <1>4, <2>1, <2>2, RecordersAre
<1>5. ASSUME NEW c \in Callers, at'[c].op = "record"
      PROVE  \A g \in 0 .. at'[c].generation - 1 : Found(incidents', at'[c].key, g) # {}
  BY <1>1, <1>4, <1>5 DEF Free
<1>6. CASE DOMAIN incidents' = DOMAIN incidents
  <2>1. \A i \in DOMAIN incidents : incidents'[i].key = incidents[i].key
                                    /\ incidents'[i].generation = incidents[i].generation
    BY <1>2 DEF Continues
  <2>2. ASSUME NEW i \in DOMAIN incidents', NEW g \in 0 .. incidents'[i].generation - 1
        PROVE  Found(incidents', incidents'[i].key, g) # {}
    BY <1>1, <1>6, <2>1, <2>2 DEF Numbered, Free
  <2> QED
    BY <1>5, <1>6, <2>1, <2>2 DEF Numbered, Free
<1>7. ASSUME NEW c \in Reporters, RecordedBy(c) PROVE Numbered'
  <2>1. PICK k \in Keys, g \in Nat, time \in Nat \ {0}, i \in DOMAIN incidents' :
          Records(c, k, g, time, i)
    BY <1>7, Recording
  <2>2. CASE DOMAIN incidents' = DOMAIN incidents
    BY <1>6, <2>2
  <2>3. CASE Opens(incidents, incidents', i, k, g, time) /\ Free(k, g)
    <3>1. incidents'[i].key = k /\ incidents'[i].generation = g /\ at[c].op = "record"
          /\ k = at[c].key /\ g = at[c].generation /\ c \in Callers
      BY <2>1, Documented DEF Records, Reporters
    <3>2. /\ \A j \in DOMAIN incidents : incidents'[j] = incidents[j]
          /\ DOMAIN incidents' = DOMAIN incidents \cup {i}
          /\ \A j \in DOMAIN incidents : ~ (incidents[j].key = k /\ incidents[j].generation = g)
      BY <2>3 DEF Opens, Free, Found
    <3>3. ASSUME NEW j \in DOMAIN incidents', NEW h \in 0 .. incidents'[j].generation - 1
          PROVE  Found(incidents', incidents'[j].key, h) # {}
      <4>1. CASE j \in DOMAIN incidents
        BY <1>1, <3>2, <3>3, <4>1 DEF Numbered, Free
      <4>2. CASE j = i
        BY <1>1, <3>1, <3>3, <4>2 DEF Numbered, Free
      <4> QED
        BY <3>2, <4>1, <4>2
    <3>4. ASSUME NEW j \in DOMAIN incidents', NEW l \in DOMAIN incidents',
                 incidents'[j].key = incidents'[l].key,
                 incidents'[j].generation = incidents'[l].generation
          PROVE  j = l
      BY <3>1, <3>2, <3>4 DEF Numbered
    <3> QED
      BY <1>5, <3>3, <3>4 DEF Numbered, Free
  <2> QED
    BY <2>1, <2>2, <2>3 DEF Records, Reopens
<1> QED
  BY <1>6, <1>7, IncidentsStep

-----------------------------------------------------------------------------
(* What is open *)

Opening(c, k, g, time, i) ==
    /\ RecordedBy(c) /\ Records(c, k, g, time, i)
    /\ Free(k, g) /\ Opens(incidents, incidents', i, k, g, time)

\* No episode begins; what is open anew is counted as reopened.
Settled ==
    /\ \A k, g : Free(k, g)' <=> Free(k, g)
    /\ Continues(incidents, incidents') /\ DOMAIN incidents' = DOMAIN incidents
    /\ \A k \in Keys :
        \/ Reopened <= Reopened' /\ Open(k)' \subseteq Open(k)
        \/ \E i : Reopened' = Reopened + 1 /\ Open(k)' \subseteq Open(k) \cup {i}

\* The open incidents of a condition are finitely many.
LEMMA OpenFinite ==
  ASSUME TypeInv
  PROVE  /\ \A k \in Keys : IsFiniteSet(Open(k)) /\ Open(k) \subseteq DOMAIN incidents
         /\ \A k \in Keys : \A X : /\ IsFiniteSet(Open(k) \ X)
                                   /\ Cardinality(Open(k) \ X) \in Nat
                                   /\ Cardinality(Open(k)) \in Nat
         /\ Reopened \in Nat
<1>1. IsFiniteSet(DOMAIN incidents)
  <2>1. DOMAIN incidents = 1 .. Len(incidents) /\ Len(incidents) \in Nat
    BY DEF TypeInv, RowsTyped
  <2> QED
    BY <2>1, FS_Interval
<1>2. ASSUME NEW k \in Keys PROVE IsFiniteSet(Open(k)) /\ Open(k) \subseteq DOMAIN incidents
  <2>1. Open(k) \subseteq DOMAIN incidents
    BY DEF Open, OpenOf
  <2> QED
    BY <1>1, <2>1, FS_Subset
<1>3. ASSUME NEW k \in Keys, NEW X
      PROVE  IsFiniteSet(Open(k) \ X) /\ Cardinality(Open(k) \ X) \in Nat
             /\ Cardinality(Open(k)) \in Nat
  <2>1. IsFiniteSet(Open(k) \ X)
    BY <1>2, FS_Subset
  <2> QED
    BY <1>2, <2>1, FS_CardinalityType
<1> QED
  BY <1>2, <1>3, KnownKinds DEF Reopened, TypeInv, RestTyped

\* The list changes when a failure is recorded, an incident resolved or a
\* decision written.
LEMMA IncidentsMove ==
  ASSUME TypeInv, [Next]_vars
  PROVE  \/ incidents' = incidents
         \/ \E c \in Reporters : RecordedBy(c) \/ Resolved(c)
         \/ Decided
<1>1. CASE Report
  BY <1>1 DEF Report, Fail, Succeed, Decide, durable
<1>2. CASE WriteFails
  BY <1>2 DEF WriteFails, MonitoringWriteFails, AdminWriteFails, durable
<1>3. ASSUME NEW c, Counted(c) \/ Linked(c) \/ Noted(c) \/ Told(c)
      PROVE  incidents' = incidents
  BY <1>3 DEF Counted, Linked, Noted, Told
<1>4. CASE Commits
  BY <1>3, <1>4 DEF Commits, Reporters
<1>5. CASE Dispatch \/ \E n \in DOMAIN outbox : BackoffPasses(n)
  BY <1>5, DispatchFaults
<1> QED
  BY <1>1, <1>2, <1>4, <1>5
  DEF Next, EngineNext, Listen, TimePasses, Crash, durable, vars, engineVars

\* A step opens nothing that it does not count, or opens the next episode.
LEMMA OpenStep ==
  ASSUME TypeInv, Numbered, [Next]_vars
  PROVE  \/ Settled
         \/ \E c \in Reporters, k \in Keys, g \in Nat, time \in Nat \ {0}, i \in DOMAIN incidents' :
              Opening(c, k, g, time, i)
<1>0. /\ Reopened \in Nat /\ Reopened' \in Nat /\ Reopened <= Reopened'
      /\ Counts("reopen") => Reopened' = Reopened + 1
  BY OpenFinite, FaultsRise, CountedOne, KnownKinds DEF Reopened
<1>1. Continues(incidents, incidents')
  BY IncidentsStep
<1>2. ASSUME DOMAIN incidents' = DOMAIN incidents
      PROVE  \A k, g : Free(k, g)' <=> Free(k, g)
  BY <1>1, <1>2 DEF Free, Found, Continues
<1>3. CASE incidents' = incidents
  <2>1. \A k \in Keys : Open(k)' = Open(k)
    BY <1>3 DEF Open
  <2> QED
    BY <1>0, <1>1, <1>2, <1>3, <2>1 DEF Settled
<1>4. ASSUME NEW c \in Reporters, Resolved(c) PROVE Settled
  <2>1. Relabels(incidents, incidents', at[c].incident, "RESOLVED")
    BY <1>4, ResolvedTypes DEF Reporters
  <2>2. DOMAIN incidents' = DOMAIN incidents
    BY <2>1 DEF Relabels
  <2>3. \A k \in Keys : Open(k)' \subseteq Open(k)
    BY <1>1, <2>1, <2>2 DEF Open, OpenOf, Relabels, Continues
  <2> QED
    BY <1>0, <1>1, <1>2, <2>2, <2>3 DEF Settled
<1>5. CASE Decided
  <2>1. PICK i, status : i = at[Human].incident /\ status = at[Human].status
    OBVIOUS
  <2>2. Relabels(incidents, incidents', i, status)
    BY <1>5, <2>1, DecidedTypes
  <2>3. DOMAIN incidents' = DOMAIN incidents
    BY <2>2 DEF Relabels
  <2>4. CASE incidents[i].status = "RESOLVED"
    <3>1. Reopened' = Reopened + 1
      BY <1>0, <1>5, <2>1, <2>4 DEF Decided
    <3>2. \A k \in Keys : Open(k)' \subseteq Open(k) \cup {i}
      BY <1>1, <2>2, <2>3 DEF Open, OpenOf, Relabels, Continues
    <3> QED
      BY <1>1, <1>2, <2>3, <3>1, <3>2 DEF Settled
  <2>5. CASE incidents[i].status # "RESOLVED"
    <3>1. \A k \in Keys : Open(k)' \subseteq Open(k)
      BY <1>1, <2>2, <2>3, <2>5 DEF Open, OpenOf, Relabels, Continues
    <3> QED
      BY <1>0, <1>1, <1>2, <2>3, <3>1 DEF Settled
  <2> QED
    BY <2>4, <2>5
<1>6. ASSUME NEW c \in Reporters, RecordedBy(c)
      PROVE  \/ Settled
             \/ \E k \in Keys, g \in Nat, time \in Nat \ {0}, i \in DOMAIN incidents' :
                  Opening(c, k, g, time, i)
  <2>1. PICK k \in Keys, g \in Nat, time \in Nat \ {0}, i \in DOMAIN incidents' :
          Records(c, k, g, time, i)
    BY <1>6, Recording
  <2>2. CASE Free(k, g) /\ Opens(incidents, incidents', i, k, g, time)
    BY <1>6, <2>1, <2>2 DEF Opening
  <2>3. CASE /\ Reopens(incidents, incidents', k, g)
             /\ \/ Counts("reopen")
                \/ \A j \in Found(incidents, k, g) : incidents[j].status # "RESOLVED"
    <3>1. DOMAIN incidents' = DOMAIN incidents
      BY <2>3 DEF Reopens
    <3>2. i \in DOMAIN incidents /\ incidents[i].key = k /\ incidents[i].generation = g
      BY <1>1, <2>1, <3>1 DEF Records, Continues
    <3>3. CASE Counts("reopen")
      <4>1. \A l \in Found(incidents, k, g) : l = i
        BY <3>2 DEF Found, Numbered
      <4>2. \A j \in Keys : Open(j)' \subseteq Open(j) \cup {i}
        BY <1>1, <2>3, <3>1, <4>1 DEF Open, OpenOf, Reopens, Continues
      <4>3. Reopened' = Reopened + 1
        BY <1>0, <3>3
      <4> QED
        BY <1>1, <1>2, <3>1, <4>2, <4>3 DEF Settled
    <3>4. CASE \A j \in Found(incidents, k, g) : incidents[j].status # "RESOLVED"
      <4>1. \A j \in Keys : Open(j)' \subseteq Open(j)
        BY <1>1, <2>3, <3>1, <3>4 DEF Open, OpenOf, Reopens, Continues
      <4> QED
        BY <1>0, <1>1, <1>2, <3>1, <4>1 DEF Settled
    <3> QED
      BY <2>3, <3>3, <3>4
  <2> QED
    BY <2>1, <2>2, <2>3 DEF Records
<1> QED
  BY <1>3, <1>4, <1>5, <1>6, IncidentsMove

\* What stays open is bounded as before.
LEMMA Bounded ==
  ASSUME TypeInv, Settled, TypeInv', NEW k \in Keys, NEW X, NEW n \in Nat,
         Cardinality(Open(k) \ X) <= Reopened + n
  PROVE  Cardinality(Open(k)' \ X) <= Reopened' + n
<1>0. /\ IsFiniteSet(Open(k) \ X) /\ Cardinality(Open(k) \ X) \in Nat
      /\ Reopened \in Nat /\ Reopened' \in Nat
  BY OpenFinite DEF TypeInv, RestTyped, Reopened, Kinds
<1>1. CASE Reopened <= Reopened' /\ Open(k)' \subseteq Open(k)
  <2>1. Open(k)' \ X \subseteq Open(k) \ X
    BY <1>1
  <2>2. /\ Cardinality(Open(k)' \ X) <= Cardinality(Open(k) \ X)
        /\ Cardinality(Open(k)' \ X) \in Nat
    BY <1>0, <2>1, FS_Subset, FS_CardinalityType
  <2> QED
    BY <1>0, <1>1, <2>2
<1>2. ASSUME NEW i, Reopened' = Reopened + 1, Open(k)' \subseteq Open(k) \cup {i}
      PROVE  Cardinality(Open(k)' \ X) <= Reopened' + n
  <2>1. Open(k)' \ X \subseteq (Open(k) \ X) \cup {i}
    BY <1>2
  <2>2. /\ Cardinality(Open(k)' \ X) <= Cardinality(Open(k) \ X) + 1
        /\ Cardinality(Open(k)' \ X) \in Nat
    BY <1>0, <2>1, AtMostOneMore
  <2> QED
    BY <1>0, <1>2, <2>2
<1> QED
  BY <1>1, <1>2 DEF Settled

\* An episode that begins is the last of its condition.
LEMMA OpeningIsLast ==
  ASSUME TypeInv, Numbered, Numbered', NEW c \in Reporters, NEW k \in Keys, NEW g \in Nat,
         NEW time \in Nat \ {0}, NEW i \in DOMAIN incidents', Opening(c, k, g, time, i)
  PROVE  /\ Open(k)' = Open(k) \cup {i} /\ i \notin Open(k)
         /\ \A j \in Keys \ {k} : Open(j)' = Open(j)
         /\ \A j \in DOMAIN incidents' :
              incidents'[j].key = k /\ Found(incidents', k, incidents'[j].generation + 1) = {} => j = i
         /\ \A j \in Keys \ {k} : \A h : Free(j, h)' <=> Free(j, h)
         /\ \A b \in Callers : at[b].op = "record" /\ at[b].key = k =>
              \A h \in Nat : at[b].generation = h => ~ Free(k, h)'
<1>1. /\ at[c].op = "record" /\ c \in Callers /\ at[c].key = k /\ at[c].generation = g
      /\ incidents' \in Seq(Incident)
  BY Documented DEF Opening, Records, Reporters
<1>2. /\ i \notin DOMAIN incidents /\ DOMAIN incidents' = DOMAIN incidents \cup {i}
      /\ incidents'[i].key = k /\ incidents'[i].generation = g /\ incidents'[i].status = "OPEN"
      /\ \A j \in DOMAIN incidents : incidents'[j] = incidents[j]
      /\ \A j \in DOMAIN incidents : ~ (incidents[j].key = k /\ incidents[j].generation = g)
  BY DEF Opening, Opens, Free, Found
<1>3. Open(k)' = Open(k) \cup {i} /\ i \notin Open(k)
  BY <1>2 DEF Open, OpenOf
<1>4. \A j \in Keys \ {k} : Open(j)' = Open(j)
  BY <1>2 DEF Open, OpenOf
<1>5. /\ \A j \in Keys \ {k} : \A h : Free(j, h)' <=> Free(j, h)
      /\ ~ Free(k, g)' /\ Free(k, g)
  BY <1>2 DEF Free, Found, Opening
<1>6. \A h \in 0 .. g - 1 : ~ Free(k, h) /\ ~ Free(k, h)'
  <2>1. \A h \in 0 .. g - 1 : ~ Free(k, h)
    BY <1>1 DEF Numbered
  <2>2. \A h : ~ Free(k, h) => ~ Free(k, h)'
    BY <1>2 DEF Free, Found
  <2> QED
    BY <2>1, <2>2
<1>7. ASSUME NEW j \in DOMAIN incidents', incidents'[j].key = k,
             Found(incidents', k, incidents'[j].generation + 1) = {}
      PROVE  j = i
  <2>1. SUFFICES ASSUME j # i PROVE FALSE
    OBVIOUS
  <2>2. PICK h \in Nat : h = incidents'[j].generation
    <3>1. incidents'[j] \in Incident
      BY <1>1
    <3> QED
      BY <3>1 DEF Incident
  <2>3. j \in DOMAIN incidents /\ incidents[j].key = k /\ incidents[j].generation = h
    BY <1>2, <1>7, <2>1, <2>2
  <2>4. h # g /\ ~ g \in 0 .. h - 1
    BY <1>2, <1>5, <2>3 DEF Numbered
  <2>5. h + 1 \in 0 .. g
    BY <2>4
  <2>6. ~ Free(k, h + 1)'
    BY <1>5, <1>6, <2>5
  <2> QED
    BY <1>7, <2>2, <2>6 DEF Free
<1>8. ASSUME NEW b \in Callers, at[b].op = "record", at[b].key = k, NEW h \in Nat,
             at[b].generation = h
      PROVE  ~ Free(k, h)'
  <2>1. ~ g \in 0 .. h - 1
    BY <1>5, <1>8 DEF Numbered
  <2>2. h = g \/ h \in 0 .. g - 1
    BY <2>1
  <2> QED
    BY <1>5, <1>6, <2>2
<1> QED
  BY <1>3, <1>4, <1>5, <1>7, <1>8

\* Every step keeps all but the last episode closed, or counted as reopened.
LEMMA LastIsOpenStep ==
  ASSUME TypeInv, TypeInv', Numbered, Numbered', LastIsOpen, [Next]_vars
  PROVE  LastIsOpen'
<1>1. /\ \A k \in Keys : \A X : Cardinality(Open(k) \ X) \in Nat /\ Cardinality(Open(k)) \in Nat
      /\ \A k \in Keys : IsFiniteSet(Open(k))
      /\ Reopened \in Nat /\ Reopened' \in Nat
  BY OpenFinite DEF TypeInv, RestTyped, Reopened, Kinds
<1>2. \A k \in Keys : Open(k) \ {} = Open(k) /\ Open(k)' \ {} = Open(k)'
  OBVIOUS
<1>3. \A i \in DOMAIN incidents : incidents[i].generation \in Nat /\ incidents[i].key \in Keys
  BY IncidentsTyped DEF Incident
\* who is about to record
<1>4. ASSUME NEW c \in Callers, at'[c].op = "record", NEW k \in Keys, NEW g \in Nat,
             at'[c].key = k, at'[c].generation = g, Free(k, g),
             at'[c] = at[c] \/ incidents' = incidents
      PROVE  Cardinality(Open(k)) <= Reopened
  <2>1. CASE at'[c] = at[c]
    BY <1>4, <2>1 DEF LastIsOpen
  <2>2. CASE c \in Reporters /\ Counted(c)
    <3>1. PICK j \in Keys, h \in Nat :
           /\ at'[c].key = j /\ at'[c].generation = h /\ incidents' = incidents
           /\ \/ h = 0
              \/ \E i \in DOMAIN incidents :
                   /\ incidents[i].key = j
                   /\ \/ incidents[i].status # "RESOLVED" /\ h = incidents[i].generation
                      \/ incidents[i].status = "RESOLVED" /\ h = incidents[i].generation + 1
      BY <1>4, <2>2, Counting
    <3>2. CASE g = 0
      <4>1. \A i \in DOMAIN incidents : incidents[i].key # k
        <5> SUFFICES ASSUME NEW i \in DOMAIN incidents, incidents[i].key = k PROVE FALSE
          OBVIOUS
        <5>1. incidents[i].generation # 0
          BY <1>4, <3>2 DEF Free, Found
        <5>2. 0 \in 0 .. incidents[i].generation - 1
          BY <1>3, <5>1
        <5> QED
          BY <1>4, <3>2, <5>2 DEF Numbered
      <4>2. Open(k) = {}
        BY <4>1 DEF Open, OpenOf
      <4> QED
        BY <1>1, <4>2, FS_EmptySet
    <3>3. ASSUME NEW i \in DOMAIN incidents, incidents[i].key = k,
                 incidents[i].status = "RESOLVED", g = incidents[i].generation + 1
          PROVE  Cardinality(Open(k)) <= Reopened
      <4>1. Cardinality(Open(k) \ {i}) <= Reopened
        BY <1>4, <3>3 DEF LastIsOpen
      <4>2. Open(k) \ {i} = Open(k)
        BY <3>3 DEF Open, OpenOf
      <4> QED
        BY <4>1, <4>2
    <3>4. \A i \in DOMAIN incidents : ~ (incidents[i].key = k /\ incidents[i].generation = g)
      BY <1>4 DEF Free, Found
    <3> QED
      BY <1>4, <3>1, <3>2, <3>3, <3>4
  <2> QED
    BY <1>4, <2>1, <2>2, RecordersAre
<1>5. ASSUME NEW c \in Callers, at'[c].op = "record"
      PROVE  at'[c].key \in Keys /\ at'[c].generation \in Nat
  BY <1>5 DEF TypeInv, CallersTyped, StateOK
<1>6. CASE Settled
  <2>1. ASSUME NEW k \in Keys PROVE Cardinality(Open(k)') <= Reopened' + 1
    <3>1. Cardinality(Open(k) \ {}) <= Reopened + 1
      BY <1>2 DEF LastIsOpen
    <3>2. Cardinality(Open(k)' \ {}) <= Reopened' + 1
      BY <1>6, <3>1, Bounded
    <3> QED
      BY <1>2, <3>2
  <2>2. ASSUME NEW i \in DOMAIN incidents', Found(incidents', incidents'[i].key,
                                                  incidents'[i].generation + 1) = {}
        PROVE  Cardinality(OpenOf(incidents', incidents'[i].key) \ {i}) <= Reopened'
    <3>1. /\ i \in DOMAIN incidents /\ incidents'[i].key = incidents[i].key
          /\ incidents'[i].generation = incidents[i].generation
      BY <1>6 DEF Settled, Continues
    <3>2. PICK k \in Keys, g \in Nat : k = incidents[i].key /\ g = incidents[i].generation
      BY <1>3, <3>1
    <3>3. Free(k, g + 1)'
      BY <2>2, <3>1, <3>2 DEF Free
    <3>4. Free(k, g + 1)
      BY <1>6, <3>3 DEF Settled
    <3>5. Cardinality(Open(k) \ {i}) <= Reopened + 0
      BY <1>1, <3>1, <3>2, <3>4 DEF LastIsOpen
    <3>6. Cardinality(Open(k)' \ {i}) <= Reopened' + 0
      BY <1>6, <3>5, Bounded
    <3> QED
      BY <1>1, <3>1, <3>2, <3>6 DEF Open
  <2>3. ASSUME NEW c \in Callers, at'[c].op = "record",
               Found(incidents', at'[c].key, at'[c].generation) = {}
        PROVE  Cardinality(OpenOf(incidents', at'[c].key)) <= Reopened'
    <3>1. PICK k \in Keys, g \in Nat : k = at'[c].key /\ g = at'[c].generation
      BY <1>5, <2>3
    <3>2. Free(k, g)
      BY <1>6, <2>3, <3>1 DEF Settled, Free
    <3>3. at'[c] = at[c] \/ incidents' = incidents
      BY <2>3, RecordersAre DEF Counted
    <3>4. Cardinality(Open(k) \ {}) <= Reopened + 0
      BY <1>1, <1>2, <1>4, <2>3, <3>1, <3>2, <3>3
    <3>5. Cardinality(Open(k)' \ {}) <= Reopened' + 0
      BY <1>6, <3>4, Bounded
    <3> QED
      BY <1>1, <1>2, <3>1, <3>5 DEF Open
  <2> QED
    BY <2>1, <2>2, <2>3 DEF LastIsOpen, Open, Free
<1>7. ASSUME NEW c \in Reporters, NEW k \in Keys, NEW g \in Nat, NEW time \in Nat \ {0},
             NEW i \in DOMAIN incidents', Opening(c, k, g, time, i)
      PROVE  LastIsOpen'
  <2>1. /\ Open(k)' = Open(k) \cup {i} /\ i \notin Open(k)
        /\ \A j \in Keys \ {k} : Open(j)' = Open(j)
        /\ \A j \in DOMAIN incidents' :
             incidents'[j].key = k /\ Found(incidents', k, incidents'[j].generation + 1) = {} => j = i
        /\ \A j \in Keys \ {k} : \A h : Free(j, h)' <=> Free(j, h)
        /\ \A b \in Callers : at[b].op = "record" /\ at[b].key = k =>
             \A h \in Nat : at[b].generation = h => ~ Free(k, h)'
    BY <1>7, OpeningIsLast
  <2>2. /\ at[c].op = "record" /\ at[c].key = k /\ at[c].generation = g /\ Free(k, g)
        /\ c \in Callers /\ incidents'[i].key = k
        /\ i \notin DOMAIN incidents /\ DOMAIN incidents' = DOMAIN incidents \cup {i}
        /\ \A j \in DOMAIN incidents : incidents'[j] = incidents[j]
    BY <1>7, Documented DEF Opening, Records, Opens, Reporters
  <2>3. Reopened' = Reopened
    BY <1>7, <2>2 DEF Opening, Records, Reopened
  <2>4. Cardinality(Open(k)) <= Reopened
    BY <2>2 DEF LastIsOpen
  <2>5. ASSUME NEW j \in Keys PROVE Cardinality(Open(j)') <= Reopened' + 1
    <3>1. CASE j = k
      <4>1. /\ Cardinality(Open(j)') <= Cardinality(Open(k)) + 1
            /\ Cardinality(Open(j)') \in Nat /\ Cardinality(Open(k)) \in Nat
        <5>1. Open(j)' \subseteq Open(k) \cup {i} /\ IsFiniteSet(Open(k))
          BY <1>1, <2>1, <3>1
        <5> QED
          BY <5>1, AtMostOneMore
      <4> QED
        BY <1>1, <2>3, <2>4, <4>1
    <3>2. CASE j # k
      BY <2>1, <2>3, <3>2 DEF LastIsOpen
    <3> QED
      BY <3>1, <3>2
  <2>6. ASSUME NEW j \in DOMAIN incidents', Found(incidents', incidents'[j].key,
                                                  incidents'[j].generation + 1) = {}
        PROVE  Cardinality(OpenOf(incidents', incidents'[j].key) \ {j}) <= Reopened'
    <3>1. CASE incidents'[j].key = k
      <4>1. j = i
        BY <2>1, <2>6, <3>1
      <4>2. Open(k)' \ {j} = Open(k)
        BY <2>1, <4>1
      <4> QED
        BY <2>3, <2>4, <3>1, <4>2 DEF Open
    <3>2. CASE incidents'[j].key # k
      <4>1. j \in DOMAIN incidents /\ incidents'[j] = incidents[j]
        BY <2>2, <3>2
      <4>2. PICK l \in Keys, h \in Nat : l = incidents[j].key /\ h = incidents[j].generation
        BY <1>3, <4>1
      <4>3. Free(l, h + 1)
        BY <2>1, <2>6, <3>2, <4>1, <4>2 DEF Free
      <4>4. Open(l)' = Open(l)
        BY <2>1, <3>2, <4>1, <4>2
      <4>5. Cardinality(Open(l) \ {j}) <= Reopened
        BY <4>1, <4>2, <4>3 DEF LastIsOpen
      <4> QED
        BY <2>3, <4>1, <4>2, <4>4, <4>5 DEF Open
    <3> QED
      BY <3>1, <3>2
  <2>7. ASSUME NEW b \in Callers, at'[b].op = "record",
               Found(incidents', at'[b].key, at'[b].generation) = {}
        PROVE  Cardinality(OpenOf(incidents', at'[b].key)) <= Reopened'
    <3>1. PICK l \in Keys, h \in Nat : l = at'[b].key /\ h = at'[b].generation
      BY <1>5, <2>7
    <3>2. incidents' # incidents
      BY <2>2
    <3>3. at'[b] = at[b]
      BY <2>7, <3>2, RecordersAre DEF Counted
    <3>4. Free(l, h)'
      BY <2>7, <3>1 DEF Free
    <3>5. l # k
      BY <2>1, <2>7, <3>1, <3>3, <3>4
    <3>6. Free(l, h)
      BY <2>1, <3>4, <3>5
    <3>7. Cardinality(Open(l)) <= Reopened
      BY <2>7, <3>1, <3>3, <3>6 DEF LastIsOpen
    <3>8. Open(l)' = Open(l)
      BY <2>1, <3>5
    <3> QED
      BY <2>3, <3>1, <3>7, <3>8 DEF Open
  <2> QED
    BY <2>5, <2>6, <2>7 DEF LastIsOpen, Open, Free
<1> QED
  BY <1>6, <1>7, OpenStep

-----------------------------------------------------------------------------
(* Without a fault no report is left between two transactions *)

\* A step after which nothing was lost loses nothing.
LEMMA StillLossless ==
  ASSUME TypeInv, [Next]_vars, Lossless'
  PROVE  Lossless /\ ~ WriteFails /\ ~ Crash
<1>1. \A kind \in Kinds : /\ faults[kind] \in Nat /\ faults[kind] <= faults'[kind]
                          /\ Counts(kind) => faults'[kind] = faults[kind] + 1
  BY FaultsRise, CountedOne
<1>2. faults'["write"] = 0 /\ faults'["crash"] = 0 /\ {"write", "crash"} \subseteq Kinds
  BY KnownKinds DEF Lossless
<1>3. Lossless /\ ~ Counts("write") /\ ~ Counts("crash")
  BY <1>1, <1>2 DEF Lossless
<1> QED
  BY <1>3 DEF WriteFails, MonitoringWriteFails, AdminWriteFails, Crash, Faulty

\* Without a loss, a report between two transactions goes on to the next.
LEMMA Persists ==
  ASSUME TypeInv, [Next]_vars, Lossless'
  PROVE  \A b \in Callers : at[b].op \in {"record", "link", "resolve"} =>
           at'[b] = at[b] \/ (b \in Reporters /\ (RecordedBy(b) \/ Linked(b) \/ Resolved(b)))
<1>1. AtTyped /\ Queueing /\ Observers \cup {Listener, Human, Dispatcher} \subseteq Callers
  BY TypedNow, Documented
<1>2. ASSUME NEW c \in Callers, Moves(c), at[c].op \notin {"record", "link", "resolve"}
      PROVE  \A b \in Callers : at[b].op \in {"record", "link", "resolve"} => at'[b] = at[b]
  BY <1>1, <1>2, MovesKeeps
<1>3. Idle.op \notin {"record", "link", "resolve"}
  BY DEF Idle
<1>4. CASE Report
  <2>1. ASSUME NEW o \in Observers, NEW k, Fail(o, k) PROVE Moves(o) /\ at[o] = Idle
    BY <1>1, <2>1, CountMoves DEF Fail
  <2>2. ASSUME NEW o \in Observers, Succeed(o) PROVE Moves(o) /\ at[o] = Idle
    BY <1>1, <2>2, NoteMoves DEF Succeed
  <2>3. ASSUME NEW i, NEW status, Decide(i, status) PROVE Moves(Human) /\ at[Human] = Idle
    BY <1>1, <2>3, DecideMoves
  <2> QED
    BY <1>1, <1>2, <1>3, <1>4, <2>1, <2>2, <2>3 DEF Report
<1>5. CASE Commits
  <2>1. ASSUME NEW c \in Reporters, Counted(c) \/ Noted(c) \/ Told(c)
        PROVE  Moves(c) /\ at[c].op \in {"count", "note", "tell"} /\ c \in Callers
    BY <1>1, <2>1, CountedMoves, NotedMoves, ToldMoves DEF Reporters
  <2>2. ASSUME NEW c \in Reporters, RecordedBy(c) \/ Linked(c) \/ Resolved(c)
        PROVE  Moves(c) /\ c \in Callers
    BY <1>1, <2>2, RecordedMoves, LinkedMoves, TellsMoves DEF Reporters, Resolved
  <2>3. CASE Decided
    <3>1. Moves(Human) /\ at[Human].op = "decide"
      BY <1>1, <2>3, DecidedMoves DEF Decided
    <3> QED
      BY <1>1, <1>2, <3>1
  <2>4. ASSUME NEW c \in Reporters, RecordedBy(c) \/ Linked(c) \/ Resolved(c), NEW b \in Callers
        PROVE  at'[b] = at[b] \/ b = c
    BY <1>1, <2>2, <2>4, MovesKeeps
  <2> QED
    BY <1>2, <1>5, <2>1, <2>3, <2>4 DEF Commits, Reporters
<1>6. CASE Listen
  <2>1. (Moves(Listener) /\ at[Listener] = Idle) \/ UNCHANGED at
    BY <1>1, <1>6, CountMoves, NoteMoves DEF Listen
  <2> QED
    BY <1>1, <1>2, <1>3, <2>1
<1>7. CASE Dispatch
  <2>1. Moves(Dispatcher) /\ at[Dispatcher].op \notin {"record", "link", "resolve"}
    BY <1>1, <1>7, DispatcherMoves, TypedNow, OpsOfOthers
  <2> QED
    BY <1>1, <1>2, <2>1
<1> QED
  BY <1>4, <1>5, <1>6, <1>7, StillLossless
  DEF Next, EngineNext, TimePasses, BackoffPasses, vars, engineVars

\* What a step makes of a watch.
LEMMA WatchStep ==
  ASSUME TypeInv, [Next]_vars, NEW k \in Keys
  PROVE  \/ watch'[k].incident = watch[k].incident /\ watch'[k].phase = watch[k].phase
         \/ \E c \in Reporters : at[c].key = k /\ (Counted(c) \/ Linked(c) \/ Noted(c))
<1>0. watch = [j \in Keys |-> watch[j]]
  BY DEF TypeInv, WatchesTyped
<1>1. CASE watch' = watch
  BY <1>1
<1>2. ASSUME NEW c \in Reporters, Counted(c) \/ Linked(c) \/ Noted(c), at[c].key # k
      PROVE  watch'[k] = watch[k]
  BY <1>0, <1>2 DEF Counted, Linked, Noted
<1>3. ASSUME NEW c \in Reporters, Told(c), watch' # watch
      PROVE  watch'[k].incident = watch[k].incident /\ watch'[k].phase = watch[k].phase
  <2>1. watch' = [watch EXCEPT ![at[c].key].notified = at[c].time]
    BY <1>3 DEF Told, QueuedOnce, Queued
  <2>2. watch[k] = NoWatch \/ watch[k] \in Watch
    BY TypedNow DEF WatchOK
  <2> QED
    BY <1>0, <2>1, <2>2 DEF Watch, NoWatch
<1>4. ASSUME NEW c, RecordedBy(c) \/ Resolved(c) \/ Decided PROVE watch' = watch
  BY <1>4 DEF RecordedBy, Resolved, Decided
<1>5. CASE Report
  BY <1>1, <1>5 DEF Report, Fail, Succeed, Decide, durable
<1>6. CASE WriteFails
  BY <1>1, <1>6 DEF WriteFails, MonitoringWriteFails, AdminWriteFails, durable
<1>7. CASE Commits
  BY <1>1, <1>2, <1>3, <1>4, <1>7 DEF Commits, Reporters
<1>8. CASE Dispatch \/ \E n \in DOMAIN outbox : BackoffPasses(n)
  BY <1>1, <1>8, DispatchFaults
<1> QED
  BY <1>1, <1>5, <1>6, <1>7, <1>8
  DEF Next, EngineNext, Listen, TimePasses, Crash, durable, vars, engineVars

\* A failure that was counted leaves no watch well.
LEMMA CountedWatch ==
  ASSUME TypeInv, NEW c \in Reporters, Counted(c)
  PROVE  LET k == at[c].key
         IN /\ watch'[k].incident = watch[k].incident
            /\ watch'[k].phase \notin {"HEALTHY", "RECOVERED"}
<1>1. at[c].op = "count" /\ StateOK(at[c])
  BY TypedNow, Documented DEF Counted, Reporters
<1>2. PICK k \in Keys : k = at[c].key
  BY <1>1 DEF StateOK
<1>3. watch = [j \in Keys |-> watch[j]]
  BY DEF TypeInv, WatchesTyped
<1>4. watch'[k] = Failed(k)
  BY <1>2, <1>3 DEF Counted
<1>5. Failed(k).incident = watch[k].incident /\ Failed(k).phase \in {"OPEN", "DEGRADED"}
  BY TypedNow, FailedTyped DEF WatchOK
<1> QED
  BY <1>2, <1>4, <1>5

\* A failure that was linked leaves its incident in a watch that is open.
LEMMA LinkedWatch ==
  ASSUME TypeInv, NEW c \in Reporters, Linked(c)
  PROVE  LET k == at[c].key
         IN watch'[k].incident = at[c].incident /\ watch'[k].phase = "OPEN"
<1>1. PICK i \in DOMAIN incidents, k \in Keys, g \in Nat, time \in Nat \ {0} :
        Links(c, i, k, g, time)
  BY Linking
<1>2. /\ i = at[c].incident /\ k = at[c].key /\ watch[k] \in Watch
      /\ watch' = [watch EXCEPT ![k].incident = i, ![k].generation = g, ![k].phase = "OPEN"]
  BY <1>1 DEF Links
<1>3. watch = [j \in Keys |-> watch[j]]
  BY DEF TypeInv, WatchesTyped
<1> QED
  BY <1>2, <1>3 DEF Watch

\* A success that was noted closes its watch, and resolves what it knows to be
\* open.
LEMMA NotedWatch ==
  ASSUME TypeInv, NEW c \in Reporters, Noted(c)
  PROVE  \E k \in Keys, time \in Nat :
           /\ k = at[c].key /\ time = at[c].time /\ at[c].op = "note" /\ Moves(c)
           /\ watch'[k] = Succeeded(watch[k], time)
           /\ watch'[k].incident = watch[k].incident
           /\ UNCHANGED <<incidents, faults>>
           /\ Recovers(watch[k], time) /\ incidents[watch[k].incident].status # "RESOLVED" =>
                at'[c].op = "resolve" /\ at'[c].incident = watch[k].incident
<1>1. c \in Callers /\ at[c].op = "note" /\ StateOK(at[c]) /\ AtTyped /\ Queueing
  BY TypedNow, Documented DEF Noted, Reporters
<1>2. PICK k \in Keys, time \in Nat : k = at[c].key /\ time = at[c].time
  BY <1>1 DEF StateOK
<1>3. watch = [j \in Keys |-> watch[j]]
  BY DEF TypeInv, WatchesTyped
<1>4. watch'[k] = Succeeded(watch[k], time) /\ UNCHANGED <<incidents, faults>>
  BY <1>2, <1>3 DEF Noted
<1>5. Succeeded(watch[k], time).incident = watch[k].incident
  BY TypedNow, SucceededTyped DEF WatchOK
<1>6. /\ Moves(c)
      /\ \/ at'[c] = [op |-> "resolve", key |-> at[c].key, time |-> at[c].time,
                      left |-> at[c].left, incident |-> watch[at[c].key].incident,
                      generation |-> watch[at[c].key].generation]
         \/ ~ (Recovers(watch[at[c].key], at[c].time)
               /\ incidents[watch[at[c].key].incident].status # "RESOLVED")
  BY <1>1, NotedMoves
<1>7. Recovers(watch[k], time) /\ incidents[watch[k].incident].status # "RESOLVED" =>
        at'[c].op = "resolve" /\ at'[c].incident = watch[k].incident
  BY <1>2, <1>6
<1> QED
  BY <1>1, <1>2, <1>4, <1>5, <1>6, <1>7

LinkedAt(k) ==
    /\ \A c \in Callers : LastLinking(c, k) =>
        Cardinality(Open(k) \ {at[c].incident}) <= Reopened
    /\ (\A c \in Callers : ~ IsLinking(c, k)) =>
        Cardinality(Open(k) \ {watch[k].incident}) <= Reopened

LinkersStay(k) ==
    \A b \in Callers : /\ IsLinking(b, k)' <=> IsLinking(b, k)
                       /\ IsLinking(b, k) => at'[b] = at[b]

\* What is open of a condition is bounded as before.
OpenStays(k) ==
    \A X : Cardinality(Open(k) \ X) <= Reopened => Cardinality(Open(k)' \ X) <= Reopened'

\* A step that opens nothing leaves no more open than before, but for what it
\* counts.
LEMMA SettledStays ==
  ASSUME TypeInv, TypeInv', Settled, NEW k \in Keys
  PROVE  OpenStays(k)
<1>1. Reopened + 0 = Reopened /\ Reopened' + 0 = Reopened'
  BY OpenFinite DEF TypeInv, RestTyped, Reopened, Kinds
<1>2. ASSUME NEW X, Cardinality(Open(k) \ X) <= Reopened
      PROVE  Cardinality(Open(k)' \ X) <= Reopened'
  <2>1. Cardinality(Open(k) \ X) <= Reopened + 0
    BY <1>1, <1>2
  <2>2. Cardinality(Open(k)' \ X) <= Reopened' + 0
    BY <2>1, Bounded
  <2> QED
    BY <1>1, <2>2
<1> QED
  BY <1>2 DEF OpenStays

\* Whoever links waits in the chain of the monitoring document.
LEMMA LinkingIs ==
  ASSUME NEW c, NEW k, IsLinking(c, k)
  PROVE  Stage(at[c]) = 3 /\ Place(at[c]) = "monitoring" /\ at[c].op = "link" /\ at[c].key = k
  BY Stages DEF IsLinking

\* The last to link stays the last while the same reports link.
LEMMA LastLinkingStays ==
  ASSUME TypeInv, [Next]_vars, NEW k \in Keys, LinkersStay(k), NEW b \in Callers, LastLinking(b, k)'
  PROVE  LastLinking(b, k) /\ at'[b] = at[b]
<1>1. IsLinking(b, k)' /\ IsLinking(b, k) /\ at'[b] = at[b]
  BY DEF LastLinking, LinkersStay
<1>2. ASSUME NEW d \in Callers, IsLinking(d, k), Precedes("monitoring", b, d)
      PROVE  Precedes("monitoring", b, d)'
  <2>1. CASE UNCHANGED <<at, chain>>
    BY <1>2, <2>1 DEF Precedes
  <2>2. ASSUME NEW c \in Callers, Moves(c), Advances(c) PROVE Precedes("monitoring", b, d)'
    <3>1. ASSUME NEW e \in Callers, IsLinking(e, k) PROVE e # c
      <4>1. at'[e] = at[e] /\ Stage(at[e]) = 3
        BY <3>1, LinkingIs DEF LinkersStay
      <4> QED
        BY <2>2, <4>1 DEF Advances
    <3>2. b # c /\ d # c
      BY <1>1, <1>2, <3>1
    <3> QED
      BY <1>2, <2>2, <3>2, MovesKeeps, TypedNow, Documented
  <2>3. CASE \A c \in Callers : at'[c] = Idle
    BY <1>1, <2>3 DEF IsLinking, Idle
  <2> QED
    BY <2>1, <2>2, <2>3, PipelineStep
<1>3. ASSUME NEW d \in Callers, IsLinking(d, k) PROVE ~ Precedes("monitoring", b, d)
  <2>1. IsLinking(d, k)'
    BY <1>3 DEF LinkersStay
  <2> QED
    BY <1>2, <1>3, <2>1 DEF LastLinking
<1> QED
  BY <1>1, <1>3 DEF LastLinking

\* The incident that matters stays the one while nobody comes to link another.
LEMMA LinkedStays ==
  ASSUME TypeInv, [Next]_vars, NEW k \in Keys, LinkedAt(k), LinkersStay(k), OpenStays(k),
         watch'[k].incident = watch[k].incident
  PROVE  LinkedAt(k)'
<1>1. ASSUME NEW c \in Callers, LastLinking(c, k)'
      PROVE  Cardinality(Open(k)' \ {at'[c].incident}) <= Reopened'
  <2>1. LastLinking(c, k) /\ at'[c] = at[c]
    BY <1>1, LastLinkingStays
  <2>2. Cardinality(Open(k) \ {at[c].incident}) <= Reopened
    BY <2>1 DEF LinkedAt
  <2> QED
    BY <2>1, <2>2 DEF OpenStays
<1>2. ASSUME \A c \in Callers : ~ IsLinking(c, k)'
      PROVE  Cardinality(Open(k)' \ {watch'[k].incident}) <= Reopened'
  <2>1. Cardinality(Open(k) \ {watch[k].incident}) <= Reopened
    BY <1>2 DEF LinkedAt, LinkersStay
  <2> QED
    BY <2>1 DEF OpenStays
<1> QED
  BY <1>1, <1>2 DEF LinkedAt

\* A failure of another condition opens nothing here.
LEMMA OpenElsewhere ==
  ASSUME TypeInv, TypeInv', Numbered, Numbered', [Next]_vars, NEW k \in Keys,
         \A c \in Reporters : RecordedBy(c) => at[c].key # k
  PROVE  OpenStays(k)
<1>1. CASE Settled
  BY <1>1, SettledStays
<1>2. ASSUME NEW c \in Reporters, NEW j \in Keys, NEW g \in Nat, NEW time \in Nat \ {0},
             NEW i \in DOMAIN incidents', Opening(c, j, g, time, i), RecordedBy(c)
      PROVE  OpenStays(k)
  <2>1. j = at[c].key /\ UNCHANGED faults
    BY <1>2 DEF Opening, Records, Opens
  <2>2. k # j
    BY <1>2, <2>1
  <2>3. Open(k)' = Open(k)
    BY <1>2, <2>2, OpeningIsLast
  <2> QED
    BY <2>1, <2>3 DEF OpenStays, Reopened
<1> QED
  BY <1>1, <1>2, OpenStep DEF Opening

\* The report that recorded a failure is the last to link its watch.
LEMMA RecordedLinks ==
  ASSUME TypeInv, TypeInv', Numbered, Numbered', LastIsOpen, LastIsOpen', [Next]_vars,
         NEW c \in Reporters, RecordedBy(c), NEW k \in Keys, at[c].key = k
  PROVE  LinkedAt(k)' /\ at'[c].op = "link" /\ at'[c].key = k
<1>0. c \in Callers /\ AtTyped /\ Queueing /\ "monitoring" \in Documents
  BY TypedNow, Documented DEF Reporters
<1>1. PICK j \in Keys, g \in Nat, time \in Nat \ {0}, i \in DOMAIN incidents' :
        Records(c, j, g, time, i)
  BY Recording
<1>2. j = k
  BY <1>1 DEF Records
<1>3. /\ at[c].op = "record" /\ Moves(c) /\ at[c].generation = g
      /\ at'[c] = [op |-> "link", key |-> j, time |-> time, generation |-> g,
                   notified |-> at[c].notified, incident |-> i]
      /\ incidents'[i].key = j /\ incidents'[i].generation = g
      /\ Continues(incidents, incidents')
  BY <1>1 DEF Records
<1>4. at'[c].op = "link" /\ at'[c].key = k /\ at'[c].incident = i /\ Place(at'[c]) = "monitoring"
  BY <1>2, <1>3 DEF Place
<1>5. Reopened \in Nat /\ Reopened' \in Nat
  BY OpenFinite DEF TypeInv, RestTyped, Reopened, Kinds
<1>6. Cardinality(Open(k)' \ {i}) <= Reopened'
  <2>1. CASE Free(k, g) /\ Opens(incidents, incidents', i, k, g, time) /\ UNCHANGED faults
    <3>1. Open(k)' \ {i} = Open(k)
      BY <2>1 DEF Open, OpenOf, Opens
    <3>2. Cardinality(Open(k)) <= Reopened
      BY <1>0, <1>3, <2>1 DEF LastIsOpen
    <3> QED
      BY <2>1, <3>1, <3>2 DEF Reopened
  <2>2. CASE Reopens(incidents, incidents', k, g)
    <3>1. i \in DOMAIN incidents /\ incidents[i].key = k /\ incidents[i].generation = g
      BY <1>2, <1>3, <2>2 DEF Reopens, Continues
    <3>2. incidents'[i].status # "RESOLVED"
      BY <2>2, <3>1 DEF Reopens, Found
    <3>3. i \in Open(k)'
      BY <1>2, <1>3, <3>2 DEF Open, OpenOf
    <3>4. IsFiniteSet(Open(k)')
      <4>1. DOMAIN incidents' = 1 .. Len(incidents') /\ Len(incidents') \in Nat
        BY DEF TypeInv, RowsTyped
      <4>2. Open(k)' \subseteq DOMAIN incidents'
        BY DEF Open, OpenOf
      <4> QED
        <5>1. IsFiniteSet(DOMAIN incidents')
          BY <4>1, FS_Interval
        <5> QED
          BY <4>2, <5>1, FS_Subset
    <3>5. /\ Cardinality(Open(k)' \ {i}) = Cardinality(Open(k)') - 1
          /\ Cardinality(Open(k)') \in Nat
      BY <3>3, <3>4, OneFewer, FS_CardinalityType
    <3>6. Cardinality(Open(k)') <= Reopened' + 1
      BY DEF LastIsOpen
    <3> QED
      BY <1>5, <3>5, <3>6
  <2> QED
    BY <1>1, <1>2, <2>1, <2>2 DEF Records
<1>7. ASSUME NEW b \in Callers, LastLinking(b, k)' PROVE b = c
  <2>1. SUFFICES ASSUME b # c PROVE FALSE
    OBVIOUS
  <2>2. at'[b] = at[b] /\ IsLinking(b, k)'
    BY <1>0, <1>3, <1>7, <2>1, MovesKeeps DEF LastLinking
  <2>3. Place(at[b]) = "monitoring"
    BY <2>2 DEF IsLinking, Place
  <2>4. Precedes("monitoring", b, c)'
    BY <1>0, <1>3, <1>4, <2>1, <2>3, MovesKeeps
  <2>5. IsLinking(c, k)'
    BY <1>4 DEF IsLinking
  <2> QED
    BY <1>0, <1>7, <2>4, <2>5 DEF LastLinking
<1>8. IsLinking(c, k)'
  BY <1>4 DEF IsLinking
<1> QED
  BY <1>0, <1>4, <1>6, <1>7, <1>8 DEF LinkedAt

\* The watch that is linked knows the incident that its head stood for.
LEMMA LinkedLinks ==
  ASSUME TypeInv, [Next]_vars, NEW c \in Reporters, Linked(c), NEW k \in Keys, at[c].key = k,
         LinkedAt(k)
  PROVE  LinkedAt(k)'
<1>0. /\ c \in Callers /\ AtTyped /\ Queueing /\ "monitoring" \in Documents
      /\ Turn(c, "monitoring") /\ at[c].op = "link" /\ Moves(c)
  BY TypedNow, Documented, LinkedMoves DEF Reporters
<1>1. watch'[k].incident = at[c].incident /\ UNCHANGED <<incidents, faults>>
  BY LinkedWatch DEF Linked
<1>2. Open(k)' = Open(k) /\ Reopened' = Reopened
  BY <1>1 DEF Open, Reopened
<1>3. \A b \in Callers : ~ Precedes("monitoring", b, c)
  BY <1>0, TurnIsFirst
<1>4. /\ \A b \in Callers : b # c => at'[b] = at[b]
      /\ \A b, d \in Callers : b # c /\ d # c =>
           (Precedes("monitoring", b, d)' <=> Precedes("monitoring", b, d))
  BY <1>0, MovesKeeps
<1>5. at'[c].op # "link"
  <2>1. at'[c] = Idle \/ at'[c] = Telling(at[c])
    BY <1>0, LinkedMoves
  <2> QED
    BY <2>1 DEF Idle, Telling
<1>6. ASSUME NEW b \in Callers, LastLinking(b, k)' PROVE LastLinking(b, k) /\ at'[b] = at[b]
  <2>1. b # c /\ at'[b] = at[b] /\ IsLinking(b, k)
    BY <1>4, <1>5, <1>6 DEF LastLinking, IsLinking
  <2>2. ASSUME NEW d \in Callers, IsLinking(d, k) PROVE ~ Precedes("monitoring", b, d)
    <3>1. CASE d = c
      BY <1>3, <3>1
    <3>2. CASE d # c
      <4>1. IsLinking(d, k)'
        BY <1>4, <2>2, <3>2 DEF IsLinking
      <4> QED
        BY <1>4, <1>6, <2>1, <3>2, <4>1 DEF LastLinking
    <3> QED
      BY <3>1, <3>2
  <2> QED
    BY <2>1, <2>2 DEF LastLinking
<1>7. ASSUME \A b \in Callers : ~ IsLinking(b, k)' PROVE LastLinking(c, k)
  <2>1. \A b \in Callers : IsLinking(b, k) => b = c
    BY <1>4, <1>7 DEF IsLinking
  <2> QED
    BY <1>0, <1>3, <2>1 DEF LastLinking, IsLinking
<1>8. ASSUME NEW b \in Callers, LastLinking(b, k)'
      PROVE  Cardinality(Open(k)' \ {at'[b].incident}) <= Reopened'
  <2>1. LastLinking(b, k) /\ at'[b] = at[b]
    BY <1>6, <1>8
  <2> QED
    BY <1>2, <2>1 DEF LinkedAt
<1>9. ASSUME \A b \in Callers : ~ IsLinking(b, k)'
      PROVE  Cardinality(Open(k)' \ {watch'[k].incident}) <= Reopened'
  <2>1. LastLinking(c, k)
    BY <1>7, <1>9
  <2>2. Cardinality(Open(k) \ {at[c].incident}) <= Reopened
    BY <1>0, <2>1 DEF LinkedAt
  <2> QED
    BY <1>1, <1>2, <2>2
<1> QED
  BY <1>8, <1>9 DEF LinkedAt

\* Every step keeps open only the incident that the watch knows, or will.
LEMMA LinkedIsOpenStep ==
  ASSUME TypeInv, TypeInv', Numbered, Numbered', LastIsOpen, LastIsOpen', LinkedIsOpen,
         [Next]_vars
  PROVE  LinkedIsOpen'
<1> SUFFICES ASSUME Lossless', NEW k \in Keys PROVE LinkedAt(k)'
  BY DEF LinkedIsOpen, LinkedAt
<1>1. LinkedAt(k)
  BY StillLossless DEF LinkedIsOpen, LinkedAt
<1>2. CASE \E c \in Reporters : at[c].key = k /\ (RecordedBy(c) \/ Linked(c))
  BY <1>1, <1>2, RecordedLinks, LinkedLinks
<1>3. CASE \A c \in Reporters : RecordedBy(c) \/ Linked(c) => at[c].key # k
  <2>1. OpenStays(k)
    BY <1>3, OpenElsewhere
  <2>2. watch'[k].incident = watch[k].incident
    <3>1. ASSUME NEW c \in Reporters, at[c].key = k, Noted(c)
          PROVE  watch'[k].incident = watch[k].incident
      BY <3>1, NotedWatch
    <3> QED
      BY <1>3, <3>1, WatchStep, CountedWatch
  <2>3. ASSUME NEW b \in Callers, IsLinking(b, k) PROVE at'[b] = at[b]
    <3>1. at[b].op = "link" /\ at[b].key = k
      BY <2>3 DEF IsLinking
    <3>2. RecordedBy(b) \/ Resolved(b) => at[b].op # "link"
      BY DEF RecordedBy, Resolved
    <3> QED
      BY <1>3, <3>1, <3>2, Persists
  <2>4. ASSUME NEW b \in Callers, IsLinking(b, k)' PROVE at'[b] = at[b]
    <3>1. at'[b].op = "link" /\ at'[b].key = k
      BY <2>4 DEF IsLinking
    <3>2. SUFFICES ASSUME RecordedBy(b) PROVE FALSE
      BY <3>1, FollowedStep, Stages DEF Followed
    <3>3. b \in Reporters
      <4>1. at[b].op = "record"
        BY <3>2 DEF RecordedBy
      <4> QED
        BY <4>1, TypedNow, OpsOfOthers DEF Callers, Reporters
    <3>4. PICK j \in Keys, g \in Nat, time \in Nat \ {0}, i \in DOMAIN incidents' :
            Records(b, j, g, time, i)
      BY <3>2, <3>3, Recording
    <3>5. at'[b].key = at[b].key
      BY <3>4 DEF Records
    <3> QED
      BY <1>3, <3>1, <3>2, <3>3, <3>5
  <2>5. LinkersStay(k)
    BY <2>3, <2>4 DEF LinkersStay, IsLinking
  <2> QED
    BY <1>1, <2>1, <2>2, <2>5, LinkedStays
<1> QED
  BY <1>2, <1>3

-----------------------------------------------------------------------------
(* What is well is closed *)

WellAt(k) ==
    \/ watch[k].phase \notin {"HEALTHY", "RECOVERED"}
    \/ \E c \in Callers : at[c].op \in {"record", "link"} /\ at[c].key = k
    \/ Cardinality(Open(k)) <= Reopened
    \/ /\ Cardinality(Open(k) \ {watch[k].incident}) <= Reopened
       /\ \E c \in Callers : at[c].op = "resolve" /\ at[c].incident = watch[k].incident

\* A success that is noted leaves open what it is about to resolve.
LEMMA NotedIsWell ==
  ASSUME TypeInv, [Next]_vars, Lossless', NEW c \in Reporters, Noted(c), NEW k \in Keys,
         at[c].key = k, LinkedAt(k), WellAt(k)
  PROVE  WellAt(k)'
<1>0. /\ c \in Callers /\ AtTyped /\ Queueing
      /\ \A i \in DOMAIN incidents : i # 0
  BY TypedNow, Documented, IncidentsTyped DEF Reporters
<1>1. PICK time \in Nat :
        /\ at[c].op = "note" /\ Moves(c)
        /\ watch'[k] = Succeeded(watch[k], time)
        /\ watch'[k].incident = watch[k].incident
        /\ UNCHANGED <<incidents, faults>>
        /\ Recovers(watch[k], time) /\ incidents[watch[k].incident].status # "RESOLVED" =>
             at'[c].op = "resolve" /\ at'[c].incident = watch[k].incident
  BY NotedWatch
<1>2. Open(k)' = Open(k) /\ Reopened' = Reopened
  BY <1>1 DEF Open, Reopened
<1>3. \A b \in Callers : b # c => at'[b] = at[b]
  BY <1>0, <1>1, MovesKeeps
<1>4. \A b \in Callers : at[b].op \in {"record", "link", "resolve"} => at'[b] = at[b] /\ b # c
  BY <1>1, <1>3
<1>5. SUFFICES ASSUME ~ \E b \in Callers : at'[b].op \in {"record", "link"} /\ at'[b].key = k
               PROVE  WellAt(k)'
  BY DEF WellAt
<1>6. ~ \E b \in Callers : at[b].op \in {"record", "link"} /\ at[b].key = k
  BY <1>4, <1>5
<1>7. Cardinality(Open(k) \ {watch[k].incident}) <= Reopened
  BY <1>6 DEF LinkedAt, IsLinking
<1>8. CASE watch[k].incident \notin Open(k)
  <2>1. Open(k) \ {watch[k].incident} = Open(k)
    BY <1>8
  <2>2. Cardinality(Open(k)') <= Reopened'
    BY <1>2, <1>7, <2>1
  <2> QED
    BY <2>2 DEF WellAt
<1>9. CASE watch[k].incident \in Open(k)
  <2>1. /\ watch[k].incident # 0
        /\ incidents[watch[k].incident].status # "RESOLVED"
    BY <1>0, <1>9 DEF Open, OpenOf
  <2>2. CASE Recovers(watch[k], time)
    <3>1. at'[c].op = "resolve" /\ at'[c].incident = watch'[k].incident
      BY <1>1, <2>1, <2>2
    <3>2. Cardinality(Open(k)' \ {watch'[k].incident}) <= Reopened'
      BY <1>1, <1>2, <1>7
    <3> QED
      BY <1>0, <3>1, <3>2 DEF WellAt
  <2>3. CASE ~ Recovers(watch[k], time)
    <3>1. Candidate(watch[k], time)
      BY <2>1, <2>3 DEF Recovers
    <3>2. watch[k] = NoWatch \/ watch[k] \in Watch
      BY TypedNow DEF WatchOK
    <3>3. watch'[k].phase = watch[k].phase
      BY <1>1, <2>1, <3>1, <3>2 DEF Succeeded, Watch, NoWatch
    <3>4. \/ watch'[k].phase \notin {"HEALTHY", "RECOVERED"}
          \/ Cardinality(Open(k)) <= Reopened
          \/ \E b \in Callers : at[b].op = "resolve" /\ at[b].incident = watch[k].incident
      BY <1>6, <3>3 DEF WellAt
    <3>5. CASE watch'[k].phase \notin {"HEALTHY", "RECOVERED"}
      BY <3>5 DEF WellAt
    <3>6. CASE Cardinality(Open(k)) <= Reopened
      <4>1. Cardinality(Open(k)') <= Reopened'
        BY <1>2, <3>6
      <4> QED
        BY <4>1 DEF WellAt
    <3>7. ASSUME NEW b \in Callers, at[b].op = "resolve", at[b].incident = watch[k].incident
          PROVE  WellAt(k)'
      <4>1. at'[b].op = "resolve" /\ at'[b].incident = watch'[k].incident
        BY <1>1, <1>4, <3>7
      <4>2. Cardinality(Open(k)' \ {watch'[k].incident}) <= Reopened'
        BY <1>1, <1>2, <1>7
      <4> QED
        BY <4>1, <4>2 DEF WellAt
    <3> QED
      BY <3>4, <3>5, <3>6, <3>7
  <2> QED
    BY <2>2, <2>3
<1> QED
  BY <1>8, <1>9

\* What is about to be resolved is resolved.
LEMMA ResolvedIsWell ==
  ASSUME TypeInv, TypeInv', NEW b \in Reporters, Resolved(b), NEW k \in Keys,
         at[b].incident = watch[k].incident,
         Cardinality(Open(k) \ {watch[k].incident}) <= Reopened
  PROVE  Cardinality(Open(k)') <= Reopened'
<1>1. PICK i : i = at[b].incident
  OBVIOUS
<1>2. /\ Relabels(incidents, incidents', i, "RESOLVED") /\ Continues(incidents, incidents')
      /\ UNCHANGED faults
  BY <1>1, ResolvedTypes DEF Reporters, Lasts, Resolved
<1>3. Open(k)' \subseteq Open(k) \ {i}
  BY <1>2 DEF Open, OpenOf, Relabels, Continues
<1>4. IsFiniteSet(Open(k) \ {i}) /\ Cardinality(Open(k) \ {i}) \in Nat /\ Reopened \in Nat
  BY OpenFinite
<1>5. Cardinality(Open(k)') <= Cardinality(Open(k) \ {i}) /\ Cardinality(Open(k)') \in Nat
  BY <1>3, <1>4, FS_Subset, FS_CardinalityType
<1>6. Reopened' = Reopened
  BY <1>2 DEF Reopened
<1> QED
  BY <1>1, <1>4, <1>5, <1>6

\* Every step keeps what is well closed, or about to be.
LEMMA WellIsClosedStep ==
  ASSUME TypeInv, TypeInv', Numbered, Numbered', LastIsOpen, LastIsOpen', LinkedIsOpen,
         WellIsClosed, [Next]_vars
  PROVE  WellIsClosed'
<1> SUFFICES ASSUME Lossless', NEW k \in Keys PROVE WellAt(k)'
  BY DEF WellIsClosed, WellAt
<1>1. LinkedAt(k) /\ WellAt(k)
  BY StillLossless DEF LinkedIsOpen, LinkedAt, WellIsClosed, WellAt
<1>2. ASSUME NEW c \in Reporters, at[c].key = k, RecordedBy(c) PROVE WellAt(k)'
  <2>1. at'[c].op = "link" /\ at'[c].key = k /\ c \in Callers
    BY <1>2, RecordedLinks, Documented DEF Reporters
  <2> QED
    BY <2>1 DEF WellAt
<1>3. ASSUME NEW c \in Reporters, at[c].key = k, Counted(c) \/ Linked(c) PROVE WellAt(k)'
  <2>1. watch'[k].phase \notin {"HEALTHY", "RECOVERED"}
    BY <1>3, CountedWatch, LinkedWatch
  <2> QED
    BY <2>1 DEF WellAt
<1>4. ASSUME NEW c \in Reporters, at[c].key = k, Noted(c) PROVE WellAt(k)'
  BY <1>1, <1>4, NotedIsWell
<1>5. CASE \A c \in Reporters : Counted(c) \/ RecordedBy(c) \/ Linked(c) \/ Noted(c) => at[c].key # k
  <2>1. OpenStays(k)
    BY <1>5, OpenElsewhere
  <2>2. watch'[k].incident = watch[k].incident /\ watch'[k].phase = watch[k].phase
    BY <1>5, WatchStep
  <2>3. CASE watch[k].phase \notin {"HEALTHY", "RECOVERED"}
    BY <2>2, <2>3 DEF WellAt
  <2>4. ASSUME NEW b \in Callers, at[b].op \in {"record", "link"}, at[b].key = k
        PROVE  WellAt(k)'
    <3>1. Resolved(b) => at[b].op = "resolve"
      BY DEF Resolved
    <3>2. at'[b] = at[b]
      BY <1>5, <2>4, <3>1, Persists
    <3> QED
      BY <2>4, <3>2 DEF WellAt
  <2>5. CASE Cardinality(Open(k)) <= Reopened
    <3>1. Open(k) \ {} = Open(k) /\ Open(k)' \ {} = Open(k)'
      OBVIOUS
    <3>2. Cardinality(Open(k)' \ {}) <= Reopened'
      BY <2>1, <2>5, <3>1 DEF OpenStays
    <3> QED
      BY <3>1, <3>2 DEF WellAt
  <2>6. ASSUME NEW b \in Callers, at[b].op = "resolve", at[b].incident = watch[k].incident,
               Cardinality(Open(k) \ {watch[k].incident}) <= Reopened
        PROVE  WellAt(k)'
    <3>1. CASE at'[b] = at[b]
      <4>1. Cardinality(Open(k)' \ {watch'[k].incident}) <= Reopened'
        BY <2>1, <2>2, <2>6 DEF OpenStays
      <4> QED
        BY <2>2, <2>6, <3>1, <4>1 DEF WellAt
    <3>2. CASE b \in Reporters /\ Resolved(b)
      <4>1. Cardinality(Open(k)') <= Reopened'
        BY <2>6, <3>2, ResolvedIsWell
      <4> QED
        BY <4>1 DEF WellAt
    <3>3. RecordedBy(b) \/ Linked(b) => at[b].op # "resolve"
      BY DEF RecordedBy, Linked
    <3> QED
      BY <2>6, <3>1, <3>2, <3>3, Persists
  <2> QED
    BY <1>1, <2>3, <2>4, <2>5, <2>6 DEF WellAt
<1> QED
  BY <1>2, <1>3, <1>4, <1>5

\* Every step keeps the invariants of the episodes.
LEMMA EpisodeStep ==
  ASSUME TypeInv, DispatchInv, EpisodeInv, [Next]_vars
  PROVE  EpisodeInv'
<1>1. TypeInv'
  BY TypeStep
<1>2. Numbered'
  BY NumberedStep DEF EpisodeInv
<1>3. LastIsOpen'
  BY <1>1, <1>2, LastIsOpenStep DEF EpisodeInv
<1>4. LinkedIsOpen'
  BY <1>1, <1>2, <1>3, LinkedIsOpenStep DEF EpisodeInv
<1>5. WellIsClosed'
  BY <1>1, <1>2, <1>3, WellIsClosedStep DEF EpisodeInv
<1> QED
  BY <1>2, <1>3, <1>4, <1>5 DEF EpisodeInv

\* There is no episode at first.
LEMMA EpisodeInit == Init => EpisodeInv
<1> SUFFICES ASSUME Init PROVE EpisodeInv
  OBVIOUS
<1>1. /\ incidents = <<>> /\ DOMAIN incidents = {} /\ faults = [k \in Kinds |-> 0]
      /\ at = [c \in Callers |-> Idle]
  BY DEF Init, EngineInit
<1>2. \A c \in Callers : at[c].op = "idle"
  BY <1>1 DEF Idle
<1>3. Numbered
  BY <1>1, <1>2 DEF Numbered
<1>4. Reopened = 0
  BY <1>1, KnownKinds DEF Reopened
<1>5. \A k \in Keys : \A X : /\ Cardinality(Open(k) \ X) <= Reopened
                            /\ Cardinality(Open(k)) <= Reopened
                            /\ Cardinality(Open(k)) <= Reopened + 1
  <2> SUFFICES ASSUME NEW k \in Keys, NEW X
               PROVE  Cardinality(Open(k) \ X) = 0 /\ Cardinality(Open(k)) = 0
    BY <1>4
  <2>1. Open(k) = {} /\ Open(k) \ X = {}
    BY <1>1 DEF Open, OpenOf
  <2> QED
    BY <2>1, FS_EmptySet
<1>6. LastIsOpen
  <2>1. \A i \in DOMAIN incidents : FALSE
    BY <1>1
  <2>2. \A c \in Callers : at[c].op # "record"
    BY <1>2
  <2> QED
    BY <1>5, <2>1, <2>2 DEF LastIsOpen
<1>7. LinkedIsOpen
  <2>1. \A k \in Keys : \A c \in Callers : ~ LastLinking(c, k)
    BY <1>2 DEF LastLinking, IsLinking
  <2> QED
    BY <1>5, <2>1 DEF LinkedIsOpen
<1>8. WellIsClosed
  BY <1>5 DEF WellIsClosed
<1> QED
  BY <1>3, <1>6, <1>7, <1>8 DEF EpisodeInv

\* A condition that is well has no open incident, but for those that a failed
\* write, a crash or a reopening explains (recordFailure, recordSuccess,
\* openIncident, closeIncident).
THEOREM WellIsAlwaysClosed == Spec => []WellMeansClosed
<1>1. TypeInv /\ DispatchInv /\ EpisodeInv /\ [Next]_vars => EpisodeInv'
  BY EpisodeStep
<1>2. TypeInv /\ EpisodeInv => WellMeansClosed
  <2> SUFFICES ASSUME TypeInv, EpisodeInv, NEW k \in Keys, Quiet(k),
                      watch[k].phase \in {"HEALTHY", "RECOVERED"}
               PROVE  Cardinality(Open(k))
                        <= faults["write"] + faults["crash"] + faults["reopen"]
    BY DEF WellMeansClosed, Open
  <2>1. /\ faults["write"] \in Nat /\ faults["crash"] \in Nat /\ faults["reopen"] \in Nat
        /\ Cardinality(Open(k)) \in Nat
    BY OpenFinite, KnownKinds DEF TypeInv, RestTyped
  <2>2. CASE ~ Lossless
    <3>1. Cardinality(Open(k)) <= faults["reopen"] + 1
      BY DEF EpisodeInv, LastIsOpen, Reopened
    <3> QED
      <4>1. faults["write"] # 0 \/ faults["crash"] # 0
        BY <2>2 DEF Lossless
      <4> QED
        BY <2>1, <3>1, <4>1
  <2>3. CASE Lossless
    <3>1. DOMAIN at = Callers
      BY TypedNow DEF AtTyped
    <3>2. ASSUME NEW c \in Callers, at[c].op = "resolve", at[c].incident = watch[k].incident
          PROVE  at[c].key = k
      <4>1. Names(at[c].incident, at[c].key)
        BY <3>2, TypedNow DEF StateOK
      <4>2. at[c].incident # 0
        BY <4>1, IncidentsTyped DEF Names
      <4>3. Names(watch[k].incident, k)
        BY <3>2, <4>2, TypedNow DEF WatchOK
      <4> QED
        BY <3>2, <4>1, <4>3 DEF Names
    <3>3. \A c \in Callers : at[c].op \in {"record", "link", "resolve"} => at[c].key # k
      BY <3>1 DEF Quiet
    <3>4. WellAt(k)
      BY <2>3 DEF EpisodeInv, WellIsClosed, WellAt
    <3>5. Cardinality(Open(k)) <= Reopened
      BY <3>2, <3>3, <3>4 DEF WellAt
    <3> QED
      BY <2>1, <3>5 DEF Reopened
  <2> QED
    BY <2>2, <2>3
<1> QED
  BY <1>1, <1>2, SafeAtLast, EpisodeInit, PTL DEF Spec
=============================================================================
