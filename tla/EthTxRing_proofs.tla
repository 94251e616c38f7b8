-------------------------- MODULE EthTxRing_proofs --------------------------
(***************************************************************************)
(* Proofs about the transmit ring, for every number of descriptors, every  *)
(* set of packets and every chain length.                                  *)
(***************************************************************************)
EXTENDS EthTxRing, FiniteSetTheorems, SequenceTheorems, NaturalsInduction, TLAPS

(***************************************************************************)
(* What a call of lowLevelOutput still has to fill fits what is free: the  *)
(* check at Ethernetif.cpp:193 pays for the whole loop.                    *)
(***************************************************************************)
RoomForOutput ==
    pc = "output" => /\ out.bufIndex <= ChainLen[out.pbuf]
                     /\ ChainLen[out.pbuf] - out.bufIndex <= 2 * sAvaliableSize

(***************************************************************************)
(* A descriptor in use is followed in the ring by the last one of its      *)
(* frame, whose mAppData0 names the pbuf, unless that is still to be filled.*)
(***************************************************************************)
Followed(i) ==
    \/ \E j \in InUse : Dist(j) >= Dist(i) /\ desc[j].app = desc[i].pbuf
    \/ Filling(desc[i].pbuf)

FramesClosed == \A i \in InUse : desc[i].pbuf \in Pbufs /\ Followed(i)

\* The inductive invariant.
IInv ==
    /\ TypeOK
    /\ RingConsistent
    /\ RoomForOutput
    /\ FramesClosed
    /\ RefsExact

-----------------------------------------------------------------------------
\* Filling the next descriptor adds exactly it to those in use.
LEMMA InUseGrows ==
    ASSUME TypeOK, RingConsistent, sAvaliableSize > 0,
           sAvailableIndex' = After(sAvailableIndex),
           sAvaliableSize' = sAvaliableSize - 1,
           sUnavailableTxDescIndex' = sUnavailableTxDescIndex
    PROVE  /\ sAvailableIndex \notin InUse
           /\ InUse' = InUse \cup {sAvailableIndex}
           /\ Dist(sAvailableIndex) = Used
           /\ \A i \in Index : Dist(i)' = Dist(i)
           /\ sAvailableIndex' \in Index
           /\ sAvaliableSize' \in 0 .. DescCount
           /\ sAvailableIndex' = Wrap(sUnavailableTxDescIndex + Used)'
  <1>1. Dist(sAvailableIndex) = Used
    BY DescCountAssumption DEF TypeOK, RingConsistent, Dist, Used, Wrap, Index
  <1>2. \A i \in Index : Dist(i)' = Dist(i)
    BY DEF Dist
  <1>3. \A i \in Index : Dist(i) = Used => i = sAvailableIndex
    BY <1>1, DescCountAssumption DEF TypeOK, Dist, Index
  <1>4. \A i \in Index : Dist(i) \in Int
    BY DescCountAssumption DEF TypeOK, Dist, Index
  <1>5. Used \in Int /\ Used' = Used + 1
    BY DescCountAssumption DEF TypeOK, Used
  <1>6. sAvailableIndex \in Index /\ Index' = Index
    BY DEF TypeOK, Index
  <1>7. InUse' = InUse \cup {sAvailableIndex}
    <2>1. \A i \in Index : (Dist(i) < Used + 1) <=> (Dist(i) < Used \/ i = sAvailableIndex)
      BY <1>1, <1>3, <1>4, <1>5
    <2>2. InUse' = {i \in Index : Dist(i) < Used + 1}
      BY <1>2, <1>5, <1>6 DEF InUse
    <2> QED
      BY <2>1, <2>2, <1>6 DEF InUse
  <1>8. sAvailableIndex \notin InUse
    BY <1>1, <1>5 DEF InUse
  <1>9. sAvailableIndex' \in Index /\ sAvaliableSize' \in 0 .. DescCount
    BY DescCountAssumption DEF TypeOK, After, Index
  <1>10. sAvailableIndex' = Wrap(sUnavailableTxDescIndex + Used)'
    BY DescCountAssumption DEF TypeOK, RingConsistent, Wrap, Used, After, Index
  <1> QED
    BY <1>1, <1>2, <1>7, <1>8, <1>9, <1>10

\* Taking back the oldest descriptor removes exactly it from those in use.
LEMMA InUseShrinks ==
    ASSUME TypeOK, RingConsistent,
           sAvailableIndex # sUnavailableTxDescIndex
               \/ sAvaliableSize < DescCount,
           sAvailableIndex' = sAvailableIndex,
           sAvaliableSize' = sAvaliableSize + 1,
           sUnavailableTxDescIndex' = After(sUnavailableTxDescIndex)
    PROVE  /\ sUnavailableTxDescIndex \in InUse
           /\ InUse' = InUse \ {sUnavailableTxDescIndex}
           /\ \A i \in Index \ {sUnavailableTxDescIndex} : Dist(i)' = Dist(i) - 1
           /\ \A i \in Index : Dist(i) \in Nat
           /\ Dist(sUnavailableTxDescIndex) = 0
           /\ sUnavailableTxDescIndex' \in Index
           /\ sAvaliableSize' \in 0 .. DescCount
           /\ sAvailableIndex' = Wrap(sUnavailableTxDescIndex + Used)'
  <1> DEFINE u == sUnavailableTxDescIndex
  <1>1. sAvaliableSize < DescCount
    BY DescCountAssumption DEF TypeOK, RingConsistent, Wrap, Used, Index
  <1>2. Used \in Int /\ Used > 0 /\ Used' = Used - 1 /\ Used <= DescCount
    BY <1>1, DescCountAssumption DEF TypeOK, Used
  <1>3. \A i \in Index : Dist(i) \in Nat
    BY DescCountAssumption DEF TypeOK, Dist, Index
  <1>4. u \in Index /\ Dist(u) = 0 /\ Index' = Index
    BY DescCountAssumption DEF TypeOK, Dist, Index
  <1>5. \A i \in Index \ {u} : Dist(i)' = Dist(i) - 1
    BY DescCountAssumption DEF TypeOK, Dist, Index, After
  <1>6. \A i \in Index : i = u => Dist(i)' = DescCount - 1
    BY DescCountAssumption DEF TypeOK, Dist, Index, After
  <1>7. u \in InUse
    BY <1>2, <1>4 DEF InUse
  <1>8. InUse' = InUse \ {u}
    <2>1. \A i \in Index \ {u} : (Dist(i)' < Used') <=> (Dist(i) < Used)
      BY <1>2, <1>3, <1>5
    <2>2. \A i \in Index : i = u => ~(Dist(i)' < Used')
      BY <1>2, <1>6, DescCountAssumption
    <2>3. InUse' = {i \in Index : Dist(i)' < Used'}
      BY DEF InUse, Index
    <2> QED
      BY <2>1, <2>2, <2>3, <1>4 DEF InUse
  <1>9. sUnavailableTxDescIndex' \in Index /\ sAvaliableSize' \in 0 .. DescCount
    BY <1>1, DescCountAssumption DEF TypeOK, After, Index
  <1>10. sAvailableIndex' = Wrap(sUnavailableTxDescIndex + Used)'
    BY <1>1, DescCountAssumption DEF TypeOK, RingConsistent, Wrap, Used, After, Index
  <1> QED
    BY <1>3, <1>4, <1>5, <1>7, <1>8, <1>9, <1>10

\* The descriptors in use whose mAppData0 is p are finitely many.
LEMMA InUseFinite ==
    ASSUME NEW p
    PROVE  /\ IsFiniteSet(Ends(p))
           /\ Cardinality(Ends(p)) \in Nat
  <1>1. IsFiniteSet(Index)
    BY FS_Interval, DescCountAssumption DEF Index
  <1>2. Ends(p) \subseteq Index
    BY DEF Ends, InUse
  <1> QED
    BY <1>1, <1>2, FS_Subset, FS_CardinalityType
\* Steps that leave the counters, the references and what the descriptors hold
\* alone, and give no descriptor to the DMA, preserve the ring's invariants.
LEMMA QuietStep ==
    ASSUME TypeOK, RingConsistent, FramesClosed, RefsExact,
           UNCHANGED <<sAvailableIndex, sAvaliableSize, sUnavailableTxDescIndex, ref>>,
           \A p \in Pbufs : Filling(p)' <=> Filling(p),
           \A i \in Index : /\ desc'[i].app = desc[i].app
                            /\ desc'[i].pbuf = desc[i].pbuf
                            /\ desc'[i].own => desc[i].own
    PROVE  RingConsistent' /\ FramesClosed' /\ RefsExact'
  <1>1. /\ Index' = Index /\ Used' = Used /\ InUse' = InUse
        /\ \A i \in Index : Dist(i)' = Dist(i)
    BY DEF Index, Used, InUse, Dist
  <1>2. InUse \subseteq Index
    BY DEF InUse
  <1>3. RingConsistent'
    BY <1>1 DEF RingConsistent, Wrap
  <1>4. FramesClosed'
    <2> SUFFICES ASSUME NEW i \in InUse
                 PROVE  desc'[i].pbuf \in Pbufs /\ Followed(i)'
      BY <1>1 DEF FramesClosed
    <2>1. desc[i].pbuf \in Pbufs /\ desc'[i].pbuf = desc[i].pbuf /\ Followed(i)
      BY <1>2 DEF FramesClosed
    <2>2. CASE Filling(desc[i].pbuf)
      BY <2>1, <2>2 DEF Followed
    <2>3. CASE \E j \in InUse : Dist(j) >= Dist(i) /\ desc[j].app = desc[i].pbuf
      BY <1>1, <1>2, <2>1, <2>3 DEF Followed
    <2> QED
      BY <2>1, <2>2, <2>3 DEF Followed
  <1>5. RefsExact'
    <2> SUFFICES ASSUME NEW p \in Pbufs
                 PROVE  ref'[p] = Cardinality(Ends(p)') + (IF Filling(p)' THEN 1 ELSE 0)
      BY DEF RefsExact
    <2>1. Ends(p)' = Ends(p)
      BY <1>1, <1>2 DEF Ends
    <2> QED
      BY <2>1 DEF RefsExact
  <1> QED
    BY <1>3, <1>4, <1>5

-----------------------------------------------------------------------------
\* The empty ring satisfies the invariant.
LEMMA InitInv == Init => IInv
  <1> SUFFICES ASSUME Init
               PROVE  IInv
    OBVIOUS
  <1>1. TypeOK
    <2>1. EmptyDescriptor \in Descriptor
      BY DEF Descriptor, EmptyDescriptor
    <2>2. 0 \in Index /\ DescCount \in 0 .. DescCount
      BY DescCountAssumption DEF Index
    <2> QED
      BY <2>1, <2>2 DEF Init, TypeOK
  <1>2. InUse = {}
    BY DescCountAssumption DEF Init, InUse, Used, Dist, Index
  <1>3. RingConsistent
    BY DescCountAssumption
    DEF Init, RingConsistent, Used, Wrap, Index, EmptyDescriptor
  <1>4. RoomForOutput
    BY DEF Init, RoomForOutput
  <1>5. FramesClosed
    BY <1>2 DEF FramesClosed
  <1>6. RefsExact
    <2> SUFFICES ASSUME NEW p \in Pbufs
                 PROVE  ref[p] = Cardinality(Ends(p)) + (IF Filling(p) THEN 1 ELSE 0)
      BY DEF RefsExact
    <2>1. Ends(p) = {}
      BY <1>2 DEF Ends
    <2>2. Cardinality(Ends(p)) = 0
      BY <2>1, FS_EmptySet
    <2> QED
      BY <2>2 DEF Init, Filling
  <1> QED
    BY <1>1, <1>3, <1>4, <1>5, <1>6 DEF IInv

\* The driver's thread takes a reference and starts to fill the ring.
LEMMA BeginOutputInv ==
    ASSUME IInv, NEW q \in Pbufs, BeginOutput(q)
    PROVE  IInv'
  <1> USE DEF IInv
  <1>1. /\ ref' = [ref EXCEPT ![q] = @ + 1] /\ out' = [pbuf |-> q, bufIndex |-> 0]
        /\ pc = "idle" /\ pc' = "output" /\ Fits(q)
        /\ UNCHANGED <<desc, sAvailableIndex, sAvaliableSize, sUnavailableTxDescIndex>>
        /\ UNCHANGED <<result, started, tail, dma, dmaRun>>
    BY DEF BeginOutput, ring, hardware
  <1>2. TypeOK'
    BY <1>1 DEF TypeOK, Index
  <1>3. \A p \in Pbufs : ~Filling(p)
    BY <1>1 DEF Filling
  <1>4. \A p \in Pbufs : Filling(p)' <=> p = q
    BY <1>1, ChainLenAssumption DEF Filling
  <1>5. /\ Index' = Index /\ Used' = Used /\ InUse' = InUse
        /\ \A i \in Index : Dist(i)' = Dist(i)
    BY <1>1 DEF Index, Used, InUse, Dist
  <1>6. RingConsistent'
    BY <1>1, <1>5 DEF RingConsistent, Wrap
  <1>7. RoomForOutput'
    BY <1>1, ChainLenAssumption DEF RoomForOutput, Fits
  <1>8. FramesClosed'
    BY <1>1, <1>3, <1>5 DEF FramesClosed, Followed, InUse
  <1>9. RefsExact'
    <2> SUFFICES ASSUME NEW p \in Pbufs
                 PROVE  ref'[p] = Cardinality(Ends(p)') + (IF Filling(p)' THEN 1 ELSE 0)
      BY DEF RefsExact
    <2>1. Ends(p)' = Ends(p)
      BY <1>1, <1>5 DEF Ends
    <2>2. ref[p] = Cardinality(Ends(p))
      BY <1>3, InUseFinite DEF RefsExact
    <2> QED
      BY <1>1, <1>4, <2>1, <2>2 DEF TypeOK
  <1> QED
    BY <1>2, <1>6, <1>7, <1>8, <1>9
\* One iteration of the loop of lowLevelOutput.
LEMMA FillDescriptorInv ==
    ASSUME IInv, FillDescriptor
    PROVE  IInv'
  <1> USE DEF IInv
  <1> DEFINE a == sAvailableIndex
             q == out.pbuf
             n == IF out.bufIndex + 1 < ChainLen[q] THEN 2 ELSE 1
             last == out.bufIndex + n = ChainLen[q]
             d == Filled(desc[a], q, out.bufIndex)
  <1>1. /\ pc = "output" /\ pc' = "output"
        /\ q \in Pbufs /\ a \in Index
        /\ out.bufIndex \in Nat /\ ChainLen[q] \in Nat
        /\ out.bufIndex < ChainLen[q]
    BY ChainLenAssumption DEF FillDescriptor, TypeOK
  <1>2. /\ d.own = TRUE /\ d.pbuf = q /\ d.count = n
        /\ d.app = IF last THEN q ELSE NoPbuf
    BY DEF Filled
  <1>3. d \in Descriptor
    BY <1>1 DEF TypeOK, Filled, Descriptor
  <1>4. /\ desc' = [desc EXCEPT ![a] = d]
        /\ out' = [out EXCEPT !.bufIndex = @ + n]
        /\ sAvailableIndex' = After(a) /\ sAvaliableSize' = sAvaliableSize - 1
        /\ UNCHANGED <<sUnavailableTxDescIndex, ref>>
        /\ UNCHANGED <<result, started, tail, dma, dmaRun>>
    BY <1>2 DEF FillDescriptor, hardware
  <1>5. sAvaliableSize > 0
    BY <1>1 DEF RoomForOutput, TypeOK
  <1>6. /\ a \notin InUse
        /\ InUse' = InUse \cup {a}
        /\ Dist(a) = Used
        /\ \A i \in Index : Dist(i)' = Dist(i)
        /\ sAvailableIndex' \in Index
        /\ sAvaliableSize' \in 0 .. DescCount
        /\ sAvailableIndex' = Wrap(sUnavailableTxDescIndex + Used)'
    BY <1>4, <1>5, InUseGrows
  <1>7. InUse \subseteq Index /\ Index' = Index
    BY DEF InUse, Index
  <1>8. /\ desc'[a] = d
        /\ \A i \in InUse : desc'[i] = desc[i]
        /\ \A i \in Index \ {a} : desc'[i] = desc[i]
    BY <1>1, <1>4, <1>6, <1>7 DEF TypeOK
  <1>9. out'.pbuf = q /\ out'.bufIndex = out.bufIndex + n
    BY <1>4 DEF TypeOK
  <1>10. TypeOK'
    <2>1. desc' \in [Index -> Descriptor]
      BY <1>1, <1>3, <1>4 DEF TypeOK
    <2>2. out' \in [pbuf: Pbufs \cup {NoPbuf}, bufIndex: Nat]
      BY <1>1, <1>4 DEF TypeOK
    <2> QED
      BY <1>1, <1>4, <1>6, <1>7, <1>9, <2>1, <2>2 DEF TypeOK
  <1>11. \A p \in Pbufs : Filling(p)' <=> p = q /\ ~last
    BY <1>1, <1>9 DEF Filling
  <1>12. RingConsistent'
    BY <1>1, <1>6, <1>7, <1>8 DEF RingConsistent
  <1>13. RoomForOutput'
    BY <1>1, <1>4, <1>5, <1>9 DEF RoomForOutput, TypeOK
  <1>14. FramesClosed'
    <2> SUFFICES ASSUME NEW i \in InUse'
                 PROVE  desc'[i].pbuf \in Pbufs /\ Followed(i)'
      BY DEF FramesClosed
    <2>1. CASE i = a
      <3>1. desc'[i].pbuf = q
        BY <1>2, <1>8, <2>1
      <3>2. CASE last
        <4>1. desc'[i].app = q
          BY <1>2, <1>8, <2>1, <3>2
        <4>2. i \in Index /\ Dist(i)' >= Dist(i)'
          BY <1>1, <1>6, <2>1, DescCountAssumption DEF TypeOK, Index, Dist
        <4> QED
          BY <1>1, <3>1, <4>1, <4>2 DEF Followed
      <3>3. CASE ~last
        BY <1>1, <1>11, <3>1, <3>3 DEF Followed
      <3> QED
        BY <3>2, <3>3
    <2>2. CASE i \in InUse
      <3>1. desc'[i] = desc[i] /\ desc[i].pbuf \in Pbufs /\ Followed(i)
        BY <1>8, <2>2 DEF FramesClosed
      <3>2. CASE Filling(desc[i].pbuf) /\ last
        <4>1. desc[i].pbuf = q
          BY <3>2 DEF Filling
        <4>2. a \in InUse' /\ desc'[a].app = desc'[i].pbuf
          BY <1>2, <1>6, <1>8, <3>1, <3>2, <4>1
        <4>3. \A j \in Index : j = a => Dist(j)' >= Dist(i)'
          <5>1. Dist(a) >= Dist(i)
            BY <1>1, <1>6, <2>2, DescCountAssumption
            DEF InUse, Dist, TypeOK, Used, Index
          <5> QED
            BY <1>6, <1>7, <2>2, <5>1
        <4>4. \E j \in InUse' : Dist(j)' >= Dist(i)' /\ desc'[j].app = desc'[i].pbuf
          BY <1>1, <4>2, <4>3
        <4> QED
          BY <3>1, <4>4 DEF Followed
      <3>3. CASE Filling(desc[i].pbuf) /\ ~last
        BY <1>11, <3>1, <3>3 DEF Followed, Filling
      <3>4. CASE \E j \in InUse : Dist(j) >= Dist(i) /\ desc[j].app = desc[i].pbuf
        <4>1. PICK j \in InUse : Dist(j) >= Dist(i) /\ desc[j].app = desc[i].pbuf
          BY <3>4
        <4>2. j \in InUse' /\ desc'[j].app = desc'[i].pbuf /\ Dist(j)' >= Dist(i)'
          BY <1>6, <1>7, <1>8, <2>2, <3>1, <4>1
        <4> QED
          BY <3>1, <4>2 DEF Followed
      <3> QED
        BY <3>1, <3>2, <3>3, <3>4 DEF Followed
    <2> QED
      BY <1>6, <2>1, <2>2
  <1>15. RefsExact'
    <2> SUFFICES ASSUME NEW p \in Pbufs
                 PROVE  ref'[p] = Cardinality(Ends(p)') + (IF Filling(p)' THEN 1 ELSE 0)
      BY DEF RefsExact
    <2>1. ref[p] = Cardinality(Ends(p)) + (IF Filling(p) THEN 1 ELSE 0) /\ ref' = ref
      BY <1>4 DEF RefsExact
    <2>2. Filling(p) <=> p = q
      BY <1>1 DEF Filling
    <2>3. Cardinality(Ends(p)) \in Nat /\ IsFiniteSet(Ends(p))
      BY InUseFinite
    <2>4. CASE p = q /\ last
      <3>1. Ends(p)' = Ends(p) \cup {a} /\ a \notin Ends(p)
        BY <1>2, <1>6, <1>8, <2>4 DEF Ends
      <3>2. Cardinality(Ends(p)') = Cardinality(Ends(p)) + 1
        BY <2>3, <3>1, FS_AddElement
      <3> QED
        BY <1>11, <2>1, <2>2, <2>3, <2>4, <3>2
    <2>5. CASE ~(p = q /\ last)
      <3>1. desc'[a].app # p
        BY <1>2, <1>8, <2>5, PbufsAssumption
      <3>2. Ends(p)' = Ends(p)
        BY <1>6, <1>8, <3>1 DEF Ends
      <3> QED
        BY <1>11, <2>1, <2>2, <2>5, <3>2
    <2> QED
      BY <2>4, <2>5
  <1> QED
    BY <1>10, <1>12, <1>13, <1>14, <1>15
\* One iteration of the loop of releaseTxBuffers.
LEMMA ReleaseDescriptorInv ==
    ASSUME IInv, ReleaseDescriptor
    PROVE  IInv'
  <1> USE DEF IInv
  <1> DEFINE u == sUnavailableTxDescIndex
             q == desc[u].app
  <1>1. /\ pc = "release" /\ pc' = pc /\ ~desc[u].own
        /\ sAvailableIndex # u
        /\ ref' = (IF q = NoPbuf THEN ref ELSE [ref EXCEPT ![q] = @ - 1])
        /\ sAvaliableSize' = sAvaliableSize + 1
        /\ sUnavailableTxDescIndex' = After(u)
        /\ UNCHANGED <<desc, sAvailableIndex, out, result, started, tail, dma, dmaRun>>
    BY DEF ReleaseDescriptor, NothingToRelease, hardware
  <1>2. /\ u \in InUse
        /\ InUse' = InUse \ {u}
        /\ \A i \in Index \ {u} : Dist(i)' = Dist(i) - 1
        /\ \A i \in Index : Dist(i) \in Nat
        /\ Dist(u) = 0
        /\ sUnavailableTxDescIndex' \in Index
        /\ sAvaliableSize' \in 0 .. DescCount
        /\ sAvailableIndex' = Wrap(sUnavailableTxDescIndex + Used)'
    BY <1>1, InUseShrinks
  <1>3. InUse \subseteq Index /\ Index' = Index /\ u \in Index
    BY <1>2 DEF InUse, Index
  <1>4. q \in Pbufs \cup {NoPbuf}
    BY <1>3 DEF TypeOK, Descriptor
  <1>5. \A p \in Pbufs : ~Filling(p) /\ ~Filling(p)'
    BY <1>1 DEF Filling
  <1>6. \A p \in Pbufs : ref[p] = Cardinality(Ends(p))
    BY <1>5, InUseFinite DEF RefsExact
  <1>7. \A p \in Pbufs : ref'[p] = Cardinality(Ends(p)')
    <2> SUFFICES ASSUME NEW p \in Pbufs
                 PROVE  ref'[p] = Cardinality(Ends(p)')
      OBVIOUS
    <2>1. CASE p = q
      <3>1. u \in Ends(p) /\ Ends(p)' = Ends(p) \ {u}
        BY <1>1, <1>2, <2>1 DEF Ends
      <3>2. Cardinality(Ends(p)') = Cardinality(Ends(p)) - 1
        BY <3>1, InUseFinite, FS_RemoveElement
      <3>3. ref'[p] = ref[p] - 1
        BY <1>1, <2>1, PbufsAssumption DEF TypeOK
      <3> QED
        BY <1>6, <3>2, <3>3
    <2>2. CASE p # q
      <3>1. Ends(p)' = Ends(p)
        BY <1>1, <1>2, <2>2 DEF Ends
      <3>2. ref'[p] = ref[p]
        BY <1>1, <1>4, <2>2 DEF TypeOK
      <3> QED
        BY <1>6, <3>1, <3>2
    <2> QED
      BY <2>1, <2>2
  <1>8. ref' \in [Pbufs -> Nat]
    <2>1. \A p \in Pbufs : Cardinality(Ends(p)') \in Nat
      <3> SUFFICES ASSUME NEW p \in Pbufs
                   PROVE  Cardinality(Ends(p)') \in Nat
        OBVIOUS
      <3>1. Ends(p)' \subseteq Ends(p)
        BY <1>1, <1>2 DEF Ends
      <3> QED
        BY <3>1, InUseFinite, FS_Subset, FS_CardinalityType
    <2>2. ref' = [p \in Pbufs |-> ref'[p]]
      BY <1>1 DEF TypeOK
    <2> QED
      BY <1>7, <2>1, <2>2
  <1>9. TypeOK'
    BY <1>1, <1>2, <1>3, <1>8 DEF TypeOK
  <1>10. RingConsistent'
    BY <1>1, <1>2, <1>3 DEF RingConsistent
  <1>11. RoomForOutput'
    BY <1>1 DEF RoomForOutput
  <1>12. FramesClosed'
    <2> SUFFICES ASSUME NEW i \in InUse'
                 PROVE  desc'[i].pbuf \in Pbufs /\ Followed(i)'
      BY DEF FramesClosed
    <2>1. i \in InUse /\ i # u /\ desc' = desc
      BY <1>1, <1>2
    <2>2. Dist(i) > 0
      BY <1>2, <1>3, <2>1, DescCountAssumption DEF Dist, Index
    <2>3. desc[i].pbuf \in Pbufs /\ Followed(i)
      BY <2>1 DEF FramesClosed
    <2>4. PICK j \in InUse : Dist(j) >= Dist(i) /\ desc[j].app = desc[i].pbuf
      BY <1>5, <2>3 DEF Followed
    <2>5. j \in InUse' /\ Dist(j)' >= Dist(i)'
      BY <1>2, <1>3, <2>1, <2>2, <2>4
    <2> QED
      BY <2>1, <2>3, <2>4, <2>5 DEF Followed
  <1>13. RefsExact'
    <2> SUFFICES ASSUME NEW p \in Pbufs
                 PROVE  ref'[p] = Cardinality(Ends(p)') + (IF Filling(p)' THEN 1 ELSE 0)
      BY DEF RefsExact
    <2>1. ref'[p] \in Nat /\ ref'[p] = Cardinality(Ends(p)') /\ ~Filling(p)'
      BY <1>5, <1>7, <1>8
    <2> QED
      BY <2>1
  <1> QED
    BY <1>9, <1>10, <1>11, <1>12, <1>13

\* The DMA takes a descriptor, sends it and hands it back.
LEMMA DmaTransmitInv ==
    ASSUME IInv, DmaTransmit
    PROVE  IInv'
  <1> USE DEF IInv
  <1>1. /\ UNCHANGED <<sAvailableIndex, sAvaliableSize, sUnavailableTxDescIndex, ref>>
        /\ UNCHANGED <<pc, out, result, started, tail>>
        /\ dma' = After(dma) /\ dmaRun' = (After(dma) # tail)
        /\ desc' = [desc EXCEPT ![dma].own = FALSE,
                                ![dma].fd = @ /\ WritebackKeepsFlags,
                                ![dma].ld = @ /\ WritebackKeepsFlags]
    BY DEF DmaTransmit
  <1>2. desc' \in [Index -> Descriptor]
    <2> SUFFICES ASSUME NEW i \in Index
                 PROVE  desc'[i] \in Descriptor
      BY <1>1 DEF TypeOK
    <2>1. desc[i] \in Descriptor
      BY DEF TypeOK
    <2>2. CASE i # dma
      BY <1>1, <2>1, <2>2 DEF TypeOK
    <2>3. CASE i = dma
      <3>1. desc'[i] = [desc[i] EXCEPT !.own = FALSE,
                                       !.fd = @ /\ WritebackKeepsFlags,
                                       !.ld = @ /\ WritebackKeepsFlags]
        BY <1>1, <2>1, <2>3 DEF TypeOK, Descriptor
      <3>2. /\ (desc[i].fd /\ WritebackKeepsFlags) \in BOOLEAN
            /\ (desc[i].ld /\ WritebackKeepsFlags) \in BOOLEAN
        OBVIOUS
      <3>3. \A b, c \in BOOLEAN :
               [desc[i] EXCEPT !.own = FALSE, !.fd = b, !.ld = c] \in Descriptor
        BY <2>1 DEF Descriptor
      <3> QED
        BY <3>1, <3>2, <3>3
    <2> QED
      BY <2>2, <2>3
  <1>3. \A i \in Index : /\ desc'[i].app = desc[i].app
                         /\ desc'[i].pbuf = desc[i].pbuf
                         /\ desc'[i].own => desc[i].own
    BY <1>1 DEF TypeOK, Descriptor
  <1>4. dma' \in Index
    BY <1>1, DescCountAssumption DEF TypeOK, After, Index
  <1>5. TypeOK'
    BY <1>1, <1>2, <1>4 DEF TypeOK, Index
  <1>6. RoomForOutput'
    BY <1>1 DEF RoomForOutput
  <1>7. \A p \in Pbufs : Filling(p)' <=> Filling(p)
    BY <1>1 DEF Filling
  <1>8. RingConsistent' /\ FramesClosed' /\ RefsExact'
    BY <1>1, <1>3, <1>7, QuietStep
  <1> QED
    BY <1>5, <1>6, <1>8

\* The steps that leave the descriptors as they are.
LEMMA OtherStepsInv ==
    ASSUME IInv,
           \/ \E p \in Pbufs : RefuseOutput(p)
           \/ Doorbell
           \/ BeginRelease
           \/ EndRelease
           \/ LinkUp
           \/ LinkDown
           \/ DmaSuspend
           \/ UNCHANGED vars
    PROVE  IInv'
  <1> USE DEF IInv
  <1>1. UNCHANGED <<desc, sAvailableIndex, sAvaliableSize, sUnavailableTxDescIndex, ref>>
    BY DEF RefuseOutput, Doorbell, BeginRelease, EndRelease, LinkUp, LinkDown,
           DmaSuspend, vars, ring
  <1>2. Kick(tail) \/ Kick(sAvailableIndex) \/ dmaRun' = FALSE \/ dmaRun' = dmaRun
    BY DEF RefuseOutput, Doorbell, BeginRelease, EndRelease, LinkUp, LinkDown,
           DmaSuspend, vars, hardware
  <1>3. dmaRun' \in BOOLEAN
    BY <1>2, HardwareAssumption DEF Kick, TypeOK
  <1>4. CASE Doorbell
    <2>1. /\ pc = "output" /\ out.bufIndex = ChainLen[out.pbuf]
          /\ pc' = "idle" /\ out' = [pbuf |-> NoPbuf, bufIndex |-> 0]
          /\ result' = [pbuf |-> out.pbuf, err |-> "ERR_OK"]
          /\ tail' = sAvailableIndex /\ started' = started /\ dma' = dma
      BY <1>4 DEF Doorbell
    <2>2. TypeOK'
      BY <1>1, <1>3, <2>1 DEF TypeOK, Index
    <2>3. \A p \in Pbufs : ~Filling(p) /\ ~Filling(p)'
      BY <2>1, ChainLenAssumption DEF Filling, TypeOK
    <2>4. RingConsistent' /\ FramesClosed' /\ RefsExact'
      BY <1>1, <2>3, QuietStep
    <2> QED
      BY <2>1, <2>2, <2>4 DEF RoomForOutput
  <1>5. CASE ~Doorbell
    <2>1. UNCHANGED <<out, tail, dma>>
      BY <1>5 DEF RefuseOutput, BeginRelease, EndRelease, LinkUp, LinkDown,
                  DmaSuspend, vars, hardware
    <2>2. /\ result' \in [pbuf: Pbufs \cup {NoPbuf}, err: {"ERR_OK", "ERR_IF"}]
          /\ started' \in BOOLEAN
      <3>1. CASE \E p \in Pbufs : RefuseOutput(p)
        BY <3>1 DEF RefuseOutput, TypeOK, hardware
      <3>2. CASE ~\E p \in Pbufs : RefuseOutput(p)
        BY <1>5, <3>2 DEF TypeOK, BeginRelease, EndRelease, LinkUp, LinkDown,
                          DmaSuspend, vars, hardware
      <3> QED
        BY <3>1, <3>2
    <2>3. pc' \in {"idle", "output", "release"} /\ (pc' = "output" <=> pc = "output")
      BY <1>5 DEF TypeOK, RefuseOutput, BeginRelease, EndRelease, LinkUp, LinkDown,
                  DmaSuspend, vars
    <2>4. TypeOK'
      BY <1>1, <1>3, <2>1, <2>2, <2>3 DEF TypeOK, Index
    <2>5. RoomForOutput'
      BY <1>1, <2>1, <2>3 DEF RoomForOutput
    <2>6. \A p \in Pbufs : Filling(p)' <=> Filling(p)
      BY <2>1, <2>3 DEF Filling
    <2>7. RingConsistent' /\ FramesClosed' /\ RefsExact'
      BY <1>1, <2>6, QuietStep
    <2> QED
      BY <2>4, <2>5, <2>7
  <1> QED
    BY <1>4, <1>5

-----------------------------------------------------------------------------
\* The invariant is inductive.
THEOREM Inductive == Spec => []IInv
  <1>1. Init => IInv
    BY InitInv
  <1>2. IInv /\ [Next]_vars => IInv'
    <2> SUFFICES ASSUME IInv, [Next]_vars
                 PROVE  IInv'
      OBVIOUS
    <2>1. ASSUME NEW p \in Pbufs, BeginOutput(p) PROVE IInv'
      BY <2>1, BeginOutputInv
    <2>2. CASE FillDescriptor
      BY <2>2, FillDescriptorInv
    <2>3. CASE ReleaseDescriptor
      BY <2>3, ReleaseDescriptorInv
    <2>4. CASE DmaTransmit
      BY <2>4, DmaTransmitInv
    <2>5. CASE \/ \E p \in Pbufs : RefuseOutput(p)
               \/ Doorbell \/ BeginRelease \/ EndRelease
               \/ LinkUp \/ LinkDown \/ DmaSuspend \/ UNCHANGED vars
      BY <2>5, OtherStepsInv
    <2> QED
      BY <2>1, <2>2, <2>3, <2>4, <2>5 DEF Next, Output, Driver
  <1> QED
    BY <1>1, <1>2, PTL DEF Spec
\* TypeOK holds in every reachable state.
THEOREM TypeCorrect == Spec => []TypeOK
  <1>1. IInv => TypeOK
    BY DEF IInv
  <1> QED
    BY <1>1, Inductive, PTL

\* The counters of Ethernetif.cpp:63-70 always agree with each other, and the
\* DMA owns only descriptors they count as in use.
THEOREM CountersAgree == Spec => []RingConsistent
  <1>1. IInv => RingConsistent
    BY DEF IInv
  <1> QED
    BY <1>1, Inductive, PTL

\* The references lowLevelOutput takes and releaseTxBuffers drops are exact.
THEOREM ReferencesExact == Spec => []RefsExact
  <1>1. IInv => RefsExact
    BY DEF IInv
  <1> QED
    BY <1>1, Inductive, PTL

\* The DMA never owns a descriptor whose packet buffer the driver let go.
THEOREM DmaReadsHeldBuffers == Spec => []NoUseAfterFree
  <1>1. IInv => NoUseAfterFree
    <2> SUFFICES ASSUME IInv, NEW i \in Index, desc[i].own
                 PROVE  desc[i].pbuf \in Pbufs /\ ref[desc[i].pbuf] > 0
      BY DEF NoUseAfterFree
    <2> DEFINE p == desc[i].pbuf
    <2>1. i \in InUse /\ p \in Pbufs /\ Followed(i)
      BY DEF IInv, RingConsistent, FramesClosed
    <2>2. ref[p] = Cardinality(Ends(p)) + (IF Filling(p) THEN 1 ELSE 0)
      BY <2>1 DEF IInv, RefsExact
    <2>3. Cardinality(Ends(p)) \in Nat /\ IsFiniteSet(Ends(p))
      BY InUseFinite
    <2>4. CASE Filling(p)
      BY <2>1, <2>2, <2>3, <2>4
    <2>5. CASE \E j \in InUse : Dist(j) >= Dist(i) /\ desc[j].app = p
      <3>1. Ends(p) # {}
        BY <2>5 DEF Ends
      <3>2. Cardinality(Ends(p)) # 0
        BY <2>3, <3>1, FS_EmptySet
      <3> QED
        BY <2>1, <2>2, <2>3, <3>2
    <2> QED
      BY <2>1, <2>4, <2>5 DEF Followed
  <1> QED
    BY <1>1, Inductive, PTL

\* No step of the driver rewrites a descriptor in use, and only the DMA's own
\* write-back takes the OWN bit away.
THEOREM InUseNotRewritten == Spec => NoOverwrite
  <1>1. IInv /\ [Next]_vars => [InUseUntouched]_vars
    <2> SUFFICES ASSUME IInv, Next
                 PROVE  InUseUntouched
      OBVIOUS
    <2>1. CASE FillDescriptor
      <3>1. sAvaliableSize > 0
        BY <2>1, ChainLenAssumption DEF IInv, TypeOK, RoomForOutput, FillDescriptor
      <3>2. sAvailableIndex \notin InUse
        BY <2>1, <3>1, InUseGrows DEF IInv, FillDescriptor
      <3>3. \A i \in InUse : desc'[i] = desc[i]
        BY <2>1, <3>2 DEF IInv, TypeOK, InUse, FillDescriptor
      <3> QED
        BY <3>3 DEF InUseUntouched
    <2>2. CASE DmaTransmit
      BY <2>2 DEF IInv, TypeOK, Descriptor, InUse, InUseUntouched, DmaTransmit
    <2>3. CASE ~FillDescriptor /\ ~DmaTransmit
      <3>1. desc' = desc
        BY <2>3 DEF Next, Output, Driver, BeginOutput, RefuseOutput, Doorbell,
                    ReleaseDescriptor, EndRelease, BeginRelease, LinkUp, LinkDown,
                    DmaSuspend, ring
      <3> QED
        BY <3>1 DEF InUseUntouched
    <2> QED
      BY <2>1, <2>2, <2>3
  <1> QED
    BY <1>1, Inductive, PTL DEF Spec, NoOverwrite
-----------------------------------------------------------------------------
(***************************************************************************)
(* Where the DMA is.  The n descriptors in use before its position are     *)
(* done, those from it on are its own.                                     *)
(***************************************************************************)
DmaAt(n) ==
    /\ dma = Wrap(sUnavailableTxDescIndex + n)
    /\ \A i \in InUse : desc[i].own <=> Dist(i) >= n

DmaInOrder == \E n \in 0 .. Used : DmaAt(n)

\* Outside lowLevelOutput the tail pointer is where the driver will fill next,
\* and the DMA sleeps only there.
TailKnown ==
    pc # "output" => /\ tail = sAvailableIndex
                     /\ ~dmaRun => dma = tail

\* Every step keeps the two.
LEMMA DmaInv ==
    ASSUME IInv, DmaInOrder, TailKnown, Next
    PROVE  DmaInOrder' /\ TailKnown'
  <1> USE DEF IInv
  <1>1. PICK n \in 0 .. Used : DmaAt(n)
    BY DEF DmaInOrder
  <1>2. /\ InUse \subseteq Index /\ Used \in 0 .. DescCount
        /\ \A i \in Index : Dist(i) \in Nat
    BY DescCountAssumption DEF InUse, Used, TypeOK, Dist, Index
  <1>3. CASE FillDescriptor
    <2> DEFINE a == sAvailableIndex
    <2>1. sAvaliableSize > 0
      BY <1>3, ChainLenAssumption DEF TypeOK, RoomForOutput, FillDescriptor
    <2>2. /\ a \notin InUse /\ InUse' = InUse \cup {a} /\ Dist(a) = Used
          /\ \A i \in Index : Dist(i)' = Dist(i)
      BY <1>3, <2>1, InUseGrows DEF FillDescriptor
    <2>3. /\ \A i \in InUse : desc'[i] = desc[i]
          /\ desc'[a].own
      BY <1>2, <1>3, <2>2 DEF TypeOK, FillDescriptor, Filled
    <2>4. \A i \in InUse' : desc'[i].own <=> Dist(i)' >= n
      BY <1>1, <1>2, <2>2, <2>3 DEF DmaAt, TypeOK
    <2>5. n \in 0 .. Used'
      BY <1>3, <2>1, DescCountAssumption DEF Used, TypeOK, FillDescriptor
    <2>6. dma' = Wrap(sUnavailableTxDescIndex + n)'
      BY <1>1, <1>3 DEF DmaAt, FillDescriptor, hardware, Wrap
    <2>7. DmaAt(n)'
      BY <2>4, <2>6 DEF DmaAt
    <2> QED
      BY <1>3, <2>5, <2>7 DEF DmaInOrder, TailKnown, FillDescriptor
  <1>4. CASE ReleaseDescriptor
    <2> DEFINE u == sUnavailableTxDescIndex
    <2>1. /\ u \in InUse /\ InUse' = InUse \ {u}
          /\ \A i \in Index \ {u} : Dist(i)' = Dist(i) - 1
          /\ Dist(u) = 0
      BY <1>4, InUseShrinks DEF ReleaseDescriptor, NothingToRelease
    <2>2. /\ ~desc[u].own /\ u' = After(u)
          /\ UNCHANGED <<desc, dma, tail, dmaRun, pc, sAvailableIndex>>
          /\ Used' = Used - 1
      BY <1>4, DescCountAssumption
      DEF ReleaseDescriptor, NothingToRelease, hardware, Used, TypeOK
    <2>3. n > 0
      BY <1>1, <2>1, <2>2 DEF DmaAt
    <2>4. \A i \in InUse' : desc'[i].own <=> Dist(i)' >= n - 1
      BY <1>1, <1>2, <2>1, <2>2 DEF DmaAt
    <2>5. dma' = Wrap(u' + (n - 1))
      BY <1>1, <1>2, <2>2, <2>3, DescCountAssumption
      DEF DmaAt, Wrap, After, TypeOK, Index
    <2>6. DmaAt(n - 1)'
      BY <2>4, <2>5 DEF DmaAt, Wrap
    <2>7. n - 1 \in 0 .. Used'
      BY <1>1, <1>2, <2>2, <2>3
    <2> QED
      BY <2>2, <2>6, <2>7 DEF DmaInOrder, TailKnown
  <1>5. CASE DmaTransmit
    <2>1. /\ dma \in Index /\ desc[dma].own
          /\ dma' = After(dma) /\ dmaRun' = (After(dma) # tail)
          /\ UNCHANGED <<sAvailableIndex, sAvaliableSize, sUnavailableTxDescIndex, pc, tail>>
          /\ ~desc'[dma].own
          /\ \A i \in Index \ {dma} : desc'[i].own = desc[i].own
      BY <1>5 DEF TypeOK, Descriptor, DmaTransmit
    <2>2. dma \in InUse
      BY <2>1 DEF RingConsistent
    <2>3. Dist(dma) = n /\ n < Used
      BY <1>1, <1>2, <2>1, <2>2, DescCountAssumption
      DEF DmaAt, Wrap, Dist, InUse, TypeOK, Index
    <2>4. \A i \in Index : Dist(i) = n => i = dma
      BY <2>1, <2>3, DescCountAssumption DEF Dist, TypeOK, Index
    <2>5. /\ InUse' = InUse /\ Used' = Used
          /\ \A i \in Index : Dist(i)' = Dist(i)
      BY <2>1 DEF InUse, Used, Dist, Index
    <2>6. \A i \in InUse' : desc'[i].own <=> Dist(i)' >= n + 1
      BY <1>1, <1>2, <2>1, <2>3, <2>4, <2>5 DEF DmaAt
    <2>7. dma' = Wrap(sUnavailableTxDescIndex + (n + 1))'
      BY <1>1, <1>2, <2>1, <2>3, DescCountAssumption
      DEF DmaAt, Wrap, After, TypeOK, Index
    <2>8. DmaAt(n + 1)'
      BY <2>6, <2>7 DEF DmaAt
    <2>9. n + 1 \in 0 .. Used'
      BY <1>1, <1>2, <2>3, <2>5
    <2> QED
      BY <2>1, <2>8, <2>9 DEF DmaInOrder, TailKnown
  <1>6. CASE ~FillDescriptor /\ ~ReleaseDescriptor /\ ~DmaTransmit
    <2>1. UNCHANGED <<desc, sAvailableIndex, sAvaliableSize, sUnavailableTxDescIndex, dma>>
      BY <1>6 DEF Next, Output, Driver, BeginOutput, RefuseOutput, Doorbell,
                  EndRelease, BeginRelease, LinkUp, LinkDown, DmaSuspend, ring, hardware
    <2>2. /\ InUse' = InUse /\ Used' = Used
          /\ \A i \in Index : Dist(i)' = Dist(i)
      BY <2>1 DEF InUse, Used, Dist, Index
    <2>3. DmaInOrder'
      BY <1>1, <1>2, <2>1, <2>2 DEF DmaInOrder, DmaAt, Wrap
    <2>4. TailKnown'
      <3>1. CASE Doorbell
        BY <3>1 DEF Doorbell, Kick, TailKnown, ring
      <3>2. CASE DmaSuspend
        <4>1. n = Used
          <5>1. dma \in Index /\ ~desc[dma].own
            BY <3>2 DEF DmaSuspend, TypeOK
          <5>2. n < Used => Dist(dma) = n
            BY <1>1, <1>2, DescCountAssumption DEF DmaAt, Wrap, Dist, TypeOK, Index
          <5> QED
            BY <1>1, <1>2, <5>1, <5>2 DEF DmaAt, InUse
        <4>2. dma = sAvailableIndex
          BY <1>1, <4>1 DEF DmaAt, RingConsistent
        <4> QED
          BY <3>2, <4>2 DEF TailKnown, DmaSuspend, ring
      <3>3. CASE ~Doorbell /\ ~DmaSuspend
        <4>1. CASE LinkUp
          BY <4>1 DEF LinkUp, Kick, TailKnown, ring
        <4>2. CASE ~LinkUp
          BY <1>6, <3>3, <4>2 DEF Next, Output, Driver, BeginOutput, RefuseOutput,
             EndRelease, BeginRelease, LinkDown, ring, hardware, TailKnown
        <4> QED
          BY <4>1, <4>2
      <3> QED
        BY <3>1, <3>2, <3>3
    <2> QED
      BY <2>3, <2>4
  <1> QED
    BY <1>3, <1>4, <1>5, <1>6

\* The DMA never sleeps over a descriptor it owns while it is started and the
\* ring is not full: no tail pointer write is lost.
THEOREM DoorbellReachesDma == Spec => []NoLostDoorbell
  <1> DEFINE I == DmaInOrder /\ TailKnown
  <1>1. Init => I
    <2> SUFFICES ASSUME Init
                 PROVE  DmaAt(0) /\ 0 \in 0 .. Used /\ TailKnown
      BY DEF DmaInOrder
    <2>1. InUse = {} /\ Used = 0
      BY DescCountAssumption DEF Init, InUse, Used, Dist, Index
    <2> QED
      BY <2>1, DescCountAssumption DEF Init, DmaAt, Wrap, TailKnown
  <1>2. IInv /\ I /\ [Next]_vars => I'
    <2>1. IInv /\ I /\ Next => I'
      BY DmaInv
    <2>2. IInv /\ I /\ UNCHANGED vars => I'
      BY DEF vars, ring, hardware, DmaInOrder, DmaAt, TailKnown, Wrap, InUse, Used,
             Dist, Index
    <2> QED
      BY <2>1, <2>2
  <1>3. IInv /\ I => NoLostDoorbell
    <2> SUFFICES ASSUME IInv, I, pc # "output", sAvaliableSize > 0, ~dmaRun,
                        NEW i \in Index, desc[i].own
                 PROVE  FALSE
      BY DEF NoLostDoorbell
    <2>1. PICK n \in 0 .. Used : DmaAt(n)
      BY DEF DmaInOrder
    <2>2. Wrap(sUnavailableTxDescIndex + n) = Wrap(sUnavailableTxDescIndex + Used)
      BY <2>1 DEF DmaAt, TailKnown, IInv, RingConsistent
    <2>3. n = Used
      BY <2>1, <2>2, DescCountAssumption DEF Wrap, Used, IInv, TypeOK, Index
    <2>4. i \in InUse
      BY DEF IInv, RingConsistent
    <2> QED
      BY <2>1, <2>3, <2>4, DescCountAssumption
      DEF DmaAt, InUse, Dist, Used, IInv, TypeOK, Index
  <1> QED
    BY <1>1, <1>2, <1>3, Inductive, PTL DEF Spec
-----------------------------------------------------------------------------
(***************************************************************************)
(* The refinement.  FramesOf collects the pbufs named in a sequence by a   *)
(* recursive function; what it collects before and after a step is related *)
(* by induction over the descriptors in use, which are seen as a sequence  *)
(* from here on.  Join and With stand for \o and Append, so that the       *)
(* provers match them as plain operators.                                  *)
(***************************************************************************)
\* The natural numbers are the only set of them with 0 and every successor.
LEMMA Numbers ==
    ASSUME NEW S \in SUBSET Nat, 0 \in S, \A n \in S : n + 1 \in S
    PROVE  S = Nat
  <1> SUFFICES ASSUME Nat \ S # {} PROVE FALSE
    OBVIOUS
  <1>1. IsWellFoundedOn(OpToRel(<, Nat), Nat)
    BY NatLessThanWellFounded, Zenon
  <1>2. PICK n \in Nat \ S : \A m \in Nat \ S : <<m, n>> \notin OpToRel(<, Nat)
    BY <1>1, WFMin, Zenon
  <1>3. \A m \in Nat : m < n => m \in S
    BY <1>2 DEF OpToRel
  <1>4. n \in Nat /\ n # 0
    BY <1>2
  <1>5. n - 1 \in S /\ n - 1 + 1 = n
    BY <1>3, <1>4
  <1> QED
    BY <1>2, <1>5

With(s, p) == Append(s, p)
Join(r, s) == r \o s

PbufOrNone == Pbufs \cup {NoPbuf}

\* f[k] is what FramesOf collects from the first k elements of q.
Collects(f, q) ==
    /\ f \in [0 .. Len(q) -> Seq(Pbufs)]
    /\ f[0] = <<>>
    /\ \A k \in 1 .. Len(q) :
          f[k] = IF q[k] = NoPbuf THEN f[k - 1] ELSE With(f[k - 1], q[k])

\* g does so as far as n.
Begins(g, n, q) ==
    /\ g \in [0 .. n -> Seq(Pbufs)]
    /\ g[0] = <<>>
    /\ \A k \in 1 .. n :
          g[k] = IF q[k] = NoPbuf THEN g[k - 1] ELSE Append(g[k - 1], q[k])

\* The recursion of FramesOf has a solution, and FramesOf returns its last value.
LEMMA FramesOfIs ==
    ASSUME NEW q \in Seq(PbufOrNone)
    PROVE  \E f : Collects(f, q) /\ FramesOf(q) = f[Len(q)]
  <1> DEFINE S == {n \in Nat : n <= Len(q) => \E g : Begins(g, n, q)}
  <1>0. Len(q) \in Nat
    OBVIOUS
  <1>1. S = Nat
    <2>1. 0 \in S
      <3>1. Begins([k \in 0 .. 0 |-> <<>>], 0, q)
        BY DEF Begins
      <3> QED
        BY <3>1
    <2>2. ASSUME NEW n \in S PROVE n + 1 \in S
      <3> SUFFICES ASSUME n + 1 <= Len(q)
                   PROVE  \E g : Begins(g, n + 1, q)
        OBVIOUS
      <3>1. PICK g : Begins(g, n, q)
        BY <1>0
      <3>2. n + 1 \in 1 .. Len(q) /\ n \in Nat
        BY <1>0
      <3> DEFINE e == IF q[n + 1] = NoPbuf THEN g[n] ELSE Append(g[n], q[n + 1])
      <3>3. e \in Seq(Pbufs)
        <4>1. g[n] \in Seq(Pbufs)
          BY <3>1, <3>2 DEF Begins
        <4>2. CASE q[n + 1] # NoPbuf
          <5>1. q[n + 1] \in Pbufs
            BY <3>2, <4>2 DEF PbufOrNone
          <5> QED
            BY <4>1, <4>2, <5>1
        <4> QED
          BY <4>1, <4>2
      <3> HIDE DEF e
      <3> DEFINE h == [k \in 0 .. n + 1 |-> IF k = n + 1 THEN e ELSE g[k]]
      <3>4. h \in [0 .. n + 1 -> Seq(Pbufs)]
        BY <3>1, <3>2, <3>3 DEF Begins
      <3>5. h[0] = <<>> /\ h[n + 1] = e /\ \A k \in 0 .. n : h[k] = g[k]
        BY <3>1, <3>2 DEF Begins
      <3>5a. n \in 0 .. n /\ n + 1 - 1 = n
        BY <3>2
      <3> HIDE DEF h
      <3>6. ASSUME NEW k \in 1 .. n + 1
            PROVE  h[k] = IF q[k] = NoPbuf THEN h[k - 1] ELSE Append(h[k - 1], q[k])
        <4>1. CASE k = n + 1
          BY <3>5, <3>5a, <4>1 DEF e
        <4>2. CASE k # n + 1
          <5>1. k \in 1 .. n /\ k \in 0 .. n /\ k - 1 \in 0 .. n
            BY <3>2, <4>2
          <5> QED
            BY <3>1, <3>5, <5>1 DEF Begins
        <4> QED
          BY <4>1, <4>2
      <3>7. Begins(h, n + 1, q)
        BY <3>4, <3>5, <3>6 DEF Begins
      <3> QED
        BY <3>7
    <2> QED
      BY <2>1, <2>2, Numbers
  <1>2. PICK g : Begins(g, Len(q), q)
    BY <1>0, <1>1
  <1> DEFINE Step(f) == [k \in 0 .. Len(q) |->
                IF k = 0 THEN <<>>
                ELSE IF q[k] = NoPbuf THEN f[k - 1] ELSE Append(f[k - 1], q[k])]
             F == CHOOSE f : f = Step(f)
  <1>3. g = Step(g)
    <2>1. \A k \in 0 .. Len(q) : k # 0 => k \in 1 .. Len(q)
      BY <1>0
    <2>2. \A k \in 0 .. Len(q) : g[k] = Step(g)[k]
      BY <1>2, <2>1 DEF Begins
    <2>3. g = [k \in 0 .. Len(q) |-> g[k]]
      BY <1>2 DEF Begins
    <2> QED
      BY <2>2, <2>3
  <1>4. F = Step(F)
    <2> HIDE DEF Step
    <2> QED
      BY <1>3, Zenon
  <1>5. FramesOf(q) = F[Len(q)]
    BY Zenon DEF FramesOf
  <1> HIDE DEF F
  <1>6. /\ F[0] = <<>> /\ DOMAIN F = 0 .. Len(q)
        /\ F = [k \in 0 .. Len(q) |-> F[k]]
    BY <1>0, <1>4
  <1>7. ASSUME NEW k \in 1 .. Len(q)
        PROVE  F[k] = IF q[k] = NoPbuf THEN F[k - 1] ELSE Append(F[k - 1], q[k])
    <2>1. k \in 0 .. Len(q) /\ k # 0
      BY <1>0
    <2>2. Step(F)[k] = IF q[k] = NoPbuf THEN F[k - 1] ELSE Append(F[k - 1], q[k])
      BY <2>1, Zenon
    <2>3. F[k] = Step(F)[k]
      <3> HIDE DEF Step
      <3> QED
        BY <1>4, Zenon
    <2> QED
      BY <2>2, <2>3, Zenon
  <1> DEFINE T == {n \in Nat : n <= Len(q) => F[n] \in Seq(Pbufs)}
  <1>8. T = Nat
    <2>1. 0 \in T
      BY <1>6
    <2>2. ASSUME NEW n \in T PROVE n + 1 \in T
      <3> SUFFICES ASSUME n + 1 <= Len(q) PROVE F[n + 1] \in Seq(Pbufs)
        OBVIOUS
      <3>1. n + 1 \in 1 .. Len(q) /\ n + 1 - 1 = n /\ F[n] \in Seq(Pbufs)
        BY <1>0
      <3>2. F[n + 1] = IF q[n + 1] = NoPbuf THEN F[n] ELSE Append(F[n], q[n + 1])
        <4> HIDE DEF F
        <4>1. PICK k \in 1 .. Len(q) : k = n + 1 /\ k - 1 = n
          BY <3>1
        <4>2. F[k] = IF q[k] = NoPbuf THEN F[k - 1] ELSE Append(F[k - 1], q[k])
          BY <1>7, Zenon
        <4> QED
          BY <4>1, <4>2, Zenon
      <3>3. CASE q[n + 1] # NoPbuf
        <4>1. q[n + 1] \in Pbufs
          BY <3>1, <3>3 DEF PbufOrNone
        <4>2. F[n + 1] = Append(F[n], q[n + 1])
          BY <3>2, <3>3, Zenon
        <4> QED
          BY <3>1, <4>1, <4>2
      <3>4. CASE q[n + 1] = NoPbuf
        BY <3>1, <3>2, <3>4, Zenon
      <3> QED
        BY <3>3, <3>4
    <2> HIDE DEF T
    <2>3. T \in SUBSET Nat
      BY DEF T
    <2> QED
      BY <2>1, <2>2, <2>3, Numbers, Zenon
  <1>9. F \in [0 .. Len(q) -> Seq(Pbufs)]
    <2>1. \A k \in 0 .. Len(q) : F[k] \in Seq(Pbufs)
      BY <1>0, <1>8
    <2> QED
      BY <1>6, <2>1, Zenon
  <1>10. Collects(F, q)
    BY <1>6, <1>7, <1>9 DEF Collects, With
  <1> QED
    BY <1>5, <1>10

\* Appending and concatenating commute.
LEMMA JoinWith ==
    ASSUME NEW r \in Seq(Pbufs), NEW s \in Seq(Pbufs), NEW p \in Pbufs
    PROVE  Join(r, With(s, p)) = With(Join(r, s), p)
  BY DEF With, Join

\* Concatenating to the empty sequence.
LEMMA JoinEmpty ==
    ASSUME NEW s \in Seq(Pbufs)
    PROVE  Join(<<>>, s) = s /\ <<>> \in Seq(Pbufs)
  BY DEF Join

\* The length after an Append.
LEMMA LenWith ==
    ASSUME NEW s \in Seq(Pbufs), NEW p \in Pbufs
    PROVE  Len(With(s, p)) = Len(s) + 1
  BY DEF With

\* One step of the recursion.
LEMMA NextOf ==
    ASSUME NEW q \in Seq(PbufOrNone), NEW f, Collects(f, q), NEW n \in Nat, n + 1 <= Len(q)
    PROVE  /\ f[n] \in Seq(Pbufs)
           /\ q[n + 1] = NoPbuf => f[n + 1] = f[n]
           /\ q[n + 1] # NoPbuf => q[n + 1] \in Pbufs /\ f[n + 1] = With(f[n], q[n + 1])
  <1>1. n + 1 \in 1 .. Len(q) /\ n \in 0 .. Len(q) /\ n + 1 - 1 = n
    OBVIOUS
  <1>2. f[n] \in Seq(Pbufs)
    BY <1>1 DEF Collects
  <1>3. f[n + 1] = IF q[n + 1] = NoPbuf THEN f[n] ELSE With(f[n], q[n + 1])
    BY <1>1 DEF Collects
  <1>4. q[n + 1] \in Pbufs \cup {NoPbuf}
    BY <1>1 DEF PbufOrNone
  <1> QED
    BY <1>2, <1>3, <1>4

\* From a and b on, for m elements, two sequences are the same, and what comes
\* before differs by r.
Same(f, q, a, g, w, b, m, r) ==
    /\ q \in Seq(PbufOrNone) /\ Collects(f, q)
    /\ w \in Seq(PbufOrNone) /\ Collects(g, w)
    /\ a \in Nat /\ b \in Nat /\ m \in Nat
    /\ a + m <= Len(q) /\ b + m <= Len(w)
    /\ r \in Seq(Pbufs) /\ f[a] = Join(r, g[b])
    /\ \A k \in 1 .. m : q[a + k] = w[b + k]

\* They still differ by r after those m elements.
LEMMA SameAfter ==
    ASSUME NEW f, NEW q, NEW a, NEW g, NEW w, NEW b, NEW m, NEW r,
           Same(f, q, a, g, w, b, m, r)
    PROVE  f[a + m] = Join(r, g[b + m])
  <1> DEFINE S == {n \in Nat : n <= m => f[a + n] = Join(r, g[b + n])}
  <1>1. 0 \in S
    BY DEF Same
  <1>2. ASSUME NEW n \in S PROVE n + 1 \in S
    <2> SUFFICES ASSUME n + 1 <= m PROVE f[a + (n + 1)] = Join(r, g[b + (n + 1)])
      OBVIOUS
    <2>1. PICK c \in Nat, d \in Nat : c = a + n /\ d = b + n
      BY DEF Same
    <2>2. /\ c + 1 = a + (n + 1) /\ d + 1 = b + (n + 1)
          /\ c + 1 <= Len(q) /\ d + 1 <= Len(w) /\ n + 1 \in 1 .. m
      BY <2>1 DEF Same
    <2>3. f[c] = Join(r, g[d])
      BY <2>1, <2>2 DEF Same
    <2>4. q[c + 1] = w[d + 1]
      <3>1. q[a + (n + 1)] = w[b + (n + 1)]
        BY <2>2 DEF Same
      <3> QED
        BY <2>2, <3>1
    <2>5. CASE q[c + 1] = NoPbuf
      <3>1. f[c + 1] = f[c]
        BY <2>2, <2>5, NextOf DEF Same
      <3>2. g[d + 1] = g[d]
        BY <2>2, <2>4, <2>5, NextOf DEF Same
      <3> QED
        BY <2>2, <2>3, <3>1, <3>2
    <2>6. CASE q[c + 1] # NoPbuf
      <3>1. f[c + 1] = With(f[c], q[c + 1]) /\ q[c + 1] \in Pbufs
        BY <2>2, <2>6, NextOf DEF Same
      <3>2. g[d + 1] = With(g[d], q[c + 1]) /\ g[d] \in Seq(Pbufs)
        BY <2>2, <2>4, <2>6, NextOf DEF Same
      <3>3. Join(r, g[d + 1]) = With(Join(r, g[d]), q[c + 1])
        BY <3>1, <3>2, JoinWith DEF Same
      <3> QED
        BY <2>2, <2>3, <3>1, <3>3
    <2> QED
      BY <2>5, <2>6
  <1> HIDE DEF S
  <1>3. S \in SUBSET Nat
    BY DEF S
  <1>4. m \in S
    BY <1>1, <1>2, <1>3, Numbers DEF Same
  <1> QED
    BY <1>4 DEF S, Same

\* From a on, for m elements, a sequence names no pbuf.
Quiet(f, q, a, m) ==
    /\ q \in Seq(PbufOrNone) /\ Collects(f, q)
    /\ a \in Nat /\ m \in Nat /\ a + m <= Len(q)
    /\ \A k \in 1 .. m : q[a + k] = NoPbuf

\* No frame is collected from those m elements.
LEMMA NoMoreAfter ==
    ASSUME NEW f, NEW q, NEW a, NEW m, Quiet(f, q, a, m)
    PROVE  f[a + m] = f[a]
  <1> DEFINE S == {n \in Nat : n <= m => f[a + n] = f[a]}
  <1>1. 0 \in S
    BY DEF Quiet
  <1>2. ASSUME NEW n \in S PROVE n + 1 \in S
    <2> SUFFICES ASSUME n + 1 <= m PROVE f[a + (n + 1)] = f[a]
      OBVIOUS
    <2>1. PICK c \in Nat : c = a + n
      BY DEF Quiet
    <2>2. c + 1 = a + (n + 1) /\ c + 1 <= Len(q) /\ n + 1 \in 1 .. m
      BY <2>1 DEF Quiet
    <2>3. f[c] = f[a] /\ q[c + 1] = NoPbuf
      <3>1. q[a + (n + 1)] = NoPbuf
        BY <2>2 DEF Quiet
      <3>2. n \in Nat /\ f[a + n] = f[a]
        BY <2>2 DEF Quiet
      <3> QED
        BY <2>1, <2>2, <3>1, <3>2
    <2>4. f[c + 1] = f[c]
      BY <2>2, <2>3, NextOf DEF Quiet
    <2> QED
      BY <2>2, <2>3, <2>4
  <1> HIDE DEF S
  <1>3. S \in SUBSET Nat
    BY DEF S
  <1>4. m \in S
    BY <1>1, <1>2, <1>3, Numbers DEF Quiet
  <1> QED
    BY <1>4 DEF S, Quiet

\* Two sequences that never name a pbuf at the same place.
LEMMA FewFrames ==
    ASSUME NEW q \in Seq(PbufOrNone), NEW w \in Seq(PbufOrNone), Len(q) = Len(w),
           \A k \in 1 .. Len(q) : q[k] = NoPbuf \/ w[k] = NoPbuf
    PROVE  /\ FramesOf(q) \in Seq(Pbufs) /\ FramesOf(w) \in Seq(Pbufs)
           /\ Len(FramesOf(q)) + Len(FramesOf(w)) <= Len(q)
  <1>1. PICK f : Collects(f, q) /\ FramesOf(q) = f[Len(q)]
    BY FramesOfIs
  <1>2. PICK g : Collects(g, w) /\ FramesOf(w) = g[Len(w)]
    BY FramesOfIs
  <1> DEFINE Few(n) == \E x, y \in Nat : x = Len(f[n]) /\ y = Len(g[n]) /\ x + y <= n
             S == {n \in Nat : n <= Len(q) => Few(n)}
  <1>3. Few(0)
    <2>1. Len(f[0]) = 0 /\ Len(g[0]) = 0
      BY <1>1, <1>2 DEF Collects
    <2> QED
      BY <2>1
  <1>4. ASSUME NEW n \in Nat, n + 1 <= Len(q), Few(n) PROVE Few(n + 1)
    <2>1. PICK x \in Nat, y \in Nat : x = Len(f[n]) /\ y = Len(g[n]) /\ x + y <= n
      BY <1>4
    <2>0. x + y <= n /\ x \in Nat /\ y \in Nat
      BY <2>1
    <2>2. n + 1 \in 1 .. Len(q) /\ n + 1 <= Len(w)
      BY <1>4
    <2>3. q[n + 1] = NoPbuf \/ w[n + 1] = NoPbuf
      BY <2>2
    <2>4. q[n + 1] = NoPbuf => Len(f[n + 1]) = x
      BY <1>1, <1>4, <2>1, NextOf
    <2>5. q[n + 1] # NoPbuf => Len(f[n + 1]) = x + 1
      <3> SUFFICES ASSUME q[n + 1] # NoPbuf PROVE Len(f[n + 1]) = x + 1
        OBVIOUS
      <3>1. f[n] \in Seq(Pbufs) /\ q[n + 1] \in Pbufs /\ f[n + 1] = With(f[n], q[n + 1])
        BY <1>1, <1>4, NextOf
      <3> QED
        BY <2>1, <3>1, LenWith
    <2>6. w[n + 1] = NoPbuf => Len(g[n + 1]) = y
      BY <1>2, <2>1, <2>2, NextOf
    <2>7. w[n + 1] # NoPbuf => Len(g[n + 1]) = y + 1
      <3> SUFFICES ASSUME w[n + 1] # NoPbuf PROVE Len(g[n + 1]) = y + 1
        OBVIOUS
      <3>1. g[n] \in Seq(Pbufs) /\ w[n + 1] \in Pbufs /\ g[n + 1] = With(g[n], w[n + 1])
        BY <1>2, <2>2, NextOf
      <3> QED
        BY <2>1, <3>1, LenWith
    <2>8. \E i, j \in Nat : i = Len(f[n + 1]) /\ j = Len(g[n + 1]) /\ i + j <= n + 1
      <3>1. CASE q[n + 1] = NoPbuf /\ w[n + 1] = NoPbuf
        <4>1. Len(f[n + 1]) = x /\ Len(g[n + 1]) = y
          BY <2>4, <2>6, <3>1
        <4>2. x \in Nat /\ y \in Nat /\ x + y <= n + 1
          BY <2>0
        <4> QED
          BY <4>1, <4>2, Zenon
      <3>2. CASE q[n + 1] # NoPbuf /\ w[n + 1] = NoPbuf
        <4>1. Len(f[n + 1]) = x + 1 /\ Len(g[n + 1]) = y
          BY <2>5, <2>6, <3>2
        <4>2. x + 1 \in Nat /\ y \in Nat /\ (x + 1) + y <= n + 1
          BY <2>0
        <4> QED
          BY <4>1, <4>2, Zenon
      <3>3. CASE q[n + 1] = NoPbuf /\ w[n + 1] # NoPbuf
        <4>1. Len(f[n + 1]) = x /\ Len(g[n + 1]) = y + 1
          BY <2>4, <2>7, <3>3
        <4>2. x \in Nat /\ y + 1 \in Nat /\ x + (y + 1) <= n + 1
          BY <2>0
        <4> QED
          BY <4>1, <4>2, Zenon
      <3> QED
        BY <2>3, <3>1, <3>2, <3>3
    <2> QED
      BY <2>8
  <1> HIDE DEF Few
  <1>5. 0 \in S
    BY <1>3
  <1>6. \A n \in S : n + 1 \in S
    BY <1>4
  <1>7. S \in SUBSET Nat
    OBVIOUS
  <1> HIDE DEF S
  <1>8. Len(q) \in Nat /\ Len(q) \in 0 .. Len(q) /\ Len(w) \in 0 .. Len(w)
    OBVIOUS
  <1>9. Len(q) \in S
    BY <1>5, <1>6, <1>7, <1>8, Numbers
  <1>10. Few(Len(q))
    BY <1>9 DEF S
  <1>11. f[Len(q)] \in Seq(Pbufs) /\ g[Len(w)] \in Seq(Pbufs)
    BY <1>1, <1>2, <1>8 DEF Collects
  <1>12. PICK x \in Nat, y \in Nat : x = Len(f[Len(q)]) /\ y = Len(g[Len(q)]) /\ x + y <= Len(q)
    BY <1>10 DEF Few
  <1> QED
    BY <1>1, <1>2, <1>11, <1>12

\* One more at the end.
LEMMA FramesGrow ==
    ASSUME NEW q \in Seq(PbufOrNone), NEW w \in Seq(PbufOrNone),
           Len(w) = Len(q) + 1, \A k \in 1 .. Len(q) : w[k] = q[k]
    PROVE  /\ w[Len(w)] = NoPbuf => FramesOf(w) = FramesOf(q)
           /\ w[Len(w)] # NoPbuf => /\ w[Len(w)] \in Pbufs
                                    /\ FramesOf(w) = With(FramesOf(q), w[Len(w)])
  <1>1. PICK f : Collects(f, q) /\ FramesOf(q) = f[Len(q)]
    BY FramesOfIs
  <1>2. PICK g : Collects(g, w) /\ FramesOf(w) = g[Len(w)]
    BY FramesOfIs
  <1>3. PICK m \in Nat, z \in Nat : m = Len(q) /\ z = 0
    OBVIOUS
  <1>4. m + 1 = Len(w) /\ m + 1 <= Len(w) /\ z + m = m
    BY <1>3
  <1>5. f[z] = <<>> /\ g[z] = <<>> /\ f[m] \in Seq(Pbufs)
    BY <1>1, <1>2, <1>3 DEF Collects
  <1>6. g[m] = f[m]
    <2>1. Same(g, w, z, f, q, z, m, <<>>)
      <3>1. g[z] = Join(<<>>, f[z]) /\ <<>> \in Seq(Pbufs)
        BY <1>5, JoinEmpty
      <3>2. \A k \in 1 .. m : w[z + k] = q[z + k]
        BY <1>3
      <3> QED
        BY <1>1, <1>2, <1>3, <1>4, <3>1, <3>2 DEF Same
    <2>2. g[z + m] = Join(<<>>, f[z + m])
      BY <2>1, SameAfter
    <2>3. g[m] = Join(<<>>, f[m])
      BY <1>4, <2>2
    <2> QED
      BY <1>5, <2>3, JoinEmpty
  <1>7. CASE w[m + 1] = NoPbuf
    <2>1. g[m + 1] = g[m]
      BY <1>2, <1>4, <1>7, NextOf
    <2> QED
      BY <1>1, <1>2, <1>3, <1>4, <1>6, <1>7, <2>1
  <1>8. CASE w[m + 1] # NoPbuf
    <2>1. g[m + 1] = With(g[m], w[m + 1]) /\ w[m + 1] \in Pbufs
      BY <1>2, <1>4, <1>8, NextOf
    <2> QED
      BY <1>1, <1>2, <1>3, <1>4, <1>6, <1>8, <2>1
  <1> QED
    BY <1>7, <1>8

\* p before the sequence s.
Ahead(p, s) == Join(<<p>>, s)

\* One less at the beginning.
FirstLeaves(q, w) ==
    /\ q \in Seq(PbufOrNone) /\ w \in Seq(PbufOrNone) /\ Len(q) = Len(w) + 1
    /\ \A k \in 1 .. Len(w) : w[k] = q[k + 1]

\* Its frame, if any, was in front.
LEMMA FramesShrink ==
    ASSUME NEW q, NEW w, FirstLeaves(q, w)
    PROVE  /\ q[1] = NoPbuf => FramesOf(q) = FramesOf(w)
           /\ q[1] # NoPbuf => /\ q[1] \in Pbufs
                               /\ FramesOf(q) = Ahead(q[1], FramesOf(w))
  <1>0. /\ q \in Seq(PbufOrNone) /\ w \in Seq(PbufOrNone)
        /\ Len(q) = Len(w) + 1 /\ \A k \in 1 .. Len(w) : w[k] = q[k + 1]
    BY DEF FirstLeaves
  <1> USE <1>0
  <1>1. PICK f : Collects(f, q) /\ FramesOf(q) = f[Len(q)]
    BY FramesOfIs
  <1>2. PICK g : Collects(g, w) /\ FramesOf(w) = g[Len(w)]
    BY FramesOfIs
  <1>3. PICK m \in Nat, z \in Nat, o \in Nat : m = Len(w) /\ z = 0 /\ o = 1
    OBVIOUS
  <1>4. o + m = Len(q) /\ z + m = m /\ z + 1 = o /\ z + 1 <= Len(q)
    BY <1>3
  <1>5. f[z] = <<>> /\ g[z] = <<>> /\ g[m] \in Seq(Pbufs)
    BY <1>1, <1>2, <1>3 DEF Collects
  <1>6. ASSUME NEW r \in Seq(Pbufs), f[o] = r
        PROVE  f[Len(q)] = Join(r, g[Len(w)])
    <2>1. Same(f, q, o, g, w, z, m, r)
      <3>1. f[o] = Join(r, g[z])
        BY <1>5, <1>6 DEF Join
      <3>2. \A k \in 1 .. m : q[o + k] = w[z + k]
        BY <1>3
      <3> QED
        BY <1>1, <1>2, <1>3, <1>4, <1>6, <3>1, <3>2 DEF Same
    <2>2. f[o + m] = Join(r, g[z + m])
      BY <2>1, SameAfter
    <2> QED
      BY <1>3, <1>4, <2>2
  <1>7. CASE q[1] = NoPbuf
    <2>1. f[z + 1] = f[z]
      BY <1>1, <1>3, <1>4, <1>7, NextOf
    <2>2. f[Len(q)] = Join(<<>>, g[Len(w)])
      <3>1. f[o] = <<>> /\ <<>> \in Seq(Pbufs)
        BY <1>4, <1>5, <2>1
      <3> QED
        BY <1>6, <3>1
    <2>3. FramesOf(q) = FramesOf(w)
      BY <1>1, <1>2, <1>3, <1>5, <2>2, JoinEmpty
    <2> QED
      BY <1>7, <2>3
  <1>8. CASE q[1] # NoPbuf
    <2>1. f[z + 1] = With(f[z], q[z + 1]) /\ q[z + 1] \in Pbufs
      BY <1>1, <1>3, <1>4, <1>8, NextOf
    <2>2. f[o] = <<q[1]>> /\ <<q[1]>> \in Seq(Pbufs) /\ q[1] \in Pbufs
      BY <1>3, <1>4, <1>5, <2>1 DEF With
    <2>3. f[Len(q)] = Join(<<q[1]>>, g[Len(w)])
      BY <1>6, <2>2
    <2> QED
      BY <1>1, <1>2, <1>8, <2>2, <2>3 DEF Ahead
  <1> QED
    BY <1>7, <1>8

\* Up to n two sequences name no pbuf, then one alone may name one, then they
\* are the same.
FirstGoes(q, w, n) ==
    /\ q \in Seq(PbufOrNone) /\ w \in Seq(PbufOrNone) /\ n \in Nat
    /\ Len(q) = Len(w) /\ n < Len(q) /\ w[n + 1] = NoPbuf
    /\ \A k \in 1 .. n : q[k] = NoPbuf /\ w[k] = NoPbuf
    /\ \A k \in n + 2 .. Len(q) : w[k] = q[k]

\* That pbuf was in front.
LEMMA FramesFirstGoes ==
    ASSUME NEW q, NEW w, NEW n, FirstGoes(q, w, n)
    PROVE  /\ q[n + 1] = NoPbuf => FramesOf(q) = FramesOf(w)
           /\ q[n + 1] # NoPbuf => /\ q[n + 1] \in Pbufs
                                   /\ FramesOf(q) = Ahead(q[n + 1], FramesOf(w))
  <1>01. q \in Seq(PbufOrNone) /\ w \in Seq(PbufOrNone) /\ n \in Nat
    BY DEF FirstGoes
  <1>02. Len(q) = Len(w) /\ n < Len(q) /\ w[n + 1] = NoPbuf
    BY DEF FirstGoes
  <1>03. \A k \in 1 .. n : q[k] = NoPbuf /\ w[k] = NoPbuf
    BY DEF FirstGoes
  <1>04. \A k \in n + 2 .. Len(q) : w[k] = q[k]
    BY DEF FirstGoes
  <1> USE <1>01, <1>02, <1>03, <1>04
  <1>1. PICK f : Collects(f, q) /\ FramesOf(q) = f[Len(q)]
    BY FramesOfIs
  <1>2. PICK g : Collects(g, w) /\ FramesOf(w) = g[Len(w)]
    BY FramesOfIs
  <1>0. PICK c \in Nat, z \in Nat : c = n + 1 /\ z = 0
    OBVIOUS
  <1>3. PICK m \in Nat : c = n + 1 /\ z = 0 /\ c + m = Len(q)
    <2>1. Len(q) - c \in Nat /\ c + (Len(q) - c) = Len(q)
      BY <1>0
    <2> QED
      BY <1>0, <2>1
  <1>4. /\ c + m = Len(w) /\ n + 1 <= Len(q) /\ n + 1 <= Len(w) /\ z + n = n
        /\ z + n <= Len(q) /\ z + n <= Len(w)
        /\ n \in 0 .. Len(q) /\ z \in 0 .. Len(q) /\ Len(w) \in 0 .. Len(w)
    <2>1. PICK l \in Nat : l = Len(q) /\ l = Len(w)
      OBVIOUS
    <2>2. l = c + m /\ c = n + 1 /\ z = 0 /\ l \in Nat
      BY <1>3, <2>1
    <2> QED
      BY <2>1, <2>2
  <1>5. f[z] = <<>> /\ g[z] = <<>> /\ f[n] \in Seq(Pbufs) /\ g[Len(w)] \in Seq(Pbufs)
    BY <1>1, <1>2, <1>3, <1>4 DEF Collects
  <1>6. f[n] = <<>>
    <2>1. Quiet(f, q, z, n)
      BY <1>1, <1>3, <1>4 DEF Quiet
    <2>2. f[z + n] = f[z]
      BY <2>1, NoMoreAfter
    <2> QED
      BY <1>4, <1>5, <2>2
  <1>7. g[c] = <<>>
    <2>1. Quiet(g, w, z, n)
      BY <1>2, <1>3, <1>4 DEF Quiet
    <2>2. g[z + n] = g[z]
      BY <2>1, NoMoreAfter
    <2>3. g[n + 1] = g[n]
      BY <1>2, <1>4, NextOf
    <2> QED
      BY <1>3, <1>4, <1>5, <2>2, <2>3
  <1>8. ASSUME NEW r \in Seq(Pbufs), f[c] = r
        PROVE  f[Len(q)] = Join(r, g[Len(w)])
    <2>1. Same(f, q, c, g, w, c, m, r)
      <3>1. f[c] = Join(r, g[c])
        BY <1>7, <1>8 DEF Join
      <3>2. \A k \in 1 .. m : c + k \in n + 2 .. Len(q)
        BY <1>3
      <3>3. \A k \in 1 .. m : q[c + k] = w[c + k]
        BY <3>2
      <3> QED
        BY <1>1, <1>2, <1>3, <1>4, <1>8, <3>1, <3>3 DEF Same
    <2>2. f[c + m] = Join(r, g[c + m])
      BY <2>1, SameAfter
    <2> QED
      BY <1>3, <1>4, <2>2
  <1>9. CASE q[n + 1] = NoPbuf
    <2>1. f[n + 1] = f[n]
      BY <1>1, <1>4, <1>9, NextOf
    <2>2. f[Len(q)] = Join(<<>>, g[Len(w)])
      <3>1. f[c] = <<>> /\ <<>> \in Seq(Pbufs)
        BY <1>3, <1>6, <2>1
      <3> QED
        BY <1>8, <3>1
    <2>3. FramesOf(q) = FramesOf(w)
      BY <1>1, <1>2, <1>5, <2>2, JoinEmpty
    <2> QED
      BY <1>9, <2>3
  <1>10. CASE q[n + 1] # NoPbuf
    <2>1. f[n + 1] = With(f[n], q[n + 1]) /\ q[n + 1] \in Pbufs
      BY <1>1, <1>4, <1>10, NextOf
    <2>2. f[c] = <<q[n + 1]>> /\ <<q[n + 1]>> \in Seq(Pbufs)
      BY <1>3, <1>6, <2>1 DEF With
    <2>3. f[Len(q)] = Join(<<q[n + 1]>>, g[Len(w)])
      BY <1>8, <2>2
    <2> QED
      BY <1>1, <1>2, <1>10, <2>1, <2>3 DEF Ahead
  <1> QED
    BY <1>9, <1>10

\* Up to n two sequences are the same, then one alone may name a pbuf, then
\* neither does.
LastComes(q, w, n) ==
    /\ q \in Seq(PbufOrNone) /\ w \in Seq(PbufOrNone) /\ n \in Nat
    /\ Len(q) = Len(w) /\ n < Len(q) /\ q[n + 1] = NoPbuf
    /\ \A k \in 1 .. n : w[k] = q[k]
    /\ \A k \in n + 2 .. Len(q) : q[k] = NoPbuf /\ w[k] = NoPbuf

\* That pbuf comes to the end.
LEMMA FramesLastComes ==
    ASSUME NEW q, NEW w, NEW n, LastComes(q, w, n)
    PROVE  /\ w[n + 1] = NoPbuf => FramesOf(w) = FramesOf(q)
           /\ w[n + 1] # NoPbuf => FramesOf(w) = With(FramesOf(q), w[n + 1])
  <1>01. q \in Seq(PbufOrNone) /\ w \in Seq(PbufOrNone) /\ n \in Nat
    BY DEF LastComes
  <1>02. Len(q) = Len(w) /\ n < Len(q) /\ q[n + 1] = NoPbuf
    BY DEF LastComes
  <1>03. \A k \in 1 .. n : w[k] = q[k]
    BY DEF LastComes
  <1>04. \A k \in n + 2 .. Len(q) : q[k] = NoPbuf /\ w[k] = NoPbuf
    BY DEF LastComes
  <1> USE <1>01, <1>02, <1>03, <1>04
  <1>1. PICK f : Collects(f, q) /\ FramesOf(q) = f[Len(q)]
    BY FramesOfIs
  <1>2. PICK g : Collects(g, w) /\ FramesOf(w) = g[Len(w)]
    BY FramesOfIs
  <1>0. PICK c \in Nat, z \in Nat : c = n + 1 /\ z = 0
    OBVIOUS
  <1>3. PICK m \in Nat : c = n + 1 /\ z = 0 /\ c + m = Len(q)
    <2>1. Len(q) - c \in Nat /\ c + (Len(q) - c) = Len(q)
      BY <1>0
    <2> QED
      BY <1>0, <2>1
  <1>4. /\ c + m = Len(w) /\ n + 1 <= Len(q) /\ n + 1 <= Len(w) /\ z + n = n
        /\ z + n <= Len(q) /\ z + n <= Len(w) /\ c + m <= Len(q) /\ c + m <= Len(w)
        /\ n \in 0 .. Len(q) /\ z \in 0 .. Len(q)
    <2>1. PICK l \in Nat : l = Len(q) /\ l = Len(w)
      OBVIOUS
    <2>2. l = c + m /\ c = n + 1 /\ z = 0 /\ l \in Nat
      BY <1>3, <2>1
    <2> QED
      BY <2>1, <2>2
  <1>5. f[z] = <<>> /\ g[z] = <<>> /\ f[n] \in Seq(Pbufs)
    BY <1>1, <1>2, <1>3, <1>4 DEF Collects
  <1>6. g[n] = f[n]
    <2>1. Same(g, w, z, f, q, z, n, <<>>)
      <3>1. g[z] = Join(<<>>, f[z]) /\ <<>> \in Seq(Pbufs)
        BY <1>5, JoinEmpty
      <3>2. \A k \in 1 .. n : w[z + k] = q[z + k]
        BY <1>3
      <3> QED
        BY <1>1, <1>2, <1>3, <1>4, <3>1, <3>2 DEF Same
    <2>2. g[z + n] = Join(<<>>, f[z + n])
      BY <2>1, SameAfter
    <2>3. g[n] = Join(<<>>, f[n])
      BY <1>4, <2>2
    <2> QED
      BY <1>5, <2>3, JoinEmpty
  <1>7. f[Len(q)] = f[n] /\ g[Len(w)] = g[c]
    <2>1. \A k \in 1 .. m : c + k \in n + 2 .. Len(q)
      BY <1>3
    <2>2. \A k \in 1 .. m : q[c + k] = NoPbuf /\ w[c + k] = NoPbuf
      BY <2>1
    <2>3. Quiet(f, q, c, m) /\ Quiet(g, w, c, m)
      BY <1>1, <1>2, <1>3, <1>4, <2>2 DEF Quiet
    <2>4. f[c + m] = f[c] /\ g[c + m] = g[c]
      BY <2>3, NoMoreAfter
    <2>5. f[n + 1] = f[n]
      <3>1. q[n + 1] = NoPbuf /\ n + 1 <= Len(q)
        BY <1>4
      <3>2. q \in Seq(PbufOrNone) /\ Collects(f, q) /\ n \in Nat
        BY <1>1
      <3>3. q[n + 1] = NoPbuf => f[n + 1] = f[n]
        BY ONLY <3>1, <3>2, NextOf
      <3> QED
        BY ONLY <3>1, <3>3
    <2> QED
      BY <1>3, <1>4, <2>4, <2>5
  <1>8. CASE w[n + 1] = NoPbuf
    <2>1. g[n + 1] = g[n]
      BY <1>2, <1>4, <1>8, NextOf
    <2> QED
      BY <1>1, <1>2, <1>3, <1>6, <1>7, <1>8, <2>1
  <1>9. CASE w[n + 1] # NoPbuf
    <2>1. g[n + 1] = With(g[n], w[n + 1])
      BY <1>2, <1>4, <1>9, NextOf
    <2> QED
      BY <1>1, <1>2, <1>3, <1>6, <1>7, <1>9, <2>1
  <1> QED
    BY <1>8, <1>9

\* The n descriptors from u on, as a sequence.
RingOf(ds, u, n) == [k \in 1 .. n |-> ds[Wrap(u + k - 1)]]

\* RingOf is a sequence of descriptors.
LEMMA RingIs ==
    ASSUME NEW ds \in [Index -> Descriptor], NEW u \in Index, NEW n \in 0 .. DescCount
    PROVE  /\ RingOf(ds, u, n) \in Seq(Descriptor) /\ Len(RingOf(ds, u, n)) = n
           /\ \A k \in 1 .. n : /\ Wrap(u + k - 1) \in Index
                                /\ RingOf(ds, u, n)[k] = ds[Wrap(u + k - 1)]
  <1> DEFINE D == [k \in 1 .. n |-> ds[Wrap(u + k - 1)]]
  <1>1. \A k \in 1 .. n : Wrap(u + k - 1) \in Index
    BY DescCountAssumption DEF Wrap, Index
  <1>2. \A k \in 1 .. n : ds[Wrap(u + k - 1)] \in Descriptor
    BY <1>1
  <1>3. D \in Seq(Descriptor) /\ Len(D) = n
    BY <1>2
  <1> QED
    BY <1>1, <1>3 DEF RingOf

\* What InOrder is, element by element.
LEMMA InOrderIs ==
    ASSUME TypeOK
    PROVE  /\ InOrder \in Seq(Descriptor) /\ Len(InOrder) = Used
           /\ Used \in 0 .. DescCount /\ sUnavailableTxDescIndex \in Index
           /\ \A k \in 1 .. Used :
                 /\ Wrap(sUnavailableTxDescIndex + k - 1) \in Index
                 /\ InOrder[k] = desc[Wrap(sUnavailableTxDescIndex + k - 1)]
  <1>1. /\ desc \in [Index -> Descriptor] /\ sUnavailableTxDescIndex \in Index
        /\ Used \in 0 .. DescCount
    BY DescCountAssumption DEF TypeOK, Used
  <1>2. InOrder = RingOf(desc, sUnavailableTxDescIndex, Used)
    BY Zenon DEF InOrder, RingOf
  <1> QED
    BY <1>1, <1>2, RingIs

\* The same in the next state.
LEMMA InOrderIsNext ==
    ASSUME TypeOK'
    PROVE  /\ InOrder' \in Seq(Descriptor) /\ Len(InOrder') = Used'
           /\ Used' \in 0 .. DescCount /\ sUnavailableTxDescIndex' \in Index
           /\ \A k \in 1 .. Used' :
                 /\ Wrap(sUnavailableTxDescIndex' + k - 1) \in Index
                 /\ InOrder'[k] = desc'[Wrap(sUnavailableTxDescIndex' + k - 1)]
  <1>1. /\ desc' \in [Index -> Descriptor] /\ sUnavailableTxDescIndex' \in Index
        /\ Used' \in 0 .. DescCount
    <2>1. sAvaliableSize' \in 0 .. DescCount
      BY DEF TypeOK
    <2>2. Used' = DescCount - sAvaliableSize'
      BY DEF Used
    <2>3. desc' \in [Index -> Descriptor] /\ sUnavailableTxDescIndex' \in Index
      BY DEF TypeOK, Index, Descriptor
    <2>4. \A s \in 0 .. DescCount : DescCount - s \in 0 .. DescCount
      BY DescCountAssumption
    <2>5. DescCount - sAvaliableSize' \in 0 .. DescCount
      BY <2>1, <2>4, Zenon
    <2>6. Used' \in 0 .. DescCount
      BY <2>2, <2>5, Zenon
    <2> QED
      BY <2>3, <2>6
  <1>2. InOrder' = RingOf(desc', sUnavailableTxDescIndex', Used')
    BY Zenon DEF InOrder, RingOf, Wrap
  <1> QED
    BY <1>1, <1>2, RingIs

\* D one descriptor longer; one shorter; with descriptor n + 1 written back.
Longer(D, E, d) ==
    /\ Len(E) = Len(D) + 1 /\ E[Len(E)] = d
    /\ \A k \in 1 .. Len(D) : E[k] = D[k]

Shorter(D, E) ==
    /\ Len(D) = Len(E) + 1
    /\ \A k \in 1 .. Len(E) : E[k] = D[k + 1]

WrittenBack(D, E, n) ==
    /\ Len(E) = Len(D) /\ n + 1 \in 1 .. Len(D)
    /\ \A k \in 1 .. Len(D) : k # n + 1 => E[k] = D[k]
    /\ E[n + 1] = [D[n + 1] EXCEPT !.own = FALSE,
                                   !.fd = @ /\ WritebackKeepsFlags,
                                   !.ld = @ /\ WritebackKeepsFlags]

\* What FillDescriptor does to the descriptors in use, seen as a sequence.
LEMMA FillView ==
    ASSUME IInv, FillDescriptor
    PROVE  /\ Longer(InOrder, InOrder', Filled(desc[sAvailableIndex], out.pbuf, out.bufIndex))
           /\ sAvailableIndex \in Index /\ ~desc[sAvailableIndex].own
           /\ sAvailableIndex = Wrap(sUnavailableTxDescIndex + Used)
           /\ \A i \in Index : i # sAvailableIndex => desc'[i] = desc[i]
           /\ desc'[sAvailableIndex] = Filled(desc[sAvailableIndex], out.pbuf, out.bufIndex)
  <1> DEFINE a == sAvailableIndex
             u == sUnavailableTxDescIndex
  <1>1. TypeOK /\ RingConsistent /\ RoomForOutput /\ TypeOK'
    BY FillDescriptorInv DEF IInv
  <1>2. PICK d : d = Filled(desc[a], out.pbuf, out.bufIndex)
    OBVIOUS
  <1>3. /\ pc = "output" /\ out.bufIndex < ChainLen[out.pbuf]
        /\ desc' = [desc EXCEPT ![a] = d]
        /\ sAvailableIndex' = After(a) /\ sAvaliableSize' = sAvaliableSize - 1
        /\ u' = u
    BY <1>2 DEF FillDescriptor
  <1>4. sAvaliableSize > 0
    BY <1>1, <1>3, ChainLenAssumption DEF TypeOK, RoomForOutput
  <1>5. a \notin InUse /\ Dist(a) = Used /\ a \in Index
    BY <1>1, <1>3, <1>4, InUseGrows DEF TypeOK
  <1>6. ~desc[a].own /\ a = Wrap(u + Used)
    BY <1>1, <1>5 DEF RingConsistent
  <1>7. desc'[a] = d /\ \A i \in Index : i # a => desc'[i] = desc[i]
    BY <1>1, <1>3, <1>5 DEF TypeOK
  <1>8. Used' = Used + 1 /\ Used \in Nat /\ Used < DescCount
    BY <1>1, <1>3, <1>4, DescCountAssumption DEF Used, TypeOK
  <1>9. PICK D, E : D = InOrder /\ E = InOrder'
    OBVIOUS
  <1>10. /\ Len(D) = Used /\ u \in Index
         /\ \A k \in 1 .. Used : Wrap(u + k - 1) \in Index /\ D[k] = desc[Wrap(u + k - 1)]
    BY <1>1, <1>9, InOrderIs
  <1>11. /\ Len(E) = Used'
         /\ \A k \in 1 .. Used' : E[k] = desc'[Wrap(u + k - 1)]
    BY <1>1, <1>3, <1>9, InOrderIsNext
  <1>12. E[Used + 1] = d
    <2>1. Used + 1 \in 1 .. Used' /\ u + (Used + 1) - 1 = u + Used
      BY <1>8, <1>10 DEF Index
    <2> QED
      BY <1>6, <1>7, <1>11, <2>1
  <1>13. \A k \in 1 .. Used : E[k] = D[k]
    <2> SUFFICES ASSUME NEW k \in 1 .. Used PROVE E[k] = D[k]
      OBVIOUS
    <2>1. k \in 1 .. Used'
      BY <1>8
    <2>2. Wrap(u + k - 1) # Wrap(u + Used)
      BY <1>8, <1>10, DescCountAssumption DEF Wrap, Index
    <2> QED
      BY <1>6, <1>7, <1>10, <1>11, <2>1, <2>2
  <1>14. Longer(D, E, d)
    BY <1>8, <1>10, <1>11, <1>12, <1>13 DEF Longer
  <1> QED
    BY <1>2, <1>5, <1>6, <1>7, <1>9, <1>14

\* What ReleaseDescriptor does to them.
LEMMA ReleaseView ==
    ASSUME IInv, ReleaseDescriptor
    PROVE  /\ Shorter(InOrder, InOrder') /\ ~InOrder[1].own
           /\ sUnavailableTxDescIndex' = After(sUnavailableTxDescIndex)
  <1> DEFINE u == sUnavailableTxDescIndex
  <1>1. TypeOK /\ RingConsistent /\ TypeOK'
    BY ReleaseDescriptorInv DEF IInv
  <1>2. /\ ~desc[u].own /\ desc' = desc /\ u' = After(u)
        /\ sAvaliableSize' = sAvaliableSize + 1
    BY DEF ReleaseDescriptor, NothingToRelease
  <1>0. Used \in Nat /\ Used' \in Nat /\ Used = Used' + 1
    BY <1>1, <1>2, DescCountAssumption DEF Used, TypeOK
  <1>3. PICK m \in Nat : m = Used
    BY <1>0
  <1>3a. PICK l \in Nat : l = Used'
    BY <1>0
  <1>3b. m = l + 1 /\ m \in Nat /\ l \in Nat
    BY <1>0, <1>3, <1>3a
  <1>4. PICK D, E : D = InOrder /\ E = InOrder'
    OBVIOUS
  <1>5. /\ Len(D) = m /\ u \in Index /\ m <= DescCount
        /\ \A k \in 1 .. m : D[k] = desc[Wrap(u + k - 1)]
    BY <1>1, <1>3, <1>4, InOrderIs
  <1>6. /\ Len(E) = l
        /\ \A k \in 1 .. l : E[k] = desc[Wrap(After(u) + k - 1)]
    BY <1>1, <1>2, <1>3a, <1>4, InOrderIsNext
  <1>7. \A k \in 1 .. l : E[k] = D[k + 1]
    <2> SUFFICES ASSUME NEW k \in 1 .. l PROVE E[k] = D[k + 1]
      OBVIOUS
    <2>1. k + 1 \in 1 .. m
      BY <1>3b
    <2>2. Wrap(After(u) + k - 1) = Wrap(u + (k + 1) - 1)
      BY <1>3b, <1>5, DescCountAssumption DEF Wrap, After, Index
    <2> QED
      BY <1>5, <1>6, <2>1, <2>2
  <1>8. D[1] = desc[u]
    <2>1. 1 \in 1 .. m /\ Wrap(u + 1 - 1) = u
      BY <1>3b, <1>5, DescCountAssumption DEF Wrap, Index
    <2> QED
      BY <1>5, <2>1
  <1>9. Shorter(D, E)
    BY <1>3b, <1>5, <1>6, <1>7 DEF Shorter
  <1> QED
    BY <1>2, <1>4, <1>8, <1>9

\* What DmaTransmit does to them, when the DMA has processed n of them.
LEMMA TransmitView ==
    ASSUME IInv, DmaTransmit, NEW n \in 0 .. Used, dma = Wrap(sUnavailableTxDescIndex + n),
           \A k \in 1 .. Used : InOrder[k].own <=> k > n
    PROVE  /\ n < Used /\ InOrder[n + 1] = desc[dma] /\ dma \in Index
           /\ WrittenBack(InOrder, InOrder', n)
           /\ dma' = Wrap(sUnavailableTxDescIndex + (n + 1))
           /\ \A i \in Index : i # dma => desc'[i] = desc[i]
           /\ desc'[dma] = [desc[dma] EXCEPT !.own = FALSE,
                                             !.fd = @ /\ WritebackKeepsFlags,
                                             !.ld = @ /\ WritebackKeepsFlags]
           /\ sUnavailableTxDescIndex' = sUnavailableTxDescIndex
  <1> DEFINE u == sUnavailableTxDescIndex
  <1>1. TypeOK /\ RingConsistent /\ TypeOK'
    BY DmaTransmitInv DEF IInv
  <1>2. PICK b : b = [desc[dma] EXCEPT !.own = FALSE,
                                       !.fd = @ /\ WritebackKeepsFlags,
                                       !.ld = @ /\ WritebackKeepsFlags]
    BY Zenon
  <1>3. /\ desc[dma].own /\ dma' = After(dma)
        /\ UNCHANGED <<sAvaliableSize, sUnavailableTxDescIndex>>
    BY DEF DmaTransmit
  <1>4. desc' = [desc EXCEPT ![dma] = b]
    <2>1. desc' = [desc EXCEPT ![dma].own = FALSE,
                            ![dma].fd = @ /\ WritebackKeepsFlags,
                            ![dma].ld = @ /\ WritebackKeepsFlags]
      BY DEF DmaTransmit
    <2> QED
      BY <1>1, <1>2, <2>1 DEF TypeOK, Descriptor
  <1>5. dma \in Index /\ u \in Index /\ Used \in 0 .. DescCount /\ Used' = Used
    BY <1>1, <1>3, DescCountAssumption DEF TypeOK, Used
  <1>6. dma \in InUse
    BY <1>1, <1>3, <1>5 DEF RingConsistent
  <1>7. n < Used
    <2>1. PICK m \in Nat : m = Used /\ m <= DescCount
      BY <1>5, DescCountAssumption
    <2>2. Dist(dma) < m
      BY <1>6, <2>1 DEF InUse
    <2>3. CASE n = DescCount
      <3>1. 1 \in 1 .. Used /\ ~(1 > n) /\ Wrap(u + 1 - 1) = dma
        BY <1>5, <2>1, <2>3, DescCountAssumption DEF Wrap, Index
      <3>2. ~InOrder[1].own /\ InOrder[1] = desc[dma]
        BY <1>1, <3>1, InOrderIs
      <3> QED
        BY <1>3, <3>2
    <2>4. CASE n # DescCount
      <3>1. n \in Nat /\ n < DescCount
        <4>1. n \in 0 .. m
          BY <2>1, Zenon
        <4> QED
          BY <2>1, <2>4, <4>1, DescCountAssumption
      <3>2. Dist(dma) = n
        BY <1>5, <3>1, DescCountAssumption DEF Dist, Wrap, Index
      <3> QED
        BY <2>1, <2>2, <3>1, <3>2
    <2> QED
      BY <2>3, <2>4
  <1>8. dma' = Wrap(u + (n + 1))
    BY <1>3, <1>5, <1>7, DescCountAssumption DEF After, Wrap, Index
  <1>9. desc'[dma] = b /\ \A i \in Index : i # dma => desc'[i] = desc[i]
    BY <1>1, <1>4, <1>5 DEF TypeOK
  <1>10. PICK D, E : D = InOrder /\ E = InOrder'
    OBVIOUS
  <1>11. /\ Len(D) = Used
         /\ \A k \in 1 .. Used : Wrap(u + k - 1) \in Index /\ D[k] = desc[Wrap(u + k - 1)]
    BY <1>1, <1>10, InOrderIs
  <1>12. /\ Len(E) = Used
         /\ \A k \in 1 .. Used : E[k] = desc'[Wrap(u + k - 1)]
    BY <1>1, <1>3, <1>5, <1>10, InOrderIsNext
  <1>13. n + 1 \in 1 .. Used /\ Wrap(u + (n + 1) - 1) = dma
    BY <1>5, <1>7 DEF Wrap, Index
  <1>14. D[n + 1] = desc[dma] /\ E[n + 1] = b
    BY <1>9, <1>11, <1>12, <1>13
  <1>15. \A k \in 1 .. Used : k # n + 1 => E[k] = D[k]
    <2> SUFFICES ASSUME NEW k \in 1 .. Used, k # n + 1 PROVE E[k] = D[k]
      OBVIOUS
    <2>1. Wrap(u + k - 1) # Wrap(u + n)
      BY <1>5, <1>7, DescCountAssumption DEF Wrap, Index
    <2> QED
      BY <1>9, <1>11, <1>12, <2>1
  <1>16. WrittenBack(D, E, n)
    BY <1>2, <1>11, <1>12, <1>13, <1>14, <1>15 DEF WrittenBack
  <1> QED
    BY <1>2, <1>3, <1>5, <1>7, <1>8, <1>9, <1>10, <1>14, <1>16

-----------------------------------------------------------------------------
(***************************************************************************)
(* The invariant of the refinement: the descriptors in use hold whole      *)
(* frames in a row, the DMA has processed the first n of them, and what it *)
(* has gathered is the beginning of the frame it is in.                    *)
(***************************************************************************)

\* The first b buffers of the chain of p.
Part(p, b) == [k \in 1 .. b |-> <<p, k - 1>>]

\* A descriptor as lowLevelOutput left it, up to the DMA's write-back.
Whole(d) ==
    /\ d \in Descriptor /\ d.pbuf \in Pbufs
    /\ d.count = IF d.first + 1 < ChainLen[d.pbuf] THEN 2 ELSE 1
    /\ d.first + d.count <= ChainLen[d.pbuf]
    /\ d.app = IF d.first + d.count = ChainLen[d.pbuf] THEN d.pbuf ELSE NoPbuf
    /\ d.own => (d.fd <=> d.first = 0) /\ (d.ld <=> d.app # NoPbuf)

\* Buffer b of p is what may come next after descriptor d: the rest of the same
\* chain, or the start of another one (or nothing, the chain being finished).
Follows(d, p, b) ==
    IF d.app = NoPbuf THEN p = d.pbuf /\ b = d.first + d.count
    ELSE b = 0 \/ b = ChainLen[p]

\* The descriptors in use hold whole frames in a row, and the last one is
\* complete unless lowLevelOutput, at c = pc and o = out, is filling it.
Lined(D, c, o) ==
    /\ \A k \in 1 .. Len(D) : Whole(D[k])
    /\ \A k \in 1 .. Len(D) : k < Len(D) => Follows(D[k], D[k + 1].pbuf, D[k + 1].first)
    /\ (c = "output" /\ Len(D) = 0) => o.bufIndex = 0
    /\ (c = "output" /\ Len(D) # 0) => Follows(D[Len(D)], o.pbuf, o.bufIndex)
    /\ (c # "output" /\ Len(D) # 0) => D[Len(D)].app # NoPbuf

\* The DMA has processed n descriptors of those in use, and has gathered the
\* buffers of the chain that precede those of the next one.
Reached(D, n, fr, c, o) ==
    /\ n \in Nat /\ n <= Len(D)
    /\ \A k \in 1 .. Len(D) : D[k].own <=> k > n
    /\ n < Len(D) => fr = Part(D[n + 1].pbuf, D[n + 1].first)
    /\ (n = Len(D) /\ c = "output" /\ o.bufIndex < ChainLen[o.pbuf])
          => fr = Part(o.pbuf, o.bufIndex)
    /\ (n = Len(D) /\ ~(c = "output" /\ o.bufIndex < ChainLen[o.pbuf])) => fr = <<>>

\* A write-back that clears FD and LD clears them in every descriptor the DMA
\* is done with; one that keeps them is harmless when every frame is one descriptor.
FlagsOff == WritebackKeepsFlags \/ \A i \in Index : ~desc[i].own => ~desc[i].fd /\ ~desc[i].ld

\* The invariant, which holds besides IInv.
QInv ==
    /\ FlagsOff
    /\ Lined(InOrder, pc, out)
    /\ \E n \in 0 .. Used : /\ dma = Wrap(sUnavailableTxDescIndex + n)
                            /\ Reached(InOrder, n, frame, pc, out)

\* Before the first buffer of a chain there is nothing.
LEMMA PartEmpty == ASSUME NEW p PROVE Part(p, 0) = <<>>
  BY DEF Part

\* All the buffers of a chain are the chain.
LEMMA PartWhole == ASSUME NEW p PROVE Part(p, ChainLen[p]) = Chain(p)
  BY DEF Part, Chain

\* The buffers of a descriptor follow those that precede it in its chain.
LEMMA PartGrows ==
    ASSUME NEW d \in Descriptor
    PROVE  Part(d.pbuf, d.first) \o Buffers(d) = Part(d.pbuf, d.first + d.count)
  <1>1. PICK p, b, c : p = d.pbuf /\ b = d.first /\ c = d.count
    OBVIOUS
  <1> DEFINE L == Part(p, b)
             B == [k \in 1 .. c |-> <<p, b + k - 1>>]
             R == Part(p, b + c)
             S == {p} \X Nat
  <1>2. Buffers(d) = B
    BY <1>1 DEF Buffers
  <1>0. b \in Nat /\ c \in Nat
    BY <1>1 DEF Descriptor
  <1>3. L \in Seq(S) /\ Len(L) = b
    <2>1. \A k \in 1 .. b : <<p, k - 1>> \in {p} \X Nat
      BY <1>0
    <2> QED
      BY <1>0, <2>1 DEF Part
  <1>4. B \in Seq(S) /\ Len(B) = c
    <2>1. \A k \in 1 .. c : <<p, b + k - 1>> \in {p} \X Nat
      BY <1>0
    <2> QED
      BY <1>0, <2>1
  <1>5. R \in Seq(S) /\ Len(R) = b + c
    <2>1. \A k \in 1 .. b + c : <<p, k - 1>> \in {p} \X Nat
      BY <1>0
    <2> QED
      BY <1>0, <2>1 DEF Part
  <1>6. \A k \in 1 .. b : L[k] = R[k]
    BY <1>0 DEF Part
  <1>7. \A k \in 1 .. c : B[k] = R[b + k]
    BY <1>0 DEF Part
  <1>8. L \o B = R
    <2> HIDE DEF L, B, R, S
    <2>1. Len(L \o B) = Len(R) /\ L \o B \in Seq(S)
      BY <1>0, <1>3, <1>4, <1>5
    <2>2. ASSUME NEW k \in 1 .. b + c PROVE (L \o B)[k] = R[k]
      <3>1. CASE k <= b
        <4>1. k \in 1 .. b /\ k \in 1 .. Len(L)
          BY <1>0, <1>3, <3>1
        <4>2. (L \o B)[k] = L[k]
          BY <1>0, <1>3, <1>4, <4>1
        <4> QED
          BY <1>6, <4>1, <4>2
      <3>2. CASE k > b
        <4>1. PICK j \in 1 .. c : k = b + j
          <5>1. k - b \in 1 .. c /\ k = b + (k - b)
            BY <1>0, <3>2
          <5> QED
            BY <5>1
        <4>2. (L \o B)[b + j] = B[j]
          BY <1>0, <1>3, <1>4, <4>1
        <4> QED
          BY <1>7, <4>1, <4>2
      <3>3. k <= b \/ k > b
        BY <1>0
      <3> QED
        BY <3>1, <3>2, <3>3
    <2> QED
      BY <1>5, <2>1, <2>2
  <1> QED
    BY <1>1, <1>2, <1>8

\* What the DMA gathers is the chain up to the end of the descriptor.
LEMMA GatheredIs ==
    ASSUME NEW d, Whole(d), d.own, NEW fr, fr = Part(d.pbuf, d.first)
    PROVE  (IF d.fd THEN Buffers(d) ELSE fr \o Buffers(d)) = Part(d.pbuf, d.first + d.count)
  <1>1. d \in Descriptor /\ (d.fd <=> d.first = 0)
    BY DEF Whole
  <1>2. CASE d.fd
    <2>1. d.first = 0 /\ d.count \in Nat
      BY <1>1, <1>2 DEF Descriptor
    <2>2. Buffers(d) = [k \in 1 .. d.count |-> <<d.pbuf, 0 + k - 1>>]
      BY <2>1 DEF Buffers
    <2>3. Buffers(d) = Part(d.pbuf, 0 + d.count)
      BY <2>1, <2>2 DEF Part
    <2> QED
      BY <1>2, <2>1, <2>3
  <1>3. CASE ~d.fd
    BY <1>1, <1>3, PartGrows
  <1> QED
    BY <1>2, <1>3

\* FillDescriptor appends d to the descriptors in use.
FillStep(D, E, d, n, fr, c, o, z) ==
    /\ D \in Seq(Descriptor) /\ E \in Seq(Descriptor) /\ Longer(D, E, d)
    /\ Lined(D, c, o) /\ Reached(D, n, fr, c, o)
    /\ Whole(d) /\ d.own /\ d.pbuf = o.pbuf /\ d.first = o.bufIndex
    /\ c = "output" /\ o.bufIndex \in Nat /\ o.bufIndex < ChainLen[o.pbuf]
    /\ z.pbuf = o.pbuf /\ z.bufIndex = o.bufIndex + d.count

\* It keeps the row in line, and the DMA where it was.
LEMMA FillKeeps ==
    ASSUME NEW D, NEW E, NEW d, NEW n, NEW fr, NEW c, NEW o, NEW z,
           FillStep(D, E, d, n, fr, c, o, z)
    PROVE  Lined(E, c, z) /\ Reached(E, n, fr, c, z)
  <1>1. PICK m \in Nat, l \in Nat : m = Len(D) /\ l = Len(E)
    BY DEF FillStep
  <1>2. /\ l = m + 1 /\ m \in Nat /\ l \in Nat /\ E[l] = d
        /\ \A k \in 1 .. m : E[k] = D[k]
    BY <1>1 DEF FillStep, Longer
  <1>3. \A k \in 1 .. l : k \in 1 .. m \/ k = l
    BY <1>2
  <1>4. \A k \in 1 .. m : Whole(D[k]) /\ (D[k].own <=> k > n)
    BY <1>1 DEF FillStep, Lined, Reached
  <1>5. n \in Nat /\ n <= m
    BY <1>1 DEF FillStep, Reached
  <1>6. \A k \in 1 .. l : Whole(E[k]) /\ (E[k].own <=> k > n)
    <2>1. Whole(d) /\ d.own /\ l > n
      BY <1>2, <1>5 DEF FillStep
    <2> QED
      BY <1>2, <1>3, <1>4, <2>1
  <1>7. ASSUME NEW k \in 1 .. l, k < l
        PROVE  Follows(E[k], E[k + 1].pbuf, E[k + 1].first)
    <2>1. k \in 1 .. m /\ E[k] = D[k]
      BY <1>2, <1>3, <1>7
    <2>2. CASE k < m
      <3>1. k + 1 \in 1 .. m
        BY <1>2, <2>1, <2>2
      <3>2. E[k + 1] = D[k + 1]
        BY <1>2, <3>1
      <3> QED
        BY <1>1, <2>1, <2>2, <3>2 DEF FillStep, Lined
    <2>3. CASE k = m
      <3>1. E[k + 1] = d /\ m # 0
        BY <1>2, <2>1, <2>3
      <3>2. Follows(D[m], o.pbuf, o.bufIndex)
        BY <1>1, <3>1 DEF FillStep, Lined
      <3> QED
        BY <2>1, <2>3, <3>1, <3>2 DEF FillStep
    <2> QED
      BY <1>2, <2>1, <2>2, <2>3
  <1>8. Follows(E[l], z.pbuf, z.bufIndex) /\ l # 0
    <2>1. /\ d.app = IF d.first + d.count = ChainLen[d.pbuf] THEN d.pbuf ELSE NoPbuf
          /\ z.pbuf = d.pbuf /\ z.bufIndex = d.first + d.count
      BY DEF FillStep, Whole
    <2>2. Follows(d, z.pbuf, z.bufIndex)
      BY <2>1 DEF Follows
    <2> QED
      BY <1>2, <2>2
  <1>9. Lined(E, c, z)
    BY <1>1, <1>6, <1>7, <1>8 DEF Lined, FillStep
  <1>10. fr = Part(E[n + 1].pbuf, E[n + 1].first)
    <2>1. CASE n < m
      <3>1. n + 1 \in 1 .. m /\ fr = Part(D[n + 1].pbuf, D[n + 1].first)
        BY <1>1, <1>2, <1>5, <2>1 DEF FillStep, Reached
      <3> QED
        BY <1>2, <3>1
    <2>2. CASE n = m
      <3>1. fr = Part(o.pbuf, o.bufIndex)
        BY <1>1, <2>2 DEF FillStep, Reached
      <3>2. E[n + 1] = d /\ d.pbuf = o.pbuf /\ d.first = o.bufIndex
        BY <1>2, <2>2 DEF FillStep
      <3> QED
        BY <3>1, <3>2
    <2> QED
      BY <1>2, <1>5, <2>1, <2>2
  <1>11. n < l /\ n <= l /\ n # l
    BY <1>2, <1>5
  <1>12. Reached(E, n, fr, c, z)
    BY <1>1, <1>5, <1>6, <1>10, <1>11 DEF Reached
  <1> QED
    BY <1>9, <1>12

\* ReleaseDescriptor takes the first away.
ReleaseStep(D, E, n, fr, c, o) ==
    /\ D \in Seq(Descriptor) /\ E \in Seq(Descriptor) /\ Shorter(D, E)
    /\ Lined(D, c, o) /\ Reached(D, n, fr, c, o)
    /\ ~D[1].own /\ c # "output"

\* It keeps the row in line, and the DMA one place nearer its start.
LEMMA ReleaseKeeps ==
    ASSUME NEW D, NEW E, NEW n, NEW fr, NEW c, NEW o,
           ReleaseStep(D, E, n, fr, c, o)
    PROVE  /\ Lined(E, c, o)
           /\ \E i \in Nat : n = i + 1 /\ i <= Len(E) /\ Reached(E, i, fr, c, o)
  <1>1. PICK m \in Nat, l \in Nat : m = Len(D) /\ l = Len(E)
    BY DEF ReleaseStep
  <1>2. /\ m = l + 1 /\ m \in Nat /\ l \in Nat
        /\ \A k \in 1 .. l : E[k] = D[k + 1]
    BY <1>1 DEF ReleaseStep, Shorter
  <1>3. \A k \in 1 .. l : k + 1 \in 1 .. m
    BY <1>2
  <1>4. \A k \in 1 .. m : Whole(D[k]) /\ (D[k].own <=> k > n)
    BY <1>1 DEF ReleaseStep, Lined, Reached
  <1>5. n \in Nat /\ n <= m /\ n >= 1
    <2>1. n \in Nat /\ n <= m
      BY <1>1 DEF ReleaseStep, Reached
    <2>2. 1 \in 1 .. m
      BY <1>2
    <2>3. ~(1 > n)
      BY <1>4, <2>2 DEF ReleaseStep
    <2> QED
      BY <2>1, <2>3
  <1>6. PICK i \in Nat : n = i + 1
    <2>1. n - 1 \in Nat /\ n = (n - 1) + 1
      BY <1>5
    <2> QED
      BY <2>1
  <1>7. n = i + 1 /\ i \in Nat /\ i <= l
    BY <1>2, <1>5, <1>6
  <1>8. \A k \in 1 .. l : Whole(E[k]) /\ (E[k].own <=> k > i)
    <2> SUFFICES ASSUME NEW k \in 1 .. l PROVE Whole(E[k]) /\ (E[k].own <=> k > i)
      OBVIOUS
    <2>1. E[k] = D[k + 1] /\ Whole(D[k + 1]) /\ (D[k + 1].own <=> k + 1 > n)
      BY <1>2, <1>3, <1>4
    <2>2. k + 1 > n <=> k > i
      BY <1>7
    <2> QED
      BY <2>1, <2>2
  <1>9. ASSUME NEW k \in 1 .. l, k < l
        PROVE  Follows(E[k], E[k + 1].pbuf, E[k + 1].first)
    <2>1. PICK j \in 1 .. m : j = k + 1 /\ j < m /\ j \in 1 .. l
      <3>1. k + 1 \in 1 .. m /\ k + 1 < m /\ k + 1 \in 1 .. l
        BY <1>2, <1>9
      <3> QED
        BY <3>1
    <2>2. E[k] = D[j] /\ E[k + 1] = D[j + 1]
      <3>1. E[k] = D[k + 1] /\ E[j] = D[j + 1]
        BY <1>2, <2>1
      <3> QED
        BY <2>1, <3>1
    <2>3. Follows(D[j], D[j + 1].pbuf, D[j + 1].first)
      BY <1>1, <2>1 DEF ReleaseStep, Lined
    <2> QED
      BY <2>2, <2>3
  <1>10. l # 0 => E[l] = D[m]
    <2> SUFFICES ASSUME l # 0 PROVE E[l] = D[m]
      OBVIOUS
    <2>1. l \in 1 .. l /\ l + 1 = m
      BY <1>2
    <2>2. E[l] = D[l + 1]
      BY <1>2, <2>1
    <2> QED
      BY <2>1, <2>2
  <1>11. l # 0 => E[l].app # NoPbuf
    BY <1>1, <1>2, <1>10 DEF ReleaseStep, Lined
  <1>12. Lined(E, c, o)
    BY <1>1, <1>8, <1>9, <1>11 DEF Lined, ReleaseStep
  <1>13. i < l => fr = Part(E[i + 1].pbuf, E[i + 1].first)
    <2> SUFFICES ASSUME i < l PROVE fr = Part(E[i + 1].pbuf, E[i + 1].first)
      OBVIOUS
    <2>1. i + 1 \in 1 .. l /\ n < m
      BY <1>2, <1>7
    <2>2. E[n] = D[n + 1]
      BY <1>2, <1>7, <2>1
    <2>3. fr = Part(D[n + 1].pbuf, D[n + 1].first)
      BY <1>1, <2>1 DEF ReleaseStep, Reached
    <2> QED
      BY <1>7, <2>2, <2>3
  <1>14. i = l => fr = <<>>
    <2> SUFFICES ASSUME i = l PROVE fr = <<>>
      OBVIOUS
    <2>1. n = m
      BY <1>2, <1>7
    <2> QED
      BY <1>1, <2>1 DEF ReleaseStep, Reached
  <1>15. Reached(E, i, fr, c, o)
    BY <1>1, <1>7, <1>8, <1>13, <1>14 DEF Reached, ReleaseStep
  <1> QED
    BY <1>1, <1>7, <1>12, <1>15

\* What the DMA has gathered after descriptor d.
Gathered(d, fr) == IF d.fd THEN Buffers(d) ELSE fr \o Buffers(d)

\* DmaTransmit processes descriptor n + 1.
DmaStep(D, E, n, fr, fw, c, o) ==
    /\ D \in Seq(Descriptor) /\ E \in Seq(Descriptor) /\ WrittenBack(D, E, n)
    /\ Lined(D, c, o) /\ Reached(D, n, fr, c, o)
    /\ fw = IF D[n + 1].ld THEN <<>> ELSE Gathered(D[n + 1], fr)
    /\ c = "output" => o.pbuf \in Pbufs

\* It keeps the row in line and moves the DMA on by one.
LEMMA DmaKeeps ==
    ASSUME NEW D, NEW E, NEW n, NEW fr, NEW fw, NEW c, NEW o,
           DmaStep(D, E, n, fr, fw, c, o)
    PROVE  /\ Whole(D[n + 1]) /\ D[n + 1].own
           /\ Gathered(D[n + 1], fr) = Part(D[n + 1].pbuf, D[n + 1].first + D[n + 1].count)
           /\ Lined(E, c, o) /\ Reached(E, n + 1, fw, c, o)
  <1>1. PICK m \in Nat : m = Len(D) /\ m = Len(E)
    BY DEF DmaStep, WrittenBack
  <1>2. PICK j \in Nat : j = n + 1
    BY DEF DmaStep, Reached
  <1>3. /\ n \in Nat /\ j \in 1 .. m /\ j = n + 1 /\ n < m /\ m \in Nat
        /\ \A k \in 1 .. m : k # j => E[k] = D[k]
    BY <1>1, <1>2 DEF DmaStep, WrittenBack, Reached
  <1>4. PICK d, e : d = D[j] /\ e = E[j]
    OBVIOUS
  <1>5. Whole(d) /\ d.own /\ fr = Part(d.pbuf, d.first)
    <2>1. Whole(D[j]) /\ (D[j].own <=> j > n)
      BY <1>1, <1>3 DEF DmaStep, Lined, Reached
    <2>2. fr = Part(D[n + 1].pbuf, D[n + 1].first)
      BY <1>1, <1>3 DEF DmaStep, Reached
    <2> QED
      BY <1>3, <1>4, <2>1, <2>2
  <1>6. Gathered(d, fr) = Part(d.pbuf, d.first + d.count)
    BY <1>5, GatheredIs DEF Gathered
  <1>7. fw = IF d.ld THEN <<>> ELSE Gathered(d, fr)
    BY <1>2, <1>4 DEF DmaStep
  <1>8. /\ e \in Descriptor /\ e.own = FALSE /\ e.pbuf = d.pbuf /\ e.first = d.first
        /\ e.count = d.count /\ e.app = d.app
    <2>1. e = [d EXCEPT !.own = FALSE, !.fd = @ /\ WritebackKeepsFlags,
                        !.ld = @ /\ WritebackKeepsFlags]
      BY <1>2, <1>4 DEF DmaStep, WrittenBack
    <2>2. d \in Descriptor
      BY <1>5 DEF Whole
    <2> QED
      BY <2>1, <2>2, HardwareAssumption DEF Descriptor
  <1>9. Whole(e)
    BY <1>5, <1>8 DEF Whole
  <1>10. \A k \in 1 .. m : Whole(E[k])
    <2>1. \A k \in 1 .. m : Whole(D[k])
      BY <1>1 DEF DmaStep, Lined
    <2> QED
      BY <1>3, <1>4, <1>9, <2>1
  <1>11. \A k \in 1 .. m : E[k].pbuf = D[k].pbuf /\ E[k].first = D[k].first
                          /\ E[k].count = D[k].count /\ E[k].app = D[k].app
    BY <1>3, <1>4, <1>8
  <1>12. ASSUME NEW k \in 1 .. m, k < m
         PROVE  Follows(E[k], E[k + 1].pbuf, E[k + 1].first)
    <2>1. k + 1 \in 1 .. m
      BY <1>3, <1>12
    <2>2. Follows(D[k], D[k + 1].pbuf, D[k + 1].first)
      BY <1>1, <1>12 DEF DmaStep, Lined
    <2>3. E[k + 1].pbuf = D[k + 1].pbuf /\ E[k + 1].first = D[k + 1].first
      BY <1>11, <2>1
    <2>4. E[k].pbuf = D[k].pbuf /\ E[k].first = D[k].first
          /\ E[k].count = D[k].count /\ E[k].app = D[k].app
      BY <1>11
    <2> QED
      BY <2>2, <2>3, <2>4 DEF Follows
  <1>13. m \in 1 .. m /\ m # 0
    BY <1>3
  <1>14. (c = "output" => Follows(E[m], o.pbuf, o.bufIndex)) /\ (c # "output" => E[m].app # NoPbuf)
    <2>1. (c = "output" => Follows(D[m], o.pbuf, o.bufIndex)) /\ (c # "output" => D[m].app # NoPbuf)
      BY <1>1, <1>13 DEF DmaStep, Lined
    <2>2. E[m].pbuf = D[m].pbuf /\ E[m].first = D[m].first
          /\ E[m].count = D[m].count /\ E[m].app = D[m].app
      BY <1>11, <1>13
    <2> QED
      BY <2>1, <2>2 DEF Follows
  <1>15. Lined(E, c, o)
    BY <1>1, <1>10, <1>12, <1>13, <1>14 DEF Lined
  <1>16. \A k \in 1 .. m : E[k].own <=> k > j
    <2>1. \A k \in 1 .. m : D[k].own <=> k > n
      BY <1>1 DEF DmaStep, Reached
    <2>2. \A k \in 1 .. m : k # j => (k > n <=> k > j)
      BY <1>3
    <2>3. ~(j > j)
      BY <1>3
    <2> QED
      BY <1>3, <1>4, <1>8, <2>1, <2>2, <2>3
  <1>17. d.ld <=> d.app # NoPbuf
    BY <1>5 DEF Whole
  <1>18. j < m => fw = Part(E[j + 1].pbuf, E[j + 1].first)
    <2> SUFFICES ASSUME j < m PROVE fw = Part(E[j + 1].pbuf, E[j + 1].first)
      OBVIOUS
    <2>1. PICK p, b : p = E[j + 1].pbuf /\ b = E[j + 1].first
      OBVIOUS
    <2>2. Follows(d, p, b)
      <3>1. Follows(E[j], E[j + 1].pbuf, E[j + 1].first)
        BY <1>3, <1>12
      <3> QED
        BY <1>4, <1>8, <2>1, <3>1 DEF Follows
    <2>3. b \in Nat /\ p \in Pbufs /\ b < ChainLen[p]
      <3>1. j + 1 \in 1 .. m
        BY <1>3
      <3>2. Whole(E[j + 1])
        BY <1>10, <3>1
      <3> QED
        BY <2>1, <3>2, ChainLenAssumption DEF Whole, Descriptor
    <2>4. CASE d.app = NoPbuf
      <3>1. p = d.pbuf /\ b = d.first + d.count /\ ~d.ld
        BY <1>17, <2>2, <2>4 DEF Follows
      <3> QED
        BY <1>6, <1>7, <2>1, <3>1
    <2>5. CASE d.app # NoPbuf
      <3>1. b = 0 /\ d.ld
        BY <1>17, <2>2, <2>3, <2>5, ChainLenAssumption DEF Follows
      <3> QED
        BY <1>7, <2>1, <3>1, PartEmpty
    <2> QED
      BY <2>4, <2>5
  <1>19. (j = m /\ c = "output" /\ o.bufIndex < ChainLen[o.pbuf]) => fw = Part(o.pbuf, o.bufIndex)
    <2> SUFFICES ASSUME j = m, c = "output", o.bufIndex < ChainLen[o.pbuf]
                 PROVE  fw = Part(o.pbuf, o.bufIndex)
      OBVIOUS
    <2>1. PICK p, b : p = o.pbuf /\ b = o.bufIndex
      OBVIOUS
    <2>2. Follows(d, p, b)
      BY <1>4, <1>8, <1>14, <2>1 DEF Follows
    <2>3. p \in Pbufs /\ b < ChainLen[p]
      BY <2>1 DEF DmaStep
    <2>4. CASE d.app = NoPbuf
      <3>1. p = d.pbuf /\ b = d.first + d.count /\ ~d.ld
        BY <1>17, <2>2, <2>4 DEF Follows
      <3> QED
        BY <1>6, <1>7, <2>1, <3>1
    <2>5. CASE d.app # NoPbuf
      <3>1. b = 0 /\ d.ld
        BY <1>17, <2>2, <2>3, <2>5, ChainLenAssumption DEF Follows
      <3> QED
        BY <1>7, <2>1, <3>1, PartEmpty
    <2> QED
      BY <2>4, <2>5
  <1>20. (j = m /\ ~(c = "output" /\ o.bufIndex < ChainLen[o.pbuf])) => fw = <<>>
    <2> SUFFICES ASSUME j = m, ~(c = "output" /\ o.bufIndex < ChainLen[o.pbuf])
                 PROVE  d.app # NoPbuf
      BY <1>7, <1>17
    <2>1. CASE c # "output"
      BY <1>4, <1>8, <1>14, <2>1
    <2>2. CASE c = "output" /\ d.app = NoPbuf
      <3>1. o.pbuf = d.pbuf /\ o.bufIndex = d.first + d.count
        BY <1>4, <1>8, <1>14, <2>2 DEF Follows
      <3>2. /\ d.pbuf \in Pbufs /\ d.first \in Nat /\ d.count \in Nat
            /\ d.first + d.count <= ChainLen[d.pbuf]
            /\ d.first + d.count # ChainLen[d.pbuf] /\ ChainLen[d.pbuf] \in Nat
        BY <1>5, <2>2, ChainLenAssumption, PbufsAssumption DEF Whole, Descriptor
      <3>3. d.first + d.count < ChainLen[d.pbuf]
        BY <3>2
      <3>4. o.bufIndex < ChainLen[o.pbuf]
        BY <3>1, <3>3
      <3> QED
        BY <2>2, <3>4
    <2> QED
      BY <2>1, <2>2
  <1>21. j <= m
    BY <1>3
  <1>22. Reached(E, j, fw, c, o)
    BY <1>1, <1>3, <1>16, <1>18, <1>19, <1>20, <1>21 DEF Reached
  <1> QED
    BY <1>2, <1>4, <1>5, <1>6, <1>15, <1>22

\* BeginOutput, at z = out', follows what is complete; nothing is gathered of it.
LEMMA BeginKeeps ==
    ASSUME NEW D \in Seq(Descriptor), NEW n, NEW fr, NEW c, NEW o, NEW z,
           Lined(D, c, o), Reached(D, n, fr, c, o), c = "idle", z.bufIndex = 0
    PROVE  Lined(D, "output", z) /\ Reached(D, n, fr, "output", z)
  <1>1. Lined(D, "output", z)
    BY DEF Lined, Follows
  <1>2. n = Len(D) => fr = <<>> /\ fr = Part(z.pbuf, z.bufIndex)
    BY PartEmpty DEF Reached
  <1>3. Reached(D, n, fr, "output", z)
    BY <1>2 DEF Reached
  <1> QED
    BY <1>1, <1>3

\* Doorbell ends a call whose chain is filled.
LEMMA DoorbellKeeps ==
    ASSUME NEW D \in Seq(Descriptor), NEW n, NEW fr, NEW c, NEW o, NEW z,
           Lined(D, c, o), Reached(D, n, fr, c, o),
           c = "output", o.pbuf \in Pbufs, o.bufIndex = ChainLen[o.pbuf]
    PROVE  Lined(D, "idle", z) /\ Reached(D, n, fr, "idle", z)
  <1>0. ~(o.bufIndex < ChainLen[o.pbuf])
    BY ChainLenAssumption
  <1>1. Len(D) # 0 => D[Len(D)].app # NoPbuf
    <2> SUFFICES ASSUME Len(D) # 0, D[Len(D)].app = NoPbuf PROVE FALSE
      OBVIOUS
    <2>1. PICK d : d = D[Len(D)]
      OBVIOUS
    <2>2. o.pbuf = d.pbuf /\ o.bufIndex = d.first + d.count
      BY <2>1 DEF Lined, Follows
    <2>3. Whole(d)
      <3>1. Len(D) \in 1 .. Len(D)
        OBVIOUS
      <3> QED
        BY <2>1, <3>1 DEF Lined
    <2> QED
      BY <2>1, <2>2, <2>3, PbufsAssumption DEF Whole
  <1>2. Lined(D, "idle", z)
    BY <1>1 DEF Lined
  <1>3. Reached(D, n, fr, "idle", z)
    BY <1>0 DEF Reached
  <1> QED
    BY <1>2, <1>3

\* Any other step of the driver's thread.
LEMMA OtherKeeps ==
    ASSUME NEW D \in Seq(Descriptor), NEW n, NEW fr, NEW c, NEW o, NEW b,
           Lined(D, c, o), Reached(D, n, fr, c, o), c # "output", b # "output"
    PROVE  Lined(D, b, o) /\ Reached(D, n, fr, b, o)
  <1>1. Lined(D, b, o)
    BY DEF Lined
  <1>2. Reached(D, n, fr, b, o)
    BY DEF Reached
  <1> QED
    BY <1>1, <1>2

\* Owned and Processed, of any row of descriptors; the frames they hold.
OwnedOf(D) == [k \in 1 .. Len(D) |-> IF D[k].own THEN D[k].app ELSE NoPbuf]
ProcessedOf(D) == [k \in 1 .. Len(D) |-> IF D[k].own THEN NoPbuf ELSE D[k].app]
Waiting(D) == FramesOf(OwnedOf(D))
Gone(D) == FramesOf(ProcessedOf(D))

\* What OwnedOf and ProcessedOf are, element by element.
LEMMA PartsOf ==
    ASSUME NEW D \in Seq(Descriptor)
    PROVE  /\ OwnedOf(D) \in Seq(PbufOrNone) /\ Len(OwnedOf(D)) = Len(D)
           /\ ProcessedOf(D) \in Seq(PbufOrNone) /\ Len(ProcessedOf(D)) = Len(D)
           /\ \A k \in 1 .. Len(D) :
                 /\ OwnedOf(D)[k] = IF D[k].own THEN D[k].app ELSE NoPbuf
                 /\ ProcessedOf(D)[k] = IF D[k].own THEN NoPbuf ELSE D[k].app
  <1> DEFINE q == [k \in 1 .. Len(D) |-> IF D[k].own THEN D[k].app ELSE NoPbuf]
             w == [k \in 1 .. Len(D) |-> IF D[k].own THEN NoPbuf ELSE D[k].app]
  <1>1. \A k \in 1 .. Len(D) : D[k].app \in PbufOrNone
    <2>1. \A k \in 1 .. Len(D) : D[k] \in Descriptor
      OBVIOUS
    <2>2. \A d \in Descriptor : d.app \in PbufOrNone
      BY DEF Descriptor, PbufOrNone
    <2> QED
      BY <2>1, <2>2
  <1>2. NoPbuf \in PbufOrNone
    BY DEF PbufOrNone
  <1>3. q \in Seq(PbufOrNone) /\ Len(q) = Len(D)
    BY <1>1, <1>2
  <1>4. w \in Seq(PbufOrNone) /\ Len(w) = Len(D)
    BY <1>1, <1>2
  <1> QED
    BY <1>3, <1>4 DEF OwnedOf, ProcessedOf

\* There are no more frames than descriptors.
LEMMA FramesFit ==
    ASSUME NEW D \in Seq(Descriptor)
    PROVE  /\ Waiting(D) \in Seq(Pbufs) /\ Gone(D) \in Seq(Pbufs)
           /\ Len(Waiting(D)) + Len(Gone(D)) <= Len(D)
  <1>1. PICK q, w : q = OwnedOf(D) /\ w = ProcessedOf(D)
    OBVIOUS
  <1>2. /\ q \in Seq(PbufOrNone) /\ Len(q) = Len(D)
        /\ w \in Seq(PbufOrNone) /\ Len(w) = Len(D)
        /\ \A k \in 1 .. Len(q) : q[k] = NoPbuf \/ w[k] = NoPbuf
    BY <1>1, PartsOf
  <1>3. /\ FramesOf(q) \in Seq(Pbufs) /\ FramesOf(w) \in Seq(Pbufs)
        /\ Len(FramesOf(q)) + Len(FramesOf(w)) <= Len(q)
    BY <1>2, FewFrames
  <1> QED
    BY <1>1, <1>2, <1>3 DEF Waiting, Gone

\* What filling a descriptor does to the frames waiting and gone.
LEMMA FillFrames ==
    ASSUME NEW D, NEW E, NEW d, NEW n, NEW fr, NEW c, NEW o, NEW z,
           FillStep(D, E, d, n, fr, c, o, z)
    PROVE  /\ d.app = NoPbuf => Waiting(E) = Waiting(D)
           /\ d.app # NoPbuf => d.app \in Pbufs /\ Waiting(E) = With(Waiting(D), d.app)
           /\ Gone(E) = Gone(D)
  <1>1. PICK q, w, qq, ww : /\ q = OwnedOf(D) /\ w = ProcessedOf(D)
                            /\ qq = OwnedOf(E) /\ ww = ProcessedOf(E)
    OBVIOUS
  <1>2. PICK m \in Nat, l \in Nat : m = Len(D) /\ l = Len(E)
    BY DEF FillStep
  <1>3. /\ l = m + 1 /\ m \in Nat /\ l \in Nat /\ E[l] = d /\ d.own
        /\ \A k \in 1 .. m : E[k] = D[k]
    BY <1>2 DEF FillStep, Longer
  <1>4. /\ q \in Seq(PbufOrNone) /\ Len(q) = m /\ w \in Seq(PbufOrNone) /\ Len(w) = m
        /\ \A k \in 1 .. m : /\ q[k] = IF D[k].own THEN D[k].app ELSE NoPbuf
                             /\ w[k] = IF D[k].own THEN NoPbuf ELSE D[k].app
    BY <1>1, <1>2, PartsOf DEF FillStep
  <1>5. /\ qq \in Seq(PbufOrNone) /\ Len(qq) = l /\ ww \in Seq(PbufOrNone) /\ Len(ww) = l
        /\ \A k \in 1 .. l : /\ qq[k] = IF E[k].own THEN E[k].app ELSE NoPbuf
                             /\ ww[k] = IF E[k].own THEN NoPbuf ELSE E[k].app
    BY <1>1, <1>2, PartsOf DEF FillStep
  <1>6. \A k \in 1 .. m : k \in 1 .. l /\ E[k] = D[k]
    BY <1>3
  <1>7. \A k \in 1 .. m : qq[k] = q[k] /\ ww[k] = w[k]
    BY <1>4, <1>5, <1>6
  <1>8. l \in 1 .. l
    BY <1>3
  <1>9. qq[l] = d.app /\ ww[l] = NoPbuf
    BY <1>3, <1>5, <1>8
  <1>10. /\ qq[l] = NoPbuf => FramesOf(qq) = FramesOf(q)
         /\ qq[l] # NoPbuf => /\ qq[l] \in Pbufs
                              /\ FramesOf(qq) = With(FramesOf(q), qq[l])
    BY <1>3, <1>4, <1>5, <1>7, FramesGrow
  <1>11. FramesOf(ww) = FramesOf(w)
    BY <1>3, <1>4, <1>5, <1>7, <1>9, FramesGrow
  <1> QED
    BY <1>1, <1>9, <1>10, <1>11 DEF Waiting, Gone

\* What releasing a descriptor does to them.
LEMMA ReleaseFrames ==
    ASSUME NEW D, NEW E, NEW n, NEW fr, NEW c, NEW o,
           ReleaseStep(D, E, n, fr, c, o)
    PROVE  /\ Waiting(D) = Waiting(E)
           /\ D[1].app = NoPbuf => Gone(D) = Gone(E)
           /\ D[1].app # NoPbuf => D[1].app \in Pbufs /\ Gone(D) = Ahead(D[1].app, Gone(E))
  <1>1. PICK q, w, qq, ww : /\ q = OwnedOf(D) /\ w = ProcessedOf(D)
                            /\ qq = OwnedOf(E) /\ ww = ProcessedOf(E)
    OBVIOUS
  <1>2. PICK m \in Nat, l \in Nat : m = Len(D) /\ l = Len(E)
    BY DEF ReleaseStep
  <1>3. /\ m = l + 1 /\ m \in Nat /\ l \in Nat /\ ~D[1].own
        /\ \A k \in 1 .. l : E[k] = D[k + 1]
    BY <1>2 DEF ReleaseStep, Shorter
  <1>4. /\ q \in Seq(PbufOrNone) /\ Len(q) = m /\ w \in Seq(PbufOrNone) /\ Len(w) = m
        /\ \A k \in 1 .. m : /\ q[k] = IF D[k].own THEN D[k].app ELSE NoPbuf
                             /\ w[k] = IF D[k].own THEN NoPbuf ELSE D[k].app
    BY <1>1, <1>2, PartsOf DEF ReleaseStep
  <1>5. /\ qq \in Seq(PbufOrNone) /\ Len(qq) = l /\ ww \in Seq(PbufOrNone) /\ Len(ww) = l
        /\ \A k \in 1 .. l : /\ qq[k] = IF E[k].own THEN E[k].app ELSE NoPbuf
                             /\ ww[k] = IF E[k].own THEN NoPbuf ELSE E[k].app
    BY <1>1, <1>2, PartsOf DEF ReleaseStep
  <1>6. \A k \in 1 .. l : k + 1 \in 1 .. m /\ E[k] = D[k + 1]
    BY <1>3
  <1>7. \A k \in 1 .. l : qq[k] = q[k + 1] /\ ww[k] = w[k + 1]
    BY <1>4, <1>5, <1>6
  <1>8. 1 \in 1 .. m
    BY <1>3
  <1>9. q[1] = NoPbuf /\ w[1] = D[1].app
    BY <1>3, <1>4, <1>8
  <1>10. FramesOf(q) = FramesOf(qq)
    <2>1. FirstLeaves(q, qq)
      BY <1>3, <1>4, <1>5, <1>7 DEF FirstLeaves
    <2> QED
      BY <1>9, <2>1, FramesShrink
  <1>11. /\ w[1] = NoPbuf => FramesOf(w) = FramesOf(ww)
         /\ w[1] # NoPbuf => w[1] \in Pbufs /\ FramesOf(w) = Ahead(w[1], FramesOf(ww))
    <2>1. FirstLeaves(w, ww)
      BY <1>3, <1>4, <1>5, <1>7 DEF FirstLeaves
    <2> QED
      BY <2>1, FramesShrink
  <1> QED
    BY <1>1, <1>9, <1>10, <1>11 DEF Waiting, Gone

\* What the DMA's write-back does to them.
LEMMA DmaFrames ==
    ASSUME NEW D, NEW E, NEW n, NEW fr, NEW fw, NEW c, NEW o,
           DmaStep(D, E, n, fr, fw, c, o)
    PROVE  /\ D[n + 1].app = NoPbuf => Waiting(D) = Waiting(E) /\ Gone(E) = Gone(D)
           /\ D[n + 1].app # NoPbuf =>
                 /\ D[n + 1].app \in Pbufs
                 /\ Waiting(D) = Ahead(D[n + 1].app, Waiting(E))
                 /\ Gone(E) = With(Gone(D), D[n + 1].app)
  <1>1. PICK q, w, qq, ww : /\ q = OwnedOf(D) /\ w = ProcessedOf(D)
                            /\ qq = OwnedOf(E) /\ ww = ProcessedOf(E)
    OBVIOUS
  <1>2. PICK m \in Nat : m = Len(D) /\ m = Len(E)
    BY DEF DmaStep, WrittenBack
  <1>3. n \in Nat /\ n + 1 \in 1 .. m /\ n < m /\ m \in Nat
    BY <1>2 DEF DmaStep, WrittenBack, Reached
  <1>4. /\ q \in Seq(PbufOrNone) /\ Len(q) = m /\ w \in Seq(PbufOrNone) /\ Len(w) = m
        /\ \A k \in 1 .. m : /\ q[k] = IF D[k].own THEN D[k].app ELSE NoPbuf
                             /\ w[k] = IF D[k].own THEN NoPbuf ELSE D[k].app
    BY <1>1, <1>2, PartsOf DEF DmaStep
  <1>5. /\ qq \in Seq(PbufOrNone) /\ Len(qq) = m /\ ww \in Seq(PbufOrNone) /\ Len(ww) = m
        /\ \A k \in 1 .. m : /\ qq[k] = IF E[k].own THEN E[k].app ELSE NoPbuf
                             /\ ww[k] = IF E[k].own THEN NoPbuf ELSE E[k].app
    BY <1>1, <1>2, PartsOf DEF DmaStep
  <1>6. \A k \in 1 .. m : (D[k].own <=> k > n) /\ (E[k].own <=> k > n + 1)
    <2>1. \A k \in 1 .. m : D[k].own <=> k > n
      BY <1>2 DEF DmaStep, Reached
    <2>2. Reached(E, n + 1, fw, c, o)
      BY DmaKeeps
    <2>3. \A k \in 1 .. m : E[k].own <=> k > n + 1
      BY <1>2, <2>2 DEF Reached
    <2> QED
      BY <2>1, <2>3
  <1>7. \A k \in 1 .. m : k # n + 1 => E[k] = D[k]
    BY <1>2 DEF DmaStep, WrittenBack
  <1>8. \A k \in 1 .. n : /\ k \in 1 .. m /\ ~(k > n) /\ ~(k > n + 1) /\ k # n + 1
    BY <1>3
  <1>9. \A k \in n + 2 .. m : k \in 1 .. m /\ k > n /\ k > n + 1 /\ k # n + 1
    BY <1>3
  <1>10. \A k \in 1 .. n : q[k] = NoPbuf /\ qq[k] = NoPbuf /\ ww[k] = w[k]
    BY <1>4, <1>5, <1>6, <1>7, <1>8
  <1>11. \A k \in n + 2 .. m : w[k] = NoPbuf /\ ww[k] = NoPbuf /\ qq[k] = q[k]
    BY <1>4, <1>5, <1>6, <1>7, <1>9
  <1>12. PICK j \in Nat : j = n + 1 /\ j > n /\ ~(j > n + 1) /\ j \in 1 .. m
    BY <1>3
  <1>13. D[j].own /\ ~E[j].own /\ E[j].app = D[j].app
    <2>1. D[j].own /\ ~E[j].own
      BY <1>6, <1>12
    <2>2. D[j] \in Descriptor
      <3>1. D \in Seq(Descriptor) /\ j \in 1 .. Len(D)
        BY <1>2, <1>12 DEF DmaStep
      <3> QED
        BY <3>1
    <2>3. E[j] = [D[j] EXCEPT !.own = FALSE, !.fd = @ /\ WritebackKeepsFlags,
                              !.ld = @ /\ WritebackKeepsFlags]
      BY <1>12 DEF DmaStep, WrittenBack
    <2> QED
      BY <2>1, <2>2, <2>3 DEF Descriptor
  <1>14. q[j] = D[j].app /\ qq[j] = NoPbuf /\ w[j] = NoPbuf /\ ww[j] = D[j].app
    BY <1>4, <1>5, <1>12, <1>13
  <1>15. /\ q[n + 1] = NoPbuf => FramesOf(q) = FramesOf(qq)
         /\ q[n + 1] # NoPbuf => /\ q[n + 1] \in Pbufs
                                 /\ FramesOf(q) = Ahead(q[n + 1], FramesOf(qq))
    <2>1. qq[n + 1] = NoPbuf
      BY <1>12, <1>14
    <2>2. FirstGoes(q, qq, n)
      BY <1>3, <1>4, <1>5, <1>10, <1>11, <2>1 DEF FirstGoes
    <2> QED
      BY <2>2, FramesFirstGoes
  <1>16. /\ ww[n + 1] = NoPbuf => FramesOf(ww) = FramesOf(w)
         /\ ww[n + 1] # NoPbuf => FramesOf(ww) = With(FramesOf(w), ww[n + 1])
    <2>1. w[n + 1] = NoPbuf
      BY <1>12, <1>14
    <2>2. LastComes(w, ww, n)
      BY <1>3, <1>4, <1>5, <1>10, <1>11, <2>1 DEF LastComes
    <2> QED
      BY <2>2, FramesLastComes
  <1> QED
    BY <1>1, <1>12, <1>14, <1>15, <1>16 DEF Waiting, Gone

\* The refinement mapping in terms of Waiting and Gone.
LEMMA MapIs ==
    ASSUME TypeOK
    PROVE  /\ FramesOf(Owned) = Waiting(InOrder) /\ Sent = Gone(InOrder)
           /\ Accepted = IF pc = "output" /\ out.bufIndex < ChainLen[out.pbuf]
                         THEN <<out.pbuf>> ELSE <<>>
  <1>1. Len(InOrder) = Used
    BY InOrderIs
  <1>2. Owned = OwnedOf(InOrder)
    BY <1>1, Zenon DEF Owned, OwnedOf
  <1>3. Processed = ProcessedOf(InOrder)
    BY <1>1, Zenon DEF Processed, ProcessedOf
  <1>4. FramesOf(Owned) = Waiting(InOrder)
    BY <1>2, Zenon DEF Waiting
  <1>5. Sent = Gone(InOrder)
    BY <1>3, Zenon DEF Sent, Gone
  <1>6. (\E p \in Pbufs : Filling(p)) <=> (pc = "output" /\ out.bufIndex < ChainLen[out.pbuf])
    BY DEF Filling, TypeOK
  <1> QED
    BY <1>4, <1>5, <1>6 DEF Accepted

\* The same in the next state.
LEMMA MapIsNext ==
    ASSUME TypeOK'
    PROVE  /\ FramesOf(Owned') = Waiting(InOrder') /\ Sent' = Gone(InOrder')
           /\ Accepted' = IF pc' = "output" /\ out'.bufIndex < ChainLen[out'.pbuf]
                          THEN <<out'.pbuf>> ELSE <<>>
  <1>1. Len(InOrder') = Used'
    BY InOrderIsNext
  <1>2. Owned' = OwnedOf(InOrder')
    BY <1>1, Zenon DEF Owned, OwnedOf
  <1>3. Processed' = ProcessedOf(InOrder')
    BY <1>1, Zenon DEF Processed, ProcessedOf
  <1>4. FramesOf(Owned') = Waiting(InOrder')
    BY <1>2, Zenon DEF Waiting
  <1>5. Sent' = Gone(InOrder')
    <2>1. Sent' = FramesOf(Processed')
      BY Zenon DEF Sent, FramesOf
    <2> QED
      BY <1>3, <2>1, Zenon DEF Gone
  <1>6. (\E p \in Pbufs : Filling(p))' <=> (pc' = "output" /\ out'.bufIndex < ChainLen[out'.pbuf])
    <2>1. pc' = "output" => out'.pbuf \in Pbufs
      BY DEF TypeOK
    <2> QED
      BY <2>1 DEF Filling
  <1>7. Accepted' = IF (\E p \in Pbufs : Filling(p))' THEN <<out'.pbuf>> ELSE <<>>
    BY DEF Accepted
  <1> QED
    BY <1>4, <1>5, <1>6, <1>7

\* Frames of one descriptor, or a write-back that clears FD and LD.
FlagsHarmless == ~WritebackKeepsFlags \/ \A p \in Pbufs : ChainLen[p] <= 2

\* lowLevelOutput turns x into d, after the descriptors of D.
ToFill(D, c, o, x, d) ==
    /\ D \in Seq(Descriptor) /\ Lined(D, c, o) /\ c = "output"
    /\ o.pbuf \in Pbufs /\ o.bufIndex \in Nat /\ o.bufIndex < ChainLen[o.pbuf]
    /\ x \in Descriptor /\ (WritebackKeepsFlags \/ (~x.fd /\ ~x.ld))
    /\ d = Filled(x, o.pbuf, o.bufIndex)

\* The descriptor it leaves holds a whole part of a chain, with the right flags.
LEMMA FillsWhole ==
    ASSUME FlagsHarmless, NEW D, NEW c, NEW o, NEW x, NEW d, ToFill(D, c, o, x, d)
    PROVE  /\ Whole(d) /\ d.own /\ d.pbuf = o.pbuf /\ d.first = o.bufIndex
  <1>01. D \in Seq(Descriptor) /\ Lined(D, c, o) /\ c = "output"
    BY DEF ToFill
  <1>02. o.pbuf \in Pbufs /\ o.bufIndex \in Nat /\ o.bufIndex < ChainLen[o.pbuf]
    BY DEF ToFill
  <1>03. /\ x \in Descriptor /\ (WritebackKeepsFlags \/ (~x.fd /\ ~x.ld))
         /\ d = Filled(x, o.pbuf, o.bufIndex)
    BY DEF ToFill
  <1> USE <1>01, <1>02, <1>03
  <1>1. PICK p, b : p = o.pbuf /\ b = o.bufIndex
    OBVIOUS
  <1>2. PICK l : l = ChainLen[p]
    OBVIOUS
  <1>3. /\ p \in Pbufs /\ b \in Nat /\ l \in Nat /\ l > 0 /\ b < l
    BY <1>1, <1>2, ChainLenAssumption
  <1>4. PICK n : n = IF b + 1 < l THEN 2 ELSE 1
    OBVIOUS
  <1>5. n \in {1, 2} /\ n \in 0 .. 2 /\ b + n <= l /\ n \in Nat
    BY <1>3, <1>4
  <1>6. d = [own |-> TRUE, fd |-> x.fd \/ b = 0, ld |-> x.ld \/ b + n = l, pbuf |-> p,
             first |-> b, count |-> n, app |-> IF b + n = l THEN p ELSE NoPbuf]
    BY <1>1, <1>2, <1>4 DEF Filled
  <1>7. WritebackKeepsFlags => b = 0 /\ b + n = l
    <2> SUFFICES ASSUME WritebackKeepsFlags PROVE b = 0 /\ b + n = l
      OBVIOUS
    <2>1. l <= 2
      BY <1>2, <1>3 DEF FlagsHarmless
    <2>2. b = 0
      <3>1. CASE Len(D) = 0
        BY <1>1, <3>1 DEF Lined
      <3>2. CASE Len(D) # 0
        <4>1. PICK e : e = D[Len(D)]
          OBVIOUS
        <4>2. Len(D) \in 1 .. Len(D)
          BY <3>2
        <4>3. Whole(e) /\ Follows(e, p, b)
          BY <1>1, <3>2, <4>1, <4>2 DEF Lined
        <4>4. CASE e.app = NoPbuf
          <5>1. e.pbuf = p /\ b = e.first + e.count
            BY <4>3, <4>4 DEF Follows
          <5>2. e.first \in Nat /\ e.count = IF e.first + 1 < l THEN 2 ELSE 1
            BY <1>2, <4>3, <5>1 DEF Whole, Descriptor
          <5> QED
            BY <1>3, <2>1, <5>1, <5>2
        <4>5. CASE e.app # NoPbuf
          BY <1>2, <1>3, <4>3, <4>5 DEF Follows
        <4> QED
          BY <4>4, <4>5
      <3> QED
        BY <3>1, <3>2
    <2> QED
      BY <1>3, <1>4, <2>1, <2>2
  <1>8. /\ d.own = TRUE /\ d.pbuf = p /\ d.first = b /\ d.count = n
        /\ d.app = (IF b + n = l THEN p ELSE NoPbuf)
        /\ d.fd = (x.fd \/ b = 0) /\ d.ld = (x.ld \/ b + n = l)
    BY <1>6
  <1>9. (d.fd <=> b = 0) /\ (d.ld <=> b + n = l)
    BY <1>7, <1>8
  <1>10. p # NoPbuf
    BY <1>3, PbufsAssumption
  <1>11. d.ld <=> d.app # NoPbuf
    BY <1>8, <1>9, <1>10
  <1>12. d \in Descriptor
    <2>1. \A y \in Descriptor : y.fd \in BOOLEAN /\ y.ld \in BOOLEAN
      BY DEF Descriptor
    <2> QED
      BY <1>3, <1>5, <1>6, <2>1 DEF Descriptor
  <1>13. Whole(d)
    BY <1>2, <1>3, <1>4, <1>5, <1>8, <1>9, <1>11, <1>12 DEF Whole
  <1> QED
    BY <1>1, <1>8, <1>13

\* FillDescriptor keeps the invariant and leaves the queue as it was.
LEMMA FillQueue ==
    ASSUME FlagsHarmless, IInv, QInv, FillDescriptor
    PROVE  QInv' /\ UNCHANGED <<Queued, Sent, wire>>
  <1> DEFINE a == sAvailableIndex
             u == sUnavailableTxDescIndex
  <1>1. IInv' /\ TypeOK /\ TypeOK'
    BY FillDescriptorInv DEF IInv
  <1>2. PICK d : d = Filled(desc[a], out.pbuf, out.bufIndex)
    OBVIOUS
  <1>3. /\ pc = "output" /\ pc' = "output" /\ out.bufIndex < ChainLen[out.pbuf]
        /\ out' = [out EXCEPT !.bufIndex = @ + d.count]
        /\ frame' = frame /\ dma' = dma /\ wire' = wire /\ u' = u
        /\ sAvaliableSize' = sAvaliableSize - 1
    BY <1>2 DEF FillDescriptor, hardware
  <1>4. PICK D, E : D = InOrder /\ E = InOrder'
    OBVIOUS
  <1>5. /\ D \in Seq(Descriptor) /\ Len(D) = Used /\ Used \in 0 .. DescCount
        /\ E \in Seq(Descriptor) /\ Len(E) = Used'
    BY <1>1, <1>4, InOrderIs, InOrderIsNext
  <1>6. /\ Longer(D, E, d) /\ a \in Index /\ ~desc[a].own
        /\ desc'[a] = d /\ \A i \in Index : i # a => desc'[i] = desc[i]
    BY <1>2, <1>4, FillView
  <1>7. PICK n \in 0 .. Used : /\ dma = Wrap(u + n)
                              /\ Reached(D, n, frame, pc, out)
    BY <1>4 DEF QInv
  <1>8. Lined(D, pc, out) /\ FlagsOff
    BY <1>4 DEF QInv
  <1>9. out.pbuf \in Pbufs /\ out.bufIndex \in Nat
    BY <1>1, <1>3 DEF TypeOK
  <1>10. Whole(d) /\ d.own /\ d.pbuf = out.pbuf /\ d.first = out.bufIndex
    <2>1. desc[a] \in Descriptor
      BY <1>1, <1>6 DEF TypeOK
    <2>2. WritebackKeepsFlags \/ (~desc[a].fd /\ ~desc[a].ld)
      BY <1>6, <1>8 DEF FlagsOff
    <2>3. PICK x, c, o : x = desc[a] /\ c = pc /\ o = out
      OBVIOUS
    <2>4. ToFill(D, c, o, x, d)
      BY <1>2, <1>3, <1>5, <1>8, <1>9, <2>1, <2>2, <2>3 DEF ToFill
    <2>5. Whole(d) /\ d.own /\ d.pbuf = o.pbuf /\ d.first = o.bufIndex
      BY <2>4, FillsWhole
    <2> QED
      BY <2>3, <2>5
  <1>11. PICK o, z, c : o = out /\ z = out' /\ c = pc
    OBVIOUS
  <1>12. z.pbuf = o.pbuf /\ z.bufIndex = o.bufIndex + d.count
    <2>1. out \in [pbuf: Pbufs \cup {NoPbuf}, bufIndex: Nat]
      BY <1>1 DEF TypeOK
    <2> QED
      BY <1>3, <1>11, <2>1
  <1>13. FillStep(D, E, d, n, frame, c, o, z)
    BY <1>3, <1>5, <1>6, <1>7, <1>8, <1>9, <1>10, <1>11, <1>12 DEF FillStep
  <1>14. Lined(E, c, z) /\ Reached(E, n, frame, c, z)
    BY <1>13, FillKeeps
  <1>15. FlagsOff'
    <2>1. \A i \in Index : ~desc'[i].own => (~desc'[i].fd /\ ~desc'[i].ld) \/ WritebackKeepsFlags
      BY <1>6, <1>8, <1>10 DEF FlagsOff
    <2> QED
      BY <2>1 DEF FlagsOff, Index
  <1>16. n \in 0 .. Used'
    <2>1. PICK m \in Nat, l \in Nat : m = Len(D) /\ l = Len(E)
      BY <1>5
    <2>2. l = m + 1 /\ n \in 0 .. m
      BY <1>5, <1>6, <2>1 DEF Longer
    <2>3. n \in 0 .. l
      BY <2>1, <2>2
    <2> QED
      BY <1>5, <2>1, <2>3
  <1>17. QInv'
    <2>1. Lined(InOrder', pc', out')
      BY <1>3, <1>4, <1>11, <1>14
    <2>2. dma' = Wrap(sUnavailableTxDescIndex' + n) /\ Reached(InOrder', n, frame', pc', out')
      BY <1>3, <1>4, <1>7, <1>11, <1>14
    <2> QED
      BY <1>15, <1>16, <2>1, <2>2 DEF QInv, Lined, Reached, Wrap
  <1>18. /\ d.app = NoPbuf => Waiting(E) = Waiting(D)
         /\ d.app # NoPbuf => d.app \in Pbufs /\ Waiting(E) = With(Waiting(D), d.app)
         /\ Gone(E) = Gone(D)
    BY <1>13, FillFrames
  <1>19. Waiting(D) \in Seq(Pbufs)
    BY <1>5, FramesFit
  <1>20. PICK s, ss : s = Waiting(D) /\ ss = Waiting(E)
    OBVIOUS
  <1>21. Queued = s \o <<o.pbuf>>
    BY <1>1, <1>3, <1>4, <1>11, <1>20, MapIs DEF Queued
  <1>22. Queued' = ss \o (IF z.bufIndex < ChainLen[z.pbuf] THEN <<z.pbuf>> ELSE <<>>)
    <2>1. Queued' = FramesOf(Owned') \o Accepted'
      BY Zenon DEF Queued, FramesOf
    <2> QED
      BY <1>1, <1>3, <1>4, <1>11, <1>20, <2>1, MapIsNext
  <1>23. d.app = (IF z.bufIndex = ChainLen[z.pbuf] THEN o.pbuf ELSE NoPbuf) /\ z.pbuf = o.pbuf
         /\ z.bufIndex <= ChainLen[z.pbuf] /\ z.bufIndex \in Nat /\ ChainLen[z.pbuf] \in Nat
    BY <1>9, <1>10, <1>11, <1>12, ChainLenAssumption DEF Whole, Descriptor
  <1>24. Queued' = Queued
    <2>1. CASE z.bufIndex = ChainLen[z.pbuf]
      <3>1. d.app = o.pbuf /\ d.app # NoPbuf /\ d.app \in Pbufs
        BY <1>9, <1>11, <1>23, <2>1, PbufsAssumption
      <3>2. ss = Append(s, o.pbuf) /\ s \in Seq(Pbufs) /\ o.pbuf \in Pbufs
        BY <1>18, <1>19, <1>20, <3>1 DEF With
      <3>3. ~(z.bufIndex < ChainLen[z.pbuf])
        BY <1>23, <2>1
      <3>4. Queued' = ss \o <<>>
        BY <1>22, <3>3
      <3> QED
        BY <1>21, <3>2, <3>4
    <2>2. CASE z.bufIndex # ChainLen[z.pbuf]
      <3>1. d.app = NoPbuf /\ z.bufIndex < ChainLen[z.pbuf]
        BY <1>23, <2>2
      <3> QED
        BY <1>18, <1>20, <1>21, <1>22, <1>23, <3>1
    <2> QED
      BY <2>1, <2>2
  <1>25. Sent' = Sent
    BY <1>1, <1>4, <1>18, MapIs, MapIsNext
  <1> QED
    BY <1>3, <1>17, <1>24, <1>25

\* The head and the tail of p before s.
LEMMA AheadIs ==
    ASSUME NEW p \in Pbufs, NEW s \in Seq(Pbufs)
    PROVE  Ahead(p, s) # <<>> /\ Head(Ahead(p, s)) = p /\ Tail(Ahead(p, s)) = s
  <1>1. PICK q : q = Ahead(p, s)
    OBVIOUS
  <1>2. q \in Seq(Pbufs) /\ Len(q) = Len(s) + 1 /\ q[1] = p
        /\ \A k \in 1 .. Len(s) : q[k + 1] = s[k]
    BY <1>1 DEF Ahead, Join
  <1>3. q # <<>> /\ Head(q) = p
    BY <1>2
  <1>4. Tail(q) \in Seq(Pbufs) /\ Len(Tail(q)) = Len(s)
    BY <1>2, <1>3
  <1>5. \A k \in 1 .. Len(s) : Tail(q)[k] = s[k]
    BY <1>2, <1>3
  <1>6. Tail(q) = s
    BY <1>4, <1>5, SeqEqual
  <1> QED
    BY <1>1, <1>3, <1>6

\* p stays in front when more is appended.
LEMMA AheadJoin ==
    ASSUME NEW p \in Pbufs, NEW s \in Seq(Pbufs), NEW t \in Seq(Pbufs)
    PROVE  Ahead(p, s) \o t = Ahead(p, s \o t) /\ s \o t \in Seq(Pbufs)
  BY DEF Ahead, Join

\* ReleaseDescriptor keeps the invariant, and gives a frame back with its last
\* descriptor only.
LEMMA ReleaseQueue ==
    ASSUME IInv, QInv, ReleaseDescriptor
    PROVE  QInv' /\ (TxQueue!GiveBack \/ UNCHANGED <<Queued, Sent, wire>>)
  <1> DEFINE u == sUnavailableTxDescIndex
  <1>1. TypeOK /\ TypeOK'
    BY ReleaseDescriptorInv DEF IInv
  <1>2. /\ pc = "release" /\ pc' = pc /\ out' = out /\ desc' = desc
        /\ frame' = frame /\ dma' = dma /\ wire' = wire
    BY DEF ReleaseDescriptor, hardware
  <1>3. PICK D, E : D = InOrder /\ E = InOrder'
    OBVIOUS
  <1>4. /\ D \in Seq(Descriptor) /\ Len(D) = Used /\ Used \in 0 .. DescCount
        /\ E \in Seq(Descriptor) /\ Len(E) = Used'
    BY <1>1, <1>3, InOrderIs, InOrderIsNext
  <1>5. Shorter(D, E) /\ ~D[1].own /\ u' = After(u)
    BY <1>3, ReleaseView
  <1>6. PICK n \in 0 .. Used : dma = Wrap(u + n) /\ Reached(D, n, frame, pc, out)
    BY <1>3 DEF QInv
  <1>7. Lined(D, pc, out) /\ FlagsOff
    BY <1>3 DEF QInv
  <1>8. PICK c, o : c = pc /\ o = out
    OBVIOUS
  <1>9. ReleaseStep(D, E, n, frame, c, o)
    BY <1>2, <1>4, <1>5, <1>6, <1>7, <1>8 DEF ReleaseStep
  <1>10. PICK i \in Nat : n = i + 1 /\ i <= Len(E) /\ Reached(E, i, frame, c, o)
    BY <1>9, ReleaseKeeps
  <1>11. Lined(E, c, o)
    BY <1>9, ReleaseKeeps
  <1>12. FlagsOff'
    BY <1>2, <1>7 DEF FlagsOff, Index
  <1>13. i \in 0 .. Used'
    BY <1>4, <1>10
  <1>14. Wrap(u + n) = Wrap(After(u) + i)
    <2>1. u \in Index /\ n \in Nat /\ n = i + 1 /\ i \in Nat /\ n <= DescCount
      BY <1>1, <1>4, <1>6, <1>10, DescCountAssumption DEF TypeOK
    <2> QED
      BY <2>1, DescCountAssumption DEF Wrap, After, Index
  <1>15. QInv'
    <2>1. Lined(InOrder', pc', out')
      BY <1>2, <1>3, <1>8, <1>11
    <2>2. dma' = Wrap(sUnavailableTxDescIndex' + i) /\ Reached(InOrder', i, frame', pc', out')
      BY <1>2, <1>3, <1>5, <1>6, <1>8, <1>10, <1>14
    <2> QED
      BY <1>12, <1>13, <2>1, <2>2 DEF QInv, Lined, Reached, Wrap
  <1>16. /\ Waiting(D) = Waiting(E)
         /\ D[1].app = NoPbuf => Gone(D) = Gone(E)
         /\ D[1].app # NoPbuf => D[1].app \in Pbufs /\ Gone(D) = Ahead(D[1].app, Gone(E))
    BY <1>9, ReleaseFrames
  <1>17. Queued' = Queued
    <2>1. Queued' = FramesOf(Owned') \o Accepted'
      BY Zenon DEF Queued, FramesOf
    <2>2. FramesOf(Owned') = FramesOf(Owned) /\ Accepted' = Accepted
      BY <1>1, <1>2, <1>3, <1>16, MapIs, MapIsNext
    <2> QED
      BY <2>1, <2>2 DEF Queued
  <1>18. CASE D[1].app = NoPbuf
    <2>1. Sent' = Sent
      BY <1>1, <1>3, <1>16, <1>18, MapIs, MapIsNext
    <2> QED
      BY <1>2, <1>15, <1>17, <2>1
  <1>19. CASE D[1].app # NoPbuf
    <2>1. D[1].app \in Pbufs /\ Gone(E) \in Seq(Pbufs) /\ Gone(D) = Ahead(D[1].app, Gone(E))
      BY <1>4, <1>16, <1>19, FramesFit
    <2>2. Sent = Gone(D) /\ Sent' = Gone(E)
      BY <1>1, <1>3, MapIs, MapIsNext
    <2>3. Sent # <<>> /\ Tail(Sent) = Sent'
      BY <2>1, <2>2, AheadIs
    <2> QED
      BY <1>2, <1>15, <1>17, <2>3 DEF TxQueue!GiveBack
  <1> QED
    BY <1>18, <1>19

\* DmaTransmit keeps the invariant, and sends a frame with its last descriptor
\* only: the whole chain, which is the head of the queue.
LEMMA TransmitQueue ==
    ASSUME IInv, QInv, DmaTransmit
    PROVE  QInv' /\ (TxQueue!Send \/ UNCHANGED <<Queued, Sent, wire>>)
  <1> DEFINE u == sUnavailableTxDescIndex
  <1>1. TypeOK /\ TypeOK'
    BY DmaTransmitInv DEF IInv
  <1>2. /\ pc' = pc /\ out' = out
        /\ UNCHANGED <<sAvaliableSize, sUnavailableTxDescIndex>>
        /\ IF desc[dma].ld THEN wire' = Gathered(desc[dma], frame) /\ frame' = <<>>
           ELSE wire' = wire /\ frame' = Gathered(desc[dma], frame)
    BY DEF DmaTransmit, Gathered
  <1>3. PICK D, E : D = InOrder /\ E = InOrder'
    OBVIOUS
  <1>4. /\ D \in Seq(Descriptor) /\ Len(D) = Used /\ Used \in 0 .. DescCount
        /\ E \in Seq(Descriptor) /\ Len(E) = Used' /\ Used' = Used
    BY <1>1, <1>2, <1>3, InOrderIs, InOrderIsNext DEF Used
  <1>5. PICK n \in 0 .. Used : dma = Wrap(u + n) /\ Reached(D, n, frame, pc, out)
    BY <1>3 DEF QInv
  <1>6. Lined(D, pc, out) /\ FlagsOff
    BY <1>3 DEF QInv
  <1>7. \A k \in 1 .. Used : InOrder[k].own <=> k > n
    BY <1>3, <1>4, <1>5 DEF Reached
  <1>8. PICK x : x = [desc[dma] EXCEPT !.own = FALSE, !.fd = @ /\ WritebackKeepsFlags,
                                       !.ld = @ /\ WritebackKeepsFlags]
    BY Zenon
  <1>9. /\ n < Used /\ D[n + 1] = desc[dma] /\ dma \in Index
        /\ WrittenBack(D, E, n) /\ dma' = Wrap(u + (n + 1))
        /\ \A i \in Index : i # dma => desc'[i] = desc[i]
        /\ desc'[dma] = x
    BY <1>3, <1>5, <1>7, <1>8, TransmitView
  <1>10. PICK c, o, fr, fw : c = pc /\ o = out /\ fr = frame /\ fw = frame'
    OBVIOUS
  <1>11. DmaStep(D, E, n, fr, fw, c, o)
    <2>1. fw = IF D[n + 1].ld THEN <<>> ELSE Gathered(D[n + 1], fr)
      BY <1>2, <1>9, <1>10
    <2>2. c = "output" => o.pbuf \in Pbufs
      BY <1>1, <1>10 DEF TypeOK
    <2> QED
      BY <1>4, <1>5, <1>6, <1>9, <1>10, <2>1, <2>2 DEF DmaStep
  <1>12. PICK d : d = D[n + 1]
    OBVIOUS
  <1>13. /\ Whole(d) /\ d.own /\ Gathered(d, fr) = Part(d.pbuf, d.first + d.count)
         /\ Lined(E, c, o) /\ Reached(E, n + 1, fw, c, o)
    BY <1>11, <1>12, DmaKeeps
  <1>14. FlagsOff'
    <2>1. desc[dma] \in Descriptor
      BY <1>1, <1>9 DEF TypeOK
    <2>2. x.fd = (desc[dma].fd /\ WritebackKeepsFlags) /\ x.ld = (desc[dma].ld /\ WritebackKeepsFlags)
      BY <1>8, <2>1 DEF Descriptor
    <2>3. WritebackKeepsFlags \/ \A i \in Index : ~desc'[i].own => ~desc'[i].fd /\ ~desc'[i].ld
      BY <1>6, <1>9, <2>2 DEF FlagsOff
    <2> QED
      BY <2>3 DEF FlagsOff, Index
  <1>15. n + 1 \in 0 .. Used'
    BY <1>4, <1>5, <1>9
  <1>16. QInv'
    <2>1. Lined(InOrder', pc', out')
      BY <1>2, <1>3, <1>10, <1>13
    <2>2. dma' = Wrap(sUnavailableTxDescIndex' + (n + 1)) /\ Reached(InOrder', n + 1, frame', pc', out')
      BY <1>2, <1>3, <1>9, <1>10, <1>13
    <2> QED
      BY <1>14, <1>15, <2>1, <2>2 DEF QInv, Lined, Reached, Wrap
  <1>17. /\ d.app = NoPbuf => Waiting(D) = Waiting(E) /\ Gone(E) = Gone(D)
         /\ d.app # NoPbuf => /\ d.app \in Pbufs
                              /\ Waiting(D) = Ahead(d.app, Waiting(E))
                              /\ Gone(E) = With(Gone(D), d.app)
    BY <1>11, <1>12, DmaFrames
  <1>18. (d.ld <=> d.app # NoPbuf) /\ d = desc[dma]
    BY <1>9, <1>12, <1>13 DEF Whole
  <1>19. Queued' = FramesOf(Owned') \o Accepted'
    BY Zenon DEF Queued, FramesOf
  <1>20. PICK t : t = Accepted /\ t = Accepted' /\ t \in Seq(Pbufs)
    <2>1. Accepted' = Accepted
      BY <1>1, <1>2, MapIs, MapIsNext
    <2>2. Accepted \in Seq(Pbufs)
      <3>1. \A p \in Pbufs : <<p>> \in Seq(Pbufs)
        OBVIOUS
      <3>2. Accepted = <<>> \/ (Accepted = <<out.pbuf>> /\ out.pbuf \in Pbufs)
        BY <1>1, MapIs DEF TypeOK
      <3>3. <<>> \in Seq(Pbufs)
        OBVIOUS
      <3>4. CASE Accepted = <<>>
        BY <3>3, <3>4
      <3>5. CASE Accepted = <<out.pbuf>> /\ out.pbuf \in Pbufs
        BY <3>1, <3>5, Zenon
      <3> QED
        BY <3>2, <3>4, <3>5
    <2> QED
      BY <2>1, <2>2
  <1>21. Queued = Waiting(D) \o t /\ Queued' = Waiting(E) \o t /\ Sent = Gone(D) /\ Sent' = Gone(E)
    BY <1>1, <1>3, <1>19, <1>20, MapIs, MapIsNext DEF Queued
  <1>22. CASE d.app = NoPbuf
    BY <1>2, <1>16, <1>17, <1>18, <1>21, <1>22
  <1>23. CASE d.app # NoPbuf
    <2>1. d.app \in Pbufs /\ Waiting(E) \in Seq(Pbufs)
      BY <1>4, <1>17, <1>23, FramesFit
    <2>2. PICK s : s = Waiting(E) \o t /\ s \in Seq(Pbufs) /\ Queued = Ahead(d.app, s)
      <3>1. PICK r : r = Waiting(E) /\ r \in Seq(Pbufs)
        BY <2>1
      <3>2. Ahead(d.app, r) \o t = Ahead(d.app, r \o t) /\ r \o t \in Seq(Pbufs)
        BY <1>20, <2>1, <3>1, AheadJoin
      <3>3. Queued = Ahead(d.app, r) \o t
        BY <1>17, <1>21, <1>23, <3>1
      <3> QED
        BY <3>1, <3>2, <3>3
    <2>3. Queued # <<>> /\ Head(Queued) = d.app /\ Tail(Queued) = Queued'
      BY <1>21, <2>1, <2>2, AheadIs
    <2>4. Sent' = Append(Sent, Head(Queued))
      BY <1>17, <1>21, <1>23, <2>3 DEF With
    <2>5. wire' = Chain(Head(Queued))
      <3>1. wire' = Part(d.pbuf, d.first + d.count)
        BY <1>2, <1>10, <1>13, <1>18, <1>23
      <3>2. d.app = d.pbuf /\ d.first + d.count = ChainLen[d.pbuf]
        BY <1>13, <1>23 DEF Whole
      <3>3. Part(d.pbuf, ChainLen[d.pbuf]) = Chain(d.pbuf)
        BY PartWhole
      <3> QED
        BY <2>3, <3>1, <3>2, <3>3
    <2> QED
      BY <1>16, <2>3, <2>4, <2>5 DEF TxQueue!Send
  <1> QED
    BY <1>22, <1>23

\* What the steps that leave the ring alone have in common.
LEMMA RingKept ==
    ASSUME TypeOK, TypeOK', UNCHANGED ring
    PROVE  /\ InOrder' = InOrder /\ Used' = Used /\ FramesOf(Owned') = FramesOf(Owned)
           /\ Sent' = Sent /\ FlagsOff' = FlagsOff
  <1>1. UNCHANGED <<desc, sAvaliableSize, sUnavailableTxDescIndex>>
    BY DEF ring
  <1>2. Used' = Used /\ InOrder' = InOrder
    BY <1>1 DEF Used, InOrder, Wrap
  <1>3. FlagsOff' = FlagsOff
    BY <1>1 DEF FlagsOff, Index
  <1> QED
    BY <1>2, <1>3, MapIs, MapIsNext

\* A call of lowLevelOutput that passes the check at Ethernetif.cpp:193 accepts
\* the frame, within the capacity.
LEMMA BeginQueue ==
    ASSUME IInv, QInv, NEW p \in Pbufs, BeginOutput(p)
    PROVE  QInv' /\ TxQueue!Accept(p)
  <1>1. TypeOK /\ TypeOK'
    BY BeginOutputInv DEF IInv
  <1>2. /\ pc = "idle" /\ pc' = "output" /\ Fits(p) /\ out' = [pbuf |-> p, bufIndex |-> 0]
        /\ UNCHANGED ring /\ frame' = frame /\ dma' = dma /\ wire' = wire
    BY DEF BeginOutput, hardware
  <1>3. /\ InOrder' = InOrder /\ Used' = Used /\ FramesOf(Owned') = FramesOf(Owned)
        /\ Sent' = Sent /\ FlagsOff' = FlagsOff
    BY <1>1, <1>2, RingKept
  <1>4. sUnavailableTxDescIndex' = sUnavailableTxDescIndex
    BY <1>2 DEF ring
  <1>5. PICK D : D = InOrder /\ D \in Seq(Descriptor) /\ Len(D) = Used
    BY <1>1, InOrderIs
  <1>6. PICK n \in 0 .. Used : /\ dma = Wrap(sUnavailableTxDescIndex + n)
                              /\ Reached(D, n, frame, pc, out)
    BY <1>5 DEF QInv
  <1>7. PICK c, o, z, fr : c = pc /\ o = out /\ z = out' /\ fr = frame
    OBVIOUS
  <1>8. Lined(D, "output", z) /\ Reached(D, n, fr, "output", z)
    <2>1. c = "idle" /\ z.bufIndex = 0 /\ Lined(D, c, o) /\ Reached(D, n, fr, c, o)
      BY <1>2, <1>5, <1>6, <1>7 DEF QInv
    <2> QED
      BY <1>5, <2>1, BeginKeeps
  <1>9. QInv'
    <2>1. Lined(InOrder', pc', out')
      BY <1>2, <1>3, <1>5, <1>7, <1>8
    <2>2. dma' = Wrap(sUnavailableTxDescIndex' + n) /\ Reached(InOrder', n, frame', pc', out')
      BY <1>2, <1>3, <1>4, <1>5, <1>6, <1>7, <1>8
    <2>3. FlagsOff' /\ n \in 0 .. Used'
      BY <1>3, <1>6 DEF QInv
    <2> QED
      BY <2>1, <2>2, <2>3 DEF QInv, Lined, Reached, Wrap
  <1>10. Accepted = <<>> /\ Accepted' = <<p>>
    <2>1. Accepted = <<>>
      BY <1>1, <1>2, MapIs
    <2>2. out'.bufIndex < ChainLen[out'.pbuf] /\ out'.pbuf = p
      BY <1>2, ChainLenAssumption
    <2> QED
      BY <1>1, <1>2, <2>1, <2>2, MapIsNext
  <1>11. PICK s : s = Waiting(D) /\ s \in Seq(Pbufs) /\ Sent = Gone(D) /\ Gone(D) \in Seq(Pbufs)
                  /\ Len(s) + Len(Gone(D)) <= Len(D)
    BY <1>1, <1>5, MapIs, FramesFit
  <1>12. Queued = s /\ Queued' = s \o <<p>>
    <2>1. Queued' = FramesOf(Owned') \o Accepted'
      BY Zenon DEF Queued, FramesOf
    <2>2. FramesOf(Owned') = s /\ FramesOf(Owned) = s
      BY <1>1, <1>3, <1>5, <1>11, MapIs
    <2> QED
      BY <1>10, <1>11, <2>1, <2>2 DEF Queued
  <1>13. Queued' = Append(Queued, p)
    BY <1>11, <1>12
  <1>14. Used < DescCount
    BY <1>1, <1>2, ChainLenAssumption, DescCountAssumption DEF TypeOK, Used, Fits
  <1>15. Len(Queued) + Len(Sent) < DescCount
    <2>1. PICK x \in Nat, y \in Nat : x = Len(Queued) /\ y = Len(Sent) /\ x + y <= Len(D)
      BY <1>11, <1>12
    <2>2. Len(D) < DescCount /\ Len(D) \in Nat
      BY <1>5, <1>14
    <2> QED
      BY <2>1, <2>2, DescCountAssumption
  <1> QED
    BY <1>2, <1>3, <1>9, <1>13, <1>15 DEF TxQueue!Accept

\* Doorbell keeps the invariant and leaves the queue as it was.
LEMMA DoorbellQueue ==
    ASSUME IInv, QInv, Doorbell
    PROVE  QInv' /\ UNCHANGED <<Queued, Sent, wire>>
  <1>1. TypeOK /\ TypeOK'
    BY OtherStepsInv DEF IInv
  <1>2. /\ pc = "output" /\ pc' = "idle" /\ out.bufIndex = ChainLen[out.pbuf]
        /\ UNCHANGED ring /\ frame' = frame /\ dma' = dma /\ wire' = wire
    BY DEF Doorbell
  <1>3. /\ InOrder' = InOrder /\ Used' = Used /\ FramesOf(Owned') = FramesOf(Owned)
        /\ Sent' = Sent /\ FlagsOff' = FlagsOff
    BY <1>1, <1>2, RingKept
  <1>4. sUnavailableTxDescIndex' = sUnavailableTxDescIndex
    BY <1>2 DEF ring
  <1>5. PICK D : D = InOrder /\ D \in Seq(Descriptor) /\ Len(D) = Used
    BY <1>1, InOrderIs
  <1>6. PICK n \in 0 .. Used : /\ dma = Wrap(sUnavailableTxDescIndex + n)
                              /\ Reached(D, n, frame, pc, out)
    BY <1>5 DEF QInv
  <1>7. PICK c, o, z, fr : c = pc /\ o = out /\ z = out' /\ fr = frame
    OBVIOUS
  <1>8. Lined(D, "idle", z) /\ Reached(D, n, fr, "idle", z)
    <2>1. /\ c = "output" /\ o.bufIndex = ChainLen[o.pbuf] /\ o.pbuf \in Pbufs
          /\ Lined(D, c, o) /\ Reached(D, n, fr, c, o)
      BY <1>1, <1>2, <1>5, <1>6, <1>7 DEF QInv, TypeOK
    <2> QED
      BY <1>5, <2>1, DoorbellKeeps
  <1>9. QInv'
    <2>1. Lined(InOrder', pc', out')
      BY <1>2, <1>3, <1>5, <1>7, <1>8
    <2>2. dma' = Wrap(sUnavailableTxDescIndex' + n) /\ Reached(InOrder', n, frame', pc', out')
      BY <1>2, <1>3, <1>4, <1>5, <1>6, <1>7, <1>8
    <2>3. FlagsOff' /\ n \in 0 .. Used'
      BY <1>3, <1>6 DEF QInv
    <2> QED
      BY <2>1, <2>2, <2>3 DEF QInv, Lined, Reached, Wrap
  <1>10. Accepted = <<>> /\ Accepted' = <<>>
    <2>1. ~(out.bufIndex < ChainLen[out.pbuf])
      BY <1>1, <1>2, ChainLenAssumption DEF TypeOK
    <2> QED
      BY <1>1, <1>2, <2>1, MapIs, MapIsNext
  <1>11. Queued' = Queued
    <2>1. Queued' = FramesOf(Owned') \o Accepted'
      BY Zenon DEF Queued, FramesOf
    <2> QED
      BY <1>3, <1>10, <2>1 DEF Queued
  <1> QED
    BY <1>2, <1>3, <1>9, <1>11

\* The steps that do not touch what the queue is made of.
LEMMA OtherQueue ==
    ASSUME IInv, QInv, IInv', UNCHANGED <<ring, out, dma, frame, wire>>,
           pc' = pc \/ (pc # "output" /\ pc' # "output")
    PROVE  QInv' /\ UNCHANGED <<Queued, Sent, wire>>
  <1>1. TypeOK /\ TypeOK'
    BY DEF IInv
  <1>2. UNCHANGED ring /\ out' = out /\ dma' = dma /\ frame' = frame /\ wire' = wire
    OBVIOUS
  <1>3. /\ InOrder' = InOrder /\ Used' = Used /\ FramesOf(Owned') = FramesOf(Owned)
        /\ Sent' = Sent /\ FlagsOff' = FlagsOff
    BY <1>1, <1>2, RingKept
  <1>4. sUnavailableTxDescIndex' = sUnavailableTxDescIndex
    BY <1>2 DEF ring
  <1>5. PICK D : D = InOrder /\ D \in Seq(Descriptor) /\ Len(D) = Used
    BY <1>1, InOrderIs
  <1>6. PICK n \in 0 .. Used : /\ dma = Wrap(sUnavailableTxDescIndex + n)
                              /\ Reached(D, n, frame, pc, out)
    BY <1>5 DEF QInv
  <1>7. PICK c, b, o, fr : c = pc /\ b = pc' /\ o = out /\ fr = frame
    OBVIOUS
  <1>8. Lined(D, b, o) /\ Reached(D, n, fr, b, o)
    <2>1. Lined(D, c, o) /\ Reached(D, n, fr, c, o) /\ (b = c \/ (c # "output" /\ b # "output"))
      BY <1>5, <1>6, <1>7 DEF QInv
    <2> QED
      BY <1>5, <2>1, OtherKeeps
  <1>9. QInv'
    <2>1. Lined(InOrder', pc', out')
      BY <1>2, <1>3, <1>5, <1>7, <1>8
    <2>2. dma' = Wrap(sUnavailableTxDescIndex' + n) /\ Reached(InOrder', n, frame', pc', out')
      BY <1>2, <1>3, <1>4, <1>5, <1>6, <1>7, <1>8
    <2>3. FlagsOff' /\ n \in 0 .. Used'
      BY <1>3, <1>6 DEF QInv
    <2> QED
      BY <2>1, <2>2, <2>3 DEF QInv, Lined, Reached, Wrap
  <1>10. Accepted' = Accepted
    BY <1>1, <1>2, MapIs, MapIsNext
  <1>11. Queued' = Queued
    <2>1. Queued' = FramesOf(Owned') \o Accepted'
      BY Zenon DEF Queued, FramesOf
    <2> QED
      BY <1>3, <1>10, <2>1 DEF Queued
  <1> QED
    BY <1>2, <1>3, <1>9, <1>11

\* The initial state maps to the empty queue.
LEMMA InitQueue ==
    ASSUME Init
    PROVE  QInv /\ TxQueue!Init
  <1>1. TypeOK
    BY InitInv DEF IInv
  <1>2. Used = 0 /\ 0 \in 0 .. Used
    BY DescCountAssumption DEF Init, Used
  <1>3. PICK D : D = InOrder /\ D \in Seq(Descriptor) /\ Len(D) = 0
    BY <1>1, <1>2, InOrderIs
  <1>4. pc = "idle" /\ frame = <<>> /\ wire = <<>>
    BY DEF Init
  <1>5. dma = Wrap(sUnavailableTxDescIndex + 0)
    BY DescCountAssumption DEF Init, Wrap
  <1>6. FlagsOff
    BY DEF Init, FlagsOff, EmptyDescriptor
  <1>7. Lined(D, pc, out)
    BY <1>3, <1>4 DEF Lined
  <1>8. Reached(D, 0, frame, pc, out)
    BY <1>3, <1>4 DEF Reached
  <1>9. QInv
    BY <1>2, <1>3, <1>5, <1>6, <1>7, <1>8 DEF QInv
  <1>10. /\ Waiting(D) \in Seq(Pbufs) /\ Gone(D) \in Seq(Pbufs)
         /\ Len(Waiting(D)) + Len(Gone(D)) <= 0
    BY <1>3, FramesFit
  <1>11. PICK r, s : r = Waiting(D) /\ s = Gone(D)
    OBVIOUS
  <1>12. r = <<>> /\ s = <<>>
    <2>1. r \in Seq(Pbufs) /\ s \in Seq(Pbufs)
      BY <1>10, <1>11
    <2>2. Len(r) \in Nat /\ Len(s) \in Nat /\ Len(r) + Len(s) <= 0
      BY <1>10, <1>11
    <2>3. Len(r) = 0 /\ Len(s) = 0
      BY <2>2
    <2> QED
      BY <2>1, <2>3
  <1>13. Accepted = <<>> /\ FramesOf(Owned) = <<>> /\ Sent = <<>>
    BY <1>1, <1>3, <1>4, <1>11, <1>12, MapIs
  <1> QED
    BY <1>4, <1>9, <1>13 DEF TxQueue!Init, Queued

(***************************************************************************)
(* The ring implements the bounded queue of TxQueue: lowLevelOutput        *)
(* (Ethernetif.cpp:177-252) accepts frames, the DMA puts them onto the     *)
(* wire whole, once and in order, and releaseTxBuffers (273-302) gives     *)
(* them back in order.  The hypothesis is about the hardware and what is   *)
(* sent: TxDescriptor.h:35-56 only ever ORs into mDesc3, so frames of      *)
(* several descriptors are safe only where the write-back clears FD and LD.*)
(***************************************************************************)
THEOREM QueueImplemented == ASSUME FlagsHarmless PROVE Spec => ImplementsTxQueue
  <1>1. Init => QInv /\ TxQueue!Init
    BY InitQueue
  <1>2. IInv /\ IInv' /\ QInv /\ [Next]_vars => QInv' /\ [TxQueue!Next]_(TxQueue!vars)
    <2> SUFFICES ASSUME IInv, IInv', QInv, [Next]_vars
                 PROVE  /\ QInv'
                        /\ \/ \E p \in Pbufs : TxQueue!Accept(p)
                           \/ TxQueue!Send
                           \/ TxQueue!GiveBack
                           \/ UNCHANGED <<Queued, Sent, wire>>
      BY DEF TxQueue!Next, TxQueue!vars
    <2>1. ASSUME NEW p \in Pbufs, BeginOutput(p)
          PROVE  QInv' /\ TxQueue!Accept(p)
      BY <2>1, BeginQueue
    <2>2. CASE FillDescriptor
      BY <2>2, FillQueue
    <2>3. CASE ReleaseDescriptor
      BY <2>3, ReleaseQueue
    <2>4. CASE DmaTransmit
      BY <2>4, TransmitQueue
    <2>5. CASE Doorbell
      BY <2>5, DoorbellQueue
    <2>6. CASE \/ \E p \in Pbufs : RefuseOutput(p)
               \/ BeginRelease \/ EndRelease
               \/ LinkUp \/ LinkDown \/ DmaSuspend \/ UNCHANGED vars
      <3>1. UNCHANGED <<ring, out, dma, frame, wire>>
        BY <2>6 DEF RefuseOutput, BeginRelease, EndRelease, LinkUp, LinkDown, DmaSuspend,
                    vars, hardware
      <3>2. pc' = pc \/ (pc # "output" /\ pc' # "output")
        BY <2>6 DEF RefuseOutput, BeginRelease, EndRelease, LinkUp, LinkDown, DmaSuspend,
                    vars
      <3> QED
        BY <3>1, <3>2, OtherQueue
    <2> QED
      BY <2>1, <2>2, <2>3, <2>4, <2>5, <2>6 DEF Next, Output, Driver
  <1> QED
    BY <1>1, <1>2, Inductive, PTL DEF Spec, ImplementsTxQueue, TxQueue!Spec
=============================================================================
