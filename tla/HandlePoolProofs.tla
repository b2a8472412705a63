--------------------------- MODULE HandlePoolProofs ---------------------------
(***************************************************************************)
(* For any finite set of threads and any devices: handles are not shared   *)
(* and the number created for a device is the high-water mark of threads   *)
(* that had one.  For any shapes, algorithms and workspaces: convolutions  *)
(* run what they demand, and entries of their cache stay.                  *)
(***************************************************************************)
EXTENDS CudnnConv, CuFFTPlanCache, SequenceLemmas, SequenceTheorems, FiniteSetTheorems, TLAPS

\* The holders of a device are finitely many, and so countable.
LEMMA HoldersFinite ==
    ASSUME NEW d \in Devices
    PROVE  IsFiniteSet(Holders(d)) /\ Cardinality(Holders(d)) \in Nat
<1>1. Holders(d) \subseteq Threads
    BY DEF Holders
<1>2. IsFiniteSet(Holders(d))
    BY <1>1, ThreadsAssumption, FS_Subset
<1>. QED
    BY <1>2, FS_CardinalityType

\* A thread that gets a handle of d is one holder of d more, and of no other
\* device.
LEMMA OneMore ==
    ASSUME TypeOK, NEW t \in Threads, NEW d \in Devices, NEW h \in Nat \ {0},
           mine[t][d] = 0, mine' = [mine EXCEPT ![t][d] = h]
    PROVE  /\ Cardinality(Holders(d)') = Cardinality(Holders(d)) + 1
           /\ \A e \in Devices \ {d} : Holders(e)' = Holders(e)
<1>1. mine \in [Threads -> [Devices -> Nat]]
    BY DEF TypeOK
<1>2. mine'[t][d] = h /\ \A u \in Threads : \A e \in Devices :
         u # t \/ e # d => mine'[u][e] = mine[u][e]
    BY <1>1
<1>3. Holders(d)' = Holders(d) \cup {t} /\ t \notin Holders(d)
    BY <1>2 DEF Holders
<1>4. Cardinality(Holders(d)') = Cardinality(Holders(d)) + 1
    BY <1>3, HoldersFinite, FS_AddElement
<1>5. \A e \in Devices \ {d} : Holders(e)' = Holders(e)
    BY <1>2 DEF Holders
<1>. QED
    BY <1>4, <1>5

\* The invariant holds at the start.
LEMMA InitInv == Init => IInv
<1>. SUFFICES ASSUME Init PROVE IInv
    OBVIOUS
<1>1. TypeOK
    BY DEF Init, TypeOK
<1>2. NotShared
    BY DEF Init, NotShared
<1>3. Numbered
    BY DEF Init, Numbered
<1>4. \A d \in Devices : Holders(d) = {}
    BY DEF Init, Holders
<1>5. AllAccounted
    BY <1>4, FS_EmptySet DEF Init, AllAccounted
<1>6. CreatedIsPeak
    BY DEF Init, CreatedIsPeak
<1>. QED
    BY <1>1, <1>2, <1>3, <1>5, <1>6 DEF IInv

\* reserve with a handle of the pool: nothing is created, and with one holder
\* more there are still no more holders than handles.
LEMMA ReserveAvailableInv ==
    ASSUME IInv, NEW t \in Threads, NEW d \in Devices, ReserveAvailable(t, d)
    PROVE  IInv'
<1>. DEFINE n == Len(available[d])
            h == available[d][n]
<1>1. /\ available \in [Devices -> Seq(Nat \ {0})] /\ mine \in [Threads -> [Devices -> Nat]]
      /\ created \in [Devices -> Nat] /\ peak \in [Devices -> Nat]
    BY DEF IInv, TypeOK
<1>2. available[d] \in Seq(Nat \ {0}) /\ n \in Nat \ {0}
    BY <1>1 DEF ReserveAvailable
<1>3. h \in 1..created[d] /\ h \in Nat \ {0}
    BY <1>1, <1>2 DEF IInv, Numbered
<1>4. /\ mine[t][d] = 0 /\ mine' = [mine EXCEPT ![t][d] = h]
      /\ created' = created
    BY DEF ReserveAvailable
<1>5. /\ available'[d] \in Seq(Nat \ {0}) /\ Len(available'[d]) = n - 1
      /\ \A i \in 1..(n - 1) : available'[d][i] = available[d][i]
      /\ \A e \in Devices \ {d} : available'[e] = available[e]
      /\ available' \in [Devices -> Seq(Nat \ {0})]
    <2>1. available' = [available EXCEPT ![d] = SubSeq(available[d], 1, n - 1)]
        BY DEF ReserveAvailable
    <2>2. /\ SubSeq(available[d], 1, n - 1) \in Seq(Nat \ {0})
          /\ Len(SubSeq(available[d], 1, n - 1)) = n - 1
          /\ \A i \in 1..(n - 1) : SubSeq(available[d], 1, n - 1)[i] = available[d][i]
        BY <1>2
    <2>. QED
        BY <1>1, <2>1, <2>2
<1>6. mine'[t][d] = h /\ \A u \in Threads : \A e \in Devices :
         u # t \/ e # d => mine'[u][e] = mine[u][e]
    BY <1>1, <1>4
<1>7. /\ Cardinality(Holders(d)') = Cardinality(Holders(d)) + 1
      /\ \A e \in Devices \ {d} : Holders(e)' = Holders(e)
    BY <1>3, <1>4, OneMore DEF IInv
<1>8. created[d] = Cardinality(Holders(d)) + n /\ created[d] = peak[d]
    BY DEF IInv, AllAccounted, CreatedIsPeak
<1>9. peak' = peak
    <2>1. Cardinality(Holders(d)) + 1 <= peak[d]
        BY <1>2, <1>8, HoldersFinite
    <2>2. peak' = [peak EXCEPT ![d] = IF Cardinality(Holders(d)) + 1 > peak[d]
                                      THEN Cardinality(Holders(d)) + 1 ELSE peak[d]]
        BY DEF ReserveAvailable, CountPeak
    <2>3. ~ (Cardinality(Holders(d)) + 1 > peak[d])
        BY <2>1, <1>1, HoldersFinite
    <2>. QED
        BY <1>1, <2>2, <2>3
<1>10. TypeOK'
    <2>1. mine' \in [Threads -> [Devices -> Nat]]
        BY <1>1, <1>3, <1>4
    <2>. QED
        BY <1>1, <1>4, <1>5, <1>9, <2>1 DEF TypeOK
<1>16. \A i \in 1..Len(available'[d]) :
          /\ i \in 1..n /\ i # n
          /\ available'[d][i] = available[d][i]
    BY <1>2, <1>5
<1>11. NotShared'
    <2>1. \A i \in 1..(n - 1) : available[d][i] # h
        <3>1. \A i, j \in 1..n : available[d][i] = available[d][j] => i = j
            BY DEF IInv, NotShared
        <3>. QED
            BY <1>2, <3>1
    <2>2. \A u \in Threads : mine[u][d] # h
        BY <1>2 DEF IInv, NotShared
    <2>3. \A e \in Devices : \A u, v \in Threads :
             u # v /\ mine'[u][e] # 0 => mine'[u][e] # mine'[v][e]
        BY <1>6, <2>2 DEF IInv, NotShared
    <2>4. \A e \in Devices : \A u \in Threads : \A i \in 1..Len(available'[e]) :
             available'[e][i] # mine'[u][e]
        <3>1. \A u \in Threads : \A i \in 1..Len(available'[d]) : available'[d][i] # mine'[u][d]
            <4>1. /\ \A u \in Threads : \A i \in 1..n : available[d][i] # mine[u][d]
                  /\ \A i \in 1..n : available[d][i] = h => i = n
                BY <1>2 DEF IInv, NotShared
            <4>. QED
                BY <4>1, <1>6, <1>16
        <3>2. \A e \in Devices \ {d} : \A u \in Threads : \A i \in 1..Len(available'[e]) :
                 available'[e][i] # mine'[u][e]
            <4>1. \A e \in Devices \ {d} : \A u \in Threads : \A i \in 1..Len(available[e]) :
                     available[e][i] # mine[u][e]
                BY DEF IInv, NotShared
            <4>2. \A e \in Devices \ {d} : /\ available'[e] = available[e]
                                            /\ \A u \in Threads : mine'[u][e] = mine[u][e]
                BY <1>5, <1>6
            <4>. QED
                BY <4>1, <4>2
        <3>. QED
            BY <3>1, <3>2
    <2>5. \A e \in Devices : \A i, j \in 1..Len(available'[e]) :
             available'[e][i] = available'[e][j] => i = j
        <3>1. \A i, j \in 1..Len(available'[d]) :
                 available'[d][i] = available'[d][j] => i = j
            <4>1. \A i, j \in 1..n : available[d][i] = available[d][j] => i = j
                BY DEF IInv, NotShared
            <4>. QED
                BY <4>1, <1>16
        <3>2. \A e \in Devices \ {d} : \A i, j \in 1..Len(available'[e]) :
                 available'[e][i] = available'[e][j] => i = j
            BY <1>5 DEF IInv, NotShared
        <3>. QED
            BY <3>1, <3>2
    <2>. QED
        BY <2>3, <2>4, <2>5 DEF NotShared
<1>12. Numbered'
    <2>1. \A e \in Devices : \A u \in Threads : mine'[u][e] \in 0..created'[e]
        BY <1>1, <1>3, <1>4, <1>6 DEF IInv, Numbered
    <2>2. \A i \in 1..Len(available'[d]) : available'[d][i] \in 1..created'[d]
        <3>1. \A i \in 1..n : available[d][i] \in 1..created[d]
            BY DEF IInv, Numbered
        <3>. QED
            BY <3>1, <1>4, <1>16
    <2>3. \A e \in Devices \ {d} : \A i \in 1..Len(available'[e]) :
             available'[e][i] \in 1..created'[e]
        BY <1>4, <1>5 DEF IInv, Numbered
    <2>. QED
        BY <2>1, <2>2, <2>3 DEF Numbered
<1>13. AllAccounted'
    <2>1. created'[d] = Cardinality(Holders(d)') + Len(available'[d])
        BY <1>2, <1>4, <1>5, <1>7, <1>8, HoldersFinite
    <2>2. \A e \in Devices \ {d} :
             created'[e] = Cardinality(Holders(e)') + Len(available'[e])
        BY <1>4, <1>5, <1>7 DEF IInv, AllAccounted
    <2>. QED
        BY <2>1, <2>2 DEF AllAccounted
<1>14. CreatedIsPeak'
    BY <1>4, <1>9 DEF IInv, CreatedIsPeak
<1>. QED
    BY <1>10, <1>11, <1>12, <1>13, <1>14 DEF IInv

\* reserve when the pool has none: all handles are held, so one more holder
\* is a new high-water mark.
LEMMA ReserveNewInv ==
    ASSUME IInv, NEW t \in Threads, NEW d \in Devices, ReserveNew(t, d)
    PROVE  IInv'
<1>. DEFINE h == created[d] + 1
<1>1. /\ available \in [Devices -> Seq(Nat \ {0})] /\ mine \in [Threads -> [Devices -> Nat]]
      /\ created \in [Devices -> Nat] /\ peak \in [Devices -> Nat]
    BY DEF IInv, TypeOK
<1>2. h \in Nat \ {0}
    BY <1>1
<1>3. /\ mine[t][d] = 0 /\ mine' = [mine EXCEPT ![t][d] = h]
      /\ created' = [created EXCEPT ![d] = h]
      /\ available' = available /\ available[d] = <<>>
    BY DEF ReserveNew
<1>4. mine'[t][d] = h /\ \A u \in Threads : \A e \in Devices :
         u # t \/ e # d => mine'[u][e] = mine[u][e]
    BY <1>1, <1>3
<1>5. created'[d] = h /\ \A e \in Devices \ {d} : created'[e] = created[e]
    BY <1>1, <1>3
<1>6. /\ Cardinality(Holders(d)') = Cardinality(Holders(d)) + 1
      /\ \A e \in Devices \ {d} : Holders(e)' = Holders(e)
    BY <1>2, <1>3, OneMore DEF IInv
<1>7. created[d] = Cardinality(Holders(d)) /\ created[d] = peak[d]
    <2>1. created[d] = Cardinality(Holders(d)) + Len(available[d]) /\ created[d] = peak[d]
        BY DEF IInv, AllAccounted, CreatedIsPeak
    <2>. QED
        BY <2>1, <1>3, HoldersFinite
<1>8. peak' = [peak EXCEPT ![d] = h]
    <2>1. peak' = [peak EXCEPT ![d] = IF Cardinality(Holders(d)) + 1 > peak[d]
                                      THEN Cardinality(Holders(d)) + 1 ELSE peak[d]]
        BY DEF ReserveNew, CountPeak
    <2>2. Cardinality(Holders(d)) + 1 > peak[d] /\ Cardinality(Holders(d)) + 1 = h
        BY <1>1, <1>7
    <2>. QED
        BY <2>1, <2>2
<1>9. TypeOK'
    <2>1. mine' \in [Threads -> [Devices -> Nat]]
        BY <1>1, <1>2, <1>3
    <2>2. created' \in [Devices -> Nat] /\ peak' \in [Devices -> Nat]
        BY <1>1, <1>2, <1>3, <1>8
    <2>. QED
        BY <1>1, <1>3, <2>1, <2>2 DEF TypeOK
<1>10. \A u \in Threads : mine[u][d] # h
    BY <1>1, <1>2 DEF IInv, Numbered
<1>11. NotShared'
    <2>1. \A e \in Devices : \A u, v \in Threads :
             u # v /\ mine'[u][e] # 0 => mine'[u][e] # mine'[v][e]
        BY <1>4, <1>10 DEF IInv, NotShared
    <2>2. \A e \in Devices : \A u \in Threads : \A i \in 1..Len(available'[e]) :
             available'[e][i] # mine'[u][e]
        BY <1>3, <1>4 DEF IInv, NotShared
    <2>3. \A e \in Devices : \A i, j \in 1..Len(available'[e]) :
             available'[e][i] = available'[e][j] => i = j
        BY <1>3 DEF IInv, NotShared
    <2>. QED
        BY <2>1, <2>2, <2>3 DEF NotShared
<1>12. Numbered'
    <2>1. ASSUME NEW e \in Devices
          PROVE  created[e] <= created'[e]
        <3>. created[e] \in Nat /\ created[d] \in Nat
            BY <1>1
        <3>1. CASE e = d
            BY <3>1, <1>5
        <3>2. CASE e # d
            BY <3>2, <1>5
        <3>. QED
            BY <3>1, <3>2
    <2>2. ASSUME NEW e \in Devices, NEW u \in Threads
          PROVE  mine'[u][e] \in 0..created'[e]
        <3>1. mine[u][e] \in 0..created[e] /\ created[e] \in Nat /\ created'[e] \in Nat
            BY <1>1, <1>2, <1>5 DEF IInv, Numbered
        <3>2. CASE u = t /\ e = d
            BY <3>2, <1>2, <1>4, <1>5
        <3>3. CASE u # t \/ e # d
            BY <3>1, <3>3, <1>4, <2>1
        <3>. QED
            BY <3>2, <3>3
    <2>3. \A e \in Devices : \A i \in 1..Len(available'[e]) :
             available'[e][i] \in 1..created'[e]
        BY <1>3, <1>5 DEF IInv, Numbered
    <2>. QED
        BY <2>2, <2>3 DEF Numbered
<1>13. AllAccounted'
    <2>1. created'[d] = Cardinality(Holders(d)') + Len(available'[d])
        BY <1>1, <1>3, <1>5, <1>6, <1>7
    <2>2. \A e \in Devices \ {d} :
             created'[e] = Cardinality(Holders(e)') + Len(available'[e])
        BY <1>3, <1>5, <1>6 DEF IInv, AllAccounted
    <2>. QED
        BY <2>1, <2>2 DEF AllAccounted
<1>14. CreatedIsPeak'
    BY <1>1, <1>3, <1>8 DEF IInv, CreatedIsPeak
<1>. QED
    BY <1>9, <1>11, <1>12, <1>13, <1>14 DEF IInv

\* A thread exits: its handles move from its window to the pool.
LEMMA ReleaseInv ==
    ASSUME IInv, NEW t \in Threads, Release(t)
    PROVE  IInv'
<1>1. /\ available \in [Devices -> Seq(Nat \ {0})] /\ mine \in [Threads -> [Devices -> Nat]]
      /\ created \in [Devices -> Nat] /\ peak \in [Devices -> Nat]
    BY DEF IInv, TypeOK
<1>2. /\ created' = created /\ peak' = peak
      /\ mine' = [mine EXCEPT ![t] = [d \in Devices |-> 0]]
      /\ available' = [d \in Devices |->
            IF mine[t][d] # 0 THEN Append(available[d], mine[t][d]) ELSE available[d]]
    BY DEF Release
<1>3. \A d \in Devices : /\ mine'[t][d] = 0
                         /\ \A u \in Threads \ {t} : mine'[u][d] = mine[u][d]
    BY <1>1, <1>2
<1>4. ASSUME NEW d \in Devices, mine[t][d] = 0
      PROVE  available'[d] = available[d] /\ Holders(d)' = Holders(d)
    BY <1>2, <1>3, <1>4 DEF Holders
<1>5. ASSUME NEW d \in Devices, mine[t][d] # 0
      PROVE  /\ available'[d] \in Seq(Nat \ {0})
             /\ Len(available'[d]) = Len(available[d]) + 1
             /\ available'[d][Len(available[d]) + 1] = mine[t][d]
             /\ \A i \in 1..Len(available[d]) : available'[d][i] = available[d][i]
             /\ Cardinality(Holders(d)') = Cardinality(Holders(d)) - 1
    <2>1. available[d] \in Seq(Nat \ {0}) /\ mine[t][d] \in Nat \ {0}
        BY <1>1, <1>5
    <2>2. available'[d] = Append(available[d], mine[t][d])
        BY <1>2, <1>5
    <2>3. Holders(d)' = Holders(d) \ {t} /\ t \in Holders(d)
        BY <1>3, <1>5 DEF Holders
    <2>4. Cardinality(Holders(d)') = Cardinality(Holders(d)) - 1
        BY <2>3, HoldersFinite, FS_RemoveElement
    <2>5. LET s == Append(available[d], mine[t][d])
          IN  /\ s \in Seq(Nat \ {0})
              /\ Len(s) = Len(available[d]) + 1
              /\ s[Len(available[d]) + 1] = mine[t][d]
              /\ \A i \in 1..Len(available[d]) : s[i] = available[d][i]
        BY <2>1
    <2>. QED
        BY <2>2, <2>4, <2>5
<1>6. TypeOK'
    <2>1. \A d \in Devices : available'[d] \in Seq(Nat \ {0})
        BY <1>1, <1>4, <1>5
    <2>2. available' \in [Devices -> Seq(Nat \ {0})]
        BY <1>2, <2>1
    <2>3. mine' \in [Threads -> [Devices -> Nat]]
        BY <1>1, <1>2
    <2>. QED
        BY <1>1, <1>2, <2>2, <2>3 DEF TypeOK
<1>7. NotShared'
    <2>1. \A d \in Devices : \A u, v \in Threads :
             u # v /\ mine'[u][d] # 0 => mine'[u][d] # mine'[v][d]
        BY <1>3 DEF IInv, NotShared
    <2>2. ASSUME NEW d \in Devices
          PROVE  /\ \A u \in Threads : \A i \in 1..Len(available'[d]) :
                       available'[d][i] # mine'[u][d]
                 /\ \A i, j \in 1..Len(available'[d]) :
                       available'[d][i] = available'[d][j] => i = j
        <3>. available[d] \in Seq(Nat \ {0}) /\ Len(available[d]) \in Nat
            BY <1>1
        <3>1. \A i \in 1..Len(available[d]) : available[d][i] # 0
            BY <1>1 DEF IInv, Numbered
        <3>4. /\ \A u \in Threads : \A i \in 1..Len(available[d]) : available[d][i] # mine[u][d]
              /\ \A u \in Threads : u # t /\ mine[t][d] # 0 => mine[t][d] # mine[u][d]
              /\ \A i, j \in 1..Len(available[d]) :
                    available[d][i] = available[d][j] => i = j
            BY DEF IInv, NotShared
        <3>2. CASE mine[t][d] = 0
            <4>1. \A u \in Threads : mine'[u][d] = mine[u][d]
                BY <1>3, <3>2
            <4>2. available'[d] = available[d]
                BY <1>4, <3>2
            <4>. QED
                BY <3>4, <4>1, <4>2
        <3>3. CASE mine[t][d] # 0
            <4>1. \A i \in 1..Len(available'[d]) :
                     i \in 1..Len(available[d]) \/ i = Len(available[d]) + 1
                BY <1>5, <3>3
            <4>2. \A u \in Threads : \A i \in 1..Len(available'[d]) :
                     available'[d][i] # mine'[u][d]
                <5>1. /\ available'[d][Len(available[d]) + 1] = mine[t][d]
                      /\ \A i \in 1..Len(available[d]) : available'[d][i] = available[d][i]
                    BY <1>5, <3>3
                <5>2. ASSUME NEW u \in Threads, NEW i \in 1..Len(available'[d])
                      PROVE  available'[d][i] # mine'[u][d]
                    <6>1. CASE i \in 1..Len(available[d])
                        BY <1>3, <3>1, <3>4, <5>1, <6>1
                    <6>2. CASE i = Len(available[d]) + 1
                        BY <1>3, <3>3, <3>4, <5>1, <6>2
                    <6>. QED
                        BY <4>1, <6>1, <6>2
                <5>. QED
                    BY <5>2
            <4>3. \A i, j \in 1..Len(available'[d]) :
                     available'[d][i] = available'[d][j] => i = j
                <5>1. /\ available'[d][Len(available[d]) + 1] = mine[t][d]
                      /\ \A i \in 1..Len(available[d]) :
                            /\ available'[d][i] = available[d][i]
                            /\ available[d][i] # mine[t][d]
                    BY <1>5, <3>3, <3>4
                <5>2. ASSUME NEW i \in 1..Len(available'[d]), NEW j \in 1..Len(available'[d]),
                             available'[d][i] = available'[d][j]
                      PROVE  i = j
                    <6>1. CASE i \in 1..Len(available[d]) /\ j \in 1..Len(available[d])
                        BY <3>4, <5>1, <5>2, <6>1
                    <6>2. CASE i = Len(available[d]) + 1 \/ j = Len(available[d]) + 1
                        BY <4>1, <5>1, <5>2, <6>2
                    <6>. QED
                        BY <4>1, <6>1, <6>2
                <5>. QED
                    BY <5>2
            <4>. QED
                BY <4>2, <4>3
        <3>. QED
            BY <3>2, <3>3
    <2>. QED
        BY <2>1, <2>2 DEF NotShared
<1>8. Numbered'
    <2>1. \A d \in Devices : \A u \in Threads : mine'[u][d] \in 0..created'[d]
        BY <1>1, <1>2, <1>3 DEF IInv, Numbered
    <2>2. ASSUME NEW d \in Devices
          PROVE  \A i \in 1..Len(available'[d]) : available'[d][i] \in 1..created'[d]
        <3>3. \A i \in 1..Len(available[d]) : available[d][i] \in 1..created[d]
            BY DEF IInv, Numbered
        <3>1. CASE mine[t][d] = 0
            BY <1>2, <1>4, <3>1, <3>3
        <3>2. CASE mine[t][d] # 0
            <4>1. mine[t][d] \in 1..created[d] /\ Len(available[d]) \in Nat
                BY <1>1, <3>2 DEF IInv, Numbered
            <4>2. \A i \in 1..Len(available'[d]) :
                     i \in 1..Len(available[d]) \/ i = Len(available[d]) + 1
                BY <1>5, <3>2, <4>1
            <4>. QED
                BY <1>2, <1>5, <3>2, <3>3, <4>1, <4>2
        <3>. QED
            BY <3>1, <3>2
    <2>. QED
        BY <2>1, <2>2 DEF Numbered
<1>9. AllAccounted'
    <2>1. ASSUME NEW d \in Devices
          PROVE  created'[d] = Cardinality(Holders(d)') + Len(available'[d])
        <3>1. created[d] = Cardinality(Holders(d)) + Len(available[d])
            BY DEF IInv, AllAccounted
        <3>2. Cardinality(Holders(d)) \in Nat /\ Len(available[d]) \in Nat
            BY <1>1, HoldersFinite
        <3>3. CASE mine[t][d] = 0
            BY <1>2, <1>4, <3>1, <3>3
        <3>4. CASE mine[t][d] # 0
            BY <1>2, <1>5, <3>1, <3>2, <3>4
        <3>. QED
            BY <3>3, <3>4
    <2>. QED
        BY <2>1 DEF AllAccounted
<1>10. CreatedIsPeak'
    BY <1>2 DEF IInv, CreatedIsPeak
<1>. QED
    BY <1>6, <1>7, <1>8, <1>9, <1>10 DEF IInv

\* The inductive invariant of the pool holds in every behaviour.
THEOREM Invariance == Spec => []IInv
<1>1. IInv /\ [Next]_vars => IInv'
    <2>. SUFFICES ASSUME IInv, [Next]_vars PROVE IInv'
        OBVIOUS
    <2>1. ASSUME NEW t \in Threads, NEW d \in Devices, ReserveAvailable(t, d) PROVE IInv'
        BY <2>1, ReserveAvailableInv
    <2>2. ASSUME NEW t \in Threads, NEW d \in Devices, ReserveNew(t, d) PROVE IInv'
        BY <2>2, ReserveNewInv
    <2>3. ASSUME NEW t \in Threads, Release(t) PROVE IInv'
        BY <2>3, ReleaseInv
    <2>4. CASE UNCHANGED vars
        BY <2>4 DEF vars, IInv, TypeOK, NotShared, Numbered, AllAccounted, Holders, CreatedIsPeak
    <2>. QED
        BY <2>1, <2>2, <2>3, <2>4 DEF Next
<1>. QED
    BY <1>1, InitInv, PTL DEF Spec

\* Every variable keeps its type.
THEOREM TypeCorrect == Spec => []TypeOK
<1>1. IInv => TypeOK
    BY DEF IInv
<1>. QED
    BY <1>1, Invariance, PTL

\* No handle is in two windows, or in a window and in the pool.
THEOREM HandlesNotShared == Spec => []NotShared
<1>1. IInv => NotShared
    BY DEF IInv
<1>. QED
    BY <1>1, Invariance, PTL

\* The number of handles created for a device is the high-water mark of the
\* threads that had one, as DeviceThreadHandles.h:60 says.
THEOREM HighWaterMark == Spec => []CreatedIsPeak
<1>1. IInv => CreatedIsPeak
    BY DEF IInv
<1>. QED
    BY <1>1, Invariance, PTL

\* The pool shares no handle and creates none that it could have reused.
THEOREM PoolSafety == Spec => []PoolSafe
<1>1. NotShared /\ CreatedIsPeak => PoolSafe
    BY DEF PoolSafe
<1>. QED
    BY <1>1, HandlesNotShared, HighWaterMark, PTL

-----------------------------------------------------------------------------
\* What is known of an algorithm, and the calls of convolutions under way.
Perfs == [algo : Algos, memory : Nat, device : Devices]

Places == {"find", "recheck", "search", "insert", "allocate", "record", "retry", "run"}

Convolutions ==
    [pc : Places, device : Devices, params : Params, benchmark : BOOLEAN,
     demands : BOOLEAN, missed : BOOLEAN, perf : Perfs \cup {Missing}]

ConvTypeOK ==
    /\ cache \in [Params -> Perfs \cup {Missing}]
    /\ call \in [Threads -> Convolutions \cup {NoCall}]

\* An algorithm that a convolution with these parameters may run.
Suits(perf, p) ==
    /\ perf \in Perfs /\ perf.memory = Need[<<perf.algo, perf.device>>]
    /\ p.deterministic => perf.algo \in Deterministic

\* Whoever recorded an entry, it suits all who find it.
CacheInv == \A p \in Params : cache[p] # Missing => Suits(cache[p], p)

\* What a call has chosen suits it, what it records after a lack of memory is
\* the default, and it benchmarks only what was missing when it began.
CallFits(c) ==
    c # NoCall =>
        /\ c.demands = c.params.deterministic
        /\ c.pc \in {"insert", "allocate", "record", "retry", "run"} => Suits(c.perf, c.params)
        /\ c.pc = "record" => c.perf.algo = DefaultAlgo
        /\ c.pc \in {"recheck", "search", "insert"} => c.missed
        /\ ~c.missed => cache[c.params] # Missing

ConvInv == ConvTypeOK /\ CacheInv /\ \A t \in Threads : CallFits(call[t])

\* A call under way is known by where it is.
LEMMA UnderWay ==
    ASSUME ConvTypeOK, NEW t \in Threads, call[t].pc # "idle"
    PROVE  call[t] \in Convolutions /\ call[t] # NoCall
BY DEF ConvTypeOK, NoCall

LEMMA PerfSuits ==
    ASSUME NEW algo \in Algos, NEW d \in Devices, NEW p \in Params,
           p.deterministic => algo \in Deterministic
    PROVE  /\ Suits(Perf(algo, d), p) /\ Perf(algo, d) # Missing
           /\ Perf(algo, d) \in Perfs /\ Perf(algo, d).algo = algo
BY AlgosAssumption DEF Perf, Suits, Perfs

\* A step of one call that does not take an entry out of the cache.
LEMMA OneCall ==
    ASSUME ConvInv, NEW t \in Threads, NEW c \in Convolutions \cup {NoCall},
           call' = [call EXCEPT ![t] = c], CallFits(c)',
           cache' \in [Params -> Perfs \cup {Missing}], CacheInv',
           \A p \in Params : cache[p] # Missing => cache'[p] # Missing
    PROVE  ConvInv'
<1>1. ConvTypeOK'
    BY DEF ConvInv, ConvTypeOK
<1>2. ASSUME NEW u \in Threads PROVE CallFits(call[u])'
    <2>1. CASE u = t
        BY <2>1 DEF ConvInv, ConvTypeOK, CallFits
    <2>2. CASE u # t
        <3>1. call'[u] = call[u] /\ CallFits(call[u]) /\ call[u] \in Convolutions \cup {NoCall}
            BY <2>2 DEF ConvInv, ConvTypeOK
        <3>2. call[u] # NoCall => call[u].params \in Params
            BY <3>1 DEF Convolutions
        <3>. QED
            BY <3>1, <3>2 DEF CallFits
    <2>. QED
        BY <2>1, <2>2
<1>. QED
    BY <1>1, <1>2 DEF ConvInv

\* The same for the steps that leave the cache alone.
LEMMA OneCallOnly ==
    ASSUME ConvInv, NEW t \in Threads, NEW c \in Convolutions \cup {NoCall},
           call' = [call EXCEPT ![t] = c], CallFits(c), UNCHANGED cache
    PROVE  ConvInv'
<1>1. CallFits(c)' /\ CacheInv' /\ cache' \in [Params -> Perfs \cup {Missing}]
    BY DEF CallFits, CacheInv, ConvInv, ConvTypeOK
<1>. QED
    BY <1>1, OneCall

\* The step of a call from d to c changes only where it is, and what it has chosen.
Follows(c, d) ==
    /\ c # NoCall /\ c.params = d.params /\ c.device = d.device
    /\ c.demands = d.demands /\ c.missed = d.missed

\* A call goes on at pc, with an algorithm.
LEMMA GoesWith ==
    ASSUME ConvTypeOK, NEW t \in Threads, call[t].pc # "idle",
           NEW pc \in Places, NEW perf \in Perfs \cup {Missing}, GoWith(t, pc, perf)
    PROVE  \E c \in Convolutions :
              /\ call' = [call EXCEPT ![t] = c] /\ Follows(c, call[t])
              /\ c.pc = pc /\ c.perf = perf
<1>1. call[t] \in Convolutions /\ t \in DOMAIN call
    BY UnderWay DEF ConvTypeOK
<1>. DEFINE c == [call[t] EXCEPT !.pc = pc, !.perf = perf]
<1>2. c \in Convolutions
    BY <1>1 DEF Convolutions, Places
<1>3. Follows(c, call[t]) /\ c.pc = pc /\ c.perf = perf
    BY <1>1, <1>2 DEF Convolutions, Follows, NoCall, Places
<1>4. call' = [call EXCEPT ![t] = c]
    BY <1>1 DEF GoWith
<1>. QED
    BY <1>2, <1>3, <1>4

\* A call goes on at pc.
LEMMA Goes ==
    ASSUME ConvTypeOK, NEW t \in Threads, call[t].pc # "idle", NEW pc \in Places, Goto(t, pc)
    PROVE  \E c \in Convolutions :
              /\ call' = [call EXCEPT ![t] = c] /\ Follows(c, call[t])
              /\ c.pc = pc /\ c.perf = call[t].perf
<1>1. call[t] \in Convolutions /\ t \in DOMAIN call
    BY UnderWay DEF ConvTypeOK
<1>. DEFINE c == [call[t] EXCEPT !.pc = pc]
<1>2. c \in Convolutions
    BY <1>1 DEF Convolutions, Places
<1>3. Follows(c, call[t]) /\ c.pc = pc /\ c.perf = call[t].perf
    BY <1>1, <1>2 DEF Convolutions, Follows, NoCall, Places
<1>4. call' = [call EXCEPT ![t] = c]
    BY <1>1 DEF Goto
<1>. QED
    BY <1>2, <1>3, <1>4

LEMMA ConvInitInv == ConvInit => ConvInv
<1>. SUFFICES ASSUME ConvInit PROVE ConvInv
    OBVIOUS
<1>. QED
    BY DEF ConvInit, ConvInv, ConvTypeOK, CacheInv, CallFits

\* A call begins: nothing is chosen, and "missed" says what the cache has.
LEMMA ConvStartInv ==
    ASSUME ConvInv, NEW t \in Threads, NEW d \in Devices, NEW shape \in Shapes,
           NEW deterministic \in BOOLEAN, NEW benchmark \in BOOLEAN,
           ConvStart(t, d, shape, deterministic, benchmark)
    PROVE  ConvInv'
<1>. DEFINE p == Key(shape, deterministic)
            c == [pc |-> "find", device |-> d, params |-> p, benchmark |-> benchmark,
                  demands |-> deterministic, missed |-> cache[p] = Missing, perf |-> Missing]
<1>1. p \in Params /\ p.deterministic = deterministic
    BY DEF Key, Params
<1>2. (cache[p] = Missing) \in BOOLEAN
    OBVIOUS
<1>3. c \in Convolutions
    BY <1>1, <1>2 DEF Convolutions, Places
<1>4. CallFits(c)
    BY <1>1 DEF CallFits
<1>5. call' = [call EXCEPT ![t] = c] /\ UNCHANGED cache
    BY DEF ConvStart
<1>. HIDE DEF c
<1>. QED
    BY <1>3, <1>4, <1>5, OneCallOnly

\* A call chooses an algorithm that suits it.
LEMMA Chooses ==
    ASSUME ConvInv, NEW t \in Threads, call[t].pc # "idle",
           NEW pc \in {"insert", "allocate", "record"}, NEW perf \in Perfs,
           Suits(perf, call[t].params), pc = "insert" => call[t].missed,
           pc = "record" => perf.algo = DefaultAlgo, GoWith(t, pc, perf), UNCHANGED cache
    PROVE  ConvInv'
<1>1. call[t] # NoCall /\ ConvTypeOK /\ CallFits(call[t])
    BY UnderWay DEF ConvInv
<1>2. PICK c \in Convolutions : /\ call' = [call EXCEPT ![t] = c] /\ Follows(c, call[t])
                                /\ c.pc = pc /\ c.perf = perf
    BY <1>1, GoesWith DEF Places
<1>3. CallFits(c)
    BY <1>1, <1>2 DEF CallFits, Follows
<1>. QED
    BY <1>2, <1>3, OneCallOnly

\* A call moves on with what it has chosen.
LEMMA Moves ==
    ASSUME ConvInv, NEW t \in Threads, call[t].pc # "idle",
           NEW pc \in {"recheck", "search", "allocate", "retry", "run"},
           pc \in {"recheck", "search"} => call[t].missed,
           pc \in {"allocate", "retry", "run"} => Suits(call[t].perf, call[t].params),
           Goto(t, pc), cache' \in [Params -> Perfs \cup {Missing}], CacheInv',
           \A p \in Params : cache[p] # Missing => cache'[p] # Missing
    PROVE  ConvInv'
<1>1. call[t] \in Convolutions /\ call[t] # NoCall /\ ConvTypeOK /\ CallFits(call[t])
    BY UnderWay DEF ConvInv
<1>2. call[t].params \in Params
    BY <1>1 DEF Convolutions
<1>3. PICK c \in Convolutions : /\ call' = [call EXCEPT ![t] = c] /\ Follows(c, call[t])
                                /\ c.pc = pc /\ c.perf = call[t].perf
    BY <1>1, Goes DEF Places
<1>4. CallFits(c)'
    BY <1>1, <1>2, <1>3 DEF CallFits, Follows
<1>. QED
    BY <1>3, <1>4, OneCall

\* The same when the cache stays.
LEMMA MovesOnly ==
    ASSUME ConvInv, NEW t \in Threads, call[t].pc # "idle",
           NEW pc \in {"recheck", "search", "allocate", "retry", "run"},
           pc \in {"recheck", "search"} => call[t].missed,
           pc \in {"allocate", "retry", "run"} => Suits(call[t].perf, call[t].params),
           Goto(t, pc), UNCHANGED cache
    PROVE  ConvInv'
<1>1. CacheInv' /\ cache' \in [Params -> Perfs \cup {Missing}]
    BY DEF CacheInv, ConvInv, ConvTypeOK
<1>. QED
    BY <1>1, Moves

\* The entry of the cache or the default is chosen, or the search begins.
LEMMA FindInv ==
    ASSUME ConvInv, NEW t \in Threads, Find(t) \/ Recheck(t)
    PROVE  ConvInv'
<1>1. call[t] \in Convolutions /\ call[t] # NoCall /\ CallFits(call[t]) /\ call[t].pc # "idle"
    BY UnderWay DEF ConvInv, Find, Recheck, At
<1>. DEFINE entry == cache[call[t].params]
            default == Perf(DefaultAlgo, call[t].device)
<1>2. call[t].params \in Params /\ call[t].device \in Devices
    BY <1>1 DEF Convolutions
<1>3. entry \in Perfs \cup {Missing} /\ (entry # Missing => Suits(entry, call[t].params))
    BY <1>2 DEF ConvInv, ConvTypeOK, CacheInv
<1>4. default \in Perfs /\ Suits(default, call[t].params)
    BY <1>2, PerfSuits, AlgosAssumption
<1>5. UNCHANGED cache
    BY DEF Find, Recheck
<1>6. CASE entry # Missing
    <2>1. GoWith(t, "allocate", entry)
        BY <1>6 DEF Find, Recheck
    <2>. QED
        BY <1>1, <1>3, <1>5, <1>6, <2>1, Chooses
<1>7. CASE entry = Missing
    <2>1. call[t].missed
        BY <1>1, <1>7 DEF CallFits, ConvInv, ConvTypeOK, Convolutions
    <2>2. GoWith(t, "allocate", default) \/ Goto(t, "recheck") \/ Goto(t, "search")
        BY <1>7 DEF Find, Recheck
    <2>. QED
        BY <1>1, <1>4, <1>5, <2>1, <2>2, Chooses, MovesOnly
<1>. QED
    BY <1>6, <1>7

\* What cuDNN offers, or the default instead.
LEMMA SearchInv ==
    ASSUME ConvInv, NEW t \in Threads, Search(t) \/ SearchFails(t)
    PROVE  ConvInv'
<1>1. call[t] \in Convolutions /\ call[t] # NoCall /\ CallFits(call[t]) /\ call[t].pc = "search"
    BY UnderWay DEF ConvInv, Search, SearchFails, At
<1>2. call[t].params \in Params /\ call[t].device \in Devices /\ call[t].missed
    BY <1>1 DEF Convolutions, CallFits
<1>3. PICK algo \in Algos, pc \in {"insert", "allocate"} :
          /\ call[t].params.deterministic => algo \in Deterministic
          /\ GoWith(t, pc, Perf(algo, call[t].device))
    BY AlgosAssumption DEF Search, SearchFails
<1>4. UNCHANGED cache
    BY DEF Search, SearchFails
<1>5. /\ Perf(algo, call[t].device) \in Perfs
      /\ Suits(Perf(algo, call[t].device), call[t].params)
    BY <1>2, <1>3, PerfSuits
<1>. QED
    BY <1>1, <1>2, <1>3, <1>4, <1>5, Chooses

\* Recording what was found, or the default.
LEMMA RecordInv ==
    ASSUME ConvInv, NEW t \in Threads, InsertFound(t) \/ RecordDefault(t)
    PROVE  ConvInv'
<1>1. /\ call[t] \in Convolutions /\ call[t] # NoCall /\ CallFits(call[t])
      /\ call[t].pc \in {"insert", "record"}
    BY UnderWay DEF ConvInv, InsertFound, RecordDefault, At
<1>. DEFINE perf == call[t].perf
            p == call[t].params
<1>2. p \in Params /\ perf \in Perfs /\ Suits(perf, p) /\ perf # Missing
    BY <1>1, AlgosAssumption DEF Convolutions, CallFits, Suits, Perfs
<1>3. cache' = [cache EXCEPT ![p] = perf]
    BY DEF InsertFound, RecordDefault
<1>. HIDE DEF perf, p
<1>4. cache' \in [Params -> Perfs \cup {Missing}] /\ CacheInv'
      /\ \A q \in Params : cache[q] # Missing => cache'[q] # Missing
    BY <1>2, <1>3 DEF ConvInv, ConvTypeOK, CacheInv
<1>5. Goto(t, "allocate") \/ Goto(t, "retry")
    BY DEF InsertFound, RecordDefault
<1>. QED
    BY <1>1, <1>2, <1>4, <1>5, Moves DEF perf, p

\* The workspace: the choice is run, or the default is going to be recorded.
LEMMA AllocateInv ==
    ASSUME ConvInv, NEW t \in Threads, Allocate(t) \/ FallBack(t)
    PROVE  ConvInv'
<1>1. /\ call[t] \in Convolutions /\ call[t] # NoCall /\ CallFits(call[t])
      /\ call[t].pc \in {"allocate", "retry"}
    BY UnderWay DEF ConvInv, Allocate, FallBack, At
<1>2. call[t].params \in Params /\ call[t].device \in Devices /\ Suits(call[t].perf, call[t].params)
    BY <1>1 DEF Convolutions, CallFits
<1>3. UNCHANGED cache
    BY DEF Allocate, FallBack
<1>4. CASE Allocate(t)
    <2>1. Goto(t, "run")
        BY <1>4 DEF Allocate
    <2>. QED
        BY <1>1, <1>2, <1>3, <2>1, MovesOnly
<1>5. CASE FallBack(t)
    <2>1. GoWith(t, "record", Perf(DefaultAlgo, call[t].device))
        BY <1>5 DEF FallBack
    <2>2. /\ Perf(DefaultAlgo, call[t].device) \in Perfs
          /\ Suits(Perf(DefaultAlgo, call[t].device), call[t].params)
          /\ Perf(DefaultAlgo, call[t].device).algo = DefaultAlgo
        BY <1>2, PerfSuits, AlgosAssumption
    <2>. QED
        BY <1>1, <1>3, <2>1, <2>2, Chooses
<1>. QED
    BY <1>4, <1>5

\* A call ends, with a result or an exception.
LEMMA EndInv ==
    ASSUME ConvInv, NEW t \in Threads, SearchThrows(t) \/ RetryThrows(t) \/ ConvRun(t)
    PROVE  ConvInv'
<1>1. call' = [call EXCEPT ![t] = NoCall] /\ UNCHANGED cache
    BY DEF SearchThrows, RetryThrows, ConvRun
<1>2. CallFits(NoCall)
    BY DEF CallFits
<1>. QED
    BY <1>1, <1>2, OneCallOnly

\* The inductive invariant of the convolutions holds in every behaviour.
THEOREM ConvInvariance == ConvSpec => []ConvInv
<1>1. ConvInv /\ [ConvNext]_<<vars, convVars>> => ConvInv'
    <2>. SUFFICES ASSUME ConvInv, [ConvNext]_<<vars, convVars>> PROVE ConvInv'
        OBVIOUS
    <2>1. ASSUME NEW t \in Threads, NEW d \in Devices, NEW shape \in Shapes,
                 NEW deterministic \in BOOLEAN, NEW benchmark \in BOOLEAN,
                 ConvStart(t, d, shape, deterministic, benchmark)
          PROVE  ConvInv'
        BY <2>1, ConvStartInv
    <2>2. ASSUME NEW t \in Threads, Find(t) \/ Recheck(t) PROVE ConvInv'
        BY <2>2, FindInv
    <2>3. ASSUME NEW t \in Threads, Search(t) \/ SearchFails(t) PROVE ConvInv'
        BY <2>3, SearchInv
    <2>4. ASSUME NEW t \in Threads, InsertFound(t) \/ RecordDefault(t) PROVE ConvInv'
        BY <2>4, RecordInv
    <2>5. ASSUME NEW t \in Threads, Allocate(t) \/ FallBack(t) PROVE ConvInv'
        BY <2>5, AllocateInv
    <2>6. ASSUME NEW t \in Threads, SearchThrows(t) \/ RetryThrows(t) \/ ConvRun(t)
          PROVE  ConvInv'
        BY <2>6, EndInv
    <2>7. ASSUME UNCHANGED convVars PROVE ConvInv'
        BY <2>7 DEF convVars, ConvInv, ConvTypeOK, CacheInv, CallFits
    <2>8. ASSUME NEW t \in Threads, ThreadExits(t) PROVE ConvInv'
        BY <2>7, <2>8 DEF ThreadExits
    <2>. QED
        BY <2>1, <2>2, <2>3, <2>4, <2>5, <2>6, <2>7, <2>8 DEF ConvNext
<1>. QED
    BY <1>1, ConvInitInv, PTL DEF ConvSpec

\* A convolution that has to be deterministic runs a deterministic algorithm,
\* in a workspace that is large enough on the device that recorded its size.
THEOREM ConvolutionsRunAsDemanded == ConvSpec => []RunsAsDemanded
<1>1. ConvInv => RunsAsDemanded
    <2>. SUFFICES ASSUME ConvInv, NEW t \in Threads, At(t, "run")
                  PROVE  /\ call[t].demands => call[t].perf.algo \in Deterministic
                         /\ call[t].perf.memory >= Need[<<call[t].perf.algo, call[t].perf.device>>]
        BY DEF RunsAsDemanded
    <2>1. call[t] # NoCall /\ CallFits(call[t]) /\ call[t].pc = "run"
        BY UnderWay DEF ConvInv, At
    <2>2. Suits(call[t].perf, call[t].params) /\ call[t].demands = call[t].params.deterministic
        BY <2>1 DEF CallFits
    <2>3. call[t].perf.memory \in Nat
        BY <2>2 DEF Suits, Perfs
    <2>. QED
        BY <2>2, <2>3 DEF Suits
<1>. QED
    BY <1>1, ConvInvariance, PTL

\* An entry of the cache is only replaced by the default algorithm, or by a
\* benchmark that began when there was none.
THEOREM CachedEntriesStay == ConvSpec => EntriesStay
<1>1. ASSUME ConvInv, [ConvNext]_<<vars, convVars>>, cache' # cache,
             NEW p \in Params, cache[p] # Missing, cache'[p] # cache[p]
      PROVE  \/ cache'[p].algo = DefaultAlgo
             \/ \E t \in Threads : At(t, "insert") /\ call[t].params = p /\ call[t].missed
    <2>1. PICK t \in Threads : InsertFound(t) \/ RecordDefault(t)
        BY <1>1 DEF ConvNext, convVars, ConvStart, Find, Recheck, Search, SearchFails,
                    SearchThrows, Allocate, FallBack, RetryThrows, ConvRun, ThreadExits
    <2>2. call[t] # NoCall /\ CallFits(call[t]) /\ call[t].pc \in {"insert", "record"}
        BY <1>1, <2>1, UnderWay DEF ConvInv, InsertFound, RecordDefault, At
    <2>3. call[t].params = p /\ cache'[p] = call[t].perf
        BY <1>1, <2>1 DEF InsertFound, RecordDefault, ConvInv, ConvTypeOK
    <2>4. CASE InsertFound(t)
        BY <2>2, <2>3, <2>4 DEF InsertFound, At, CallFits
    <2>5. CASE RecordDefault(t)
        BY <2>2, <2>3, <2>5 DEF RecordDefault, At, CallFits
    <2>. QED
        BY <2>1, <2>4, <2>5
<1>2. ConvInv /\ [ConvNext]_<<vars, convVars>> =>
          [\A p \in Params : cache[p] # Missing /\ cache'[p] # cache[p] =>
              \/ cache'[p].algo = DefaultAlgo
              \/ \E t \in Threads : At(t, "insert") /\ call[t].params = p /\ call[t].missed]_cache
    BY <1>1
<1>. QED
    BY <1>2, ConvInvariance, PTL DEF ConvSpec, EntriesStay

\* Convolutions use the pool as its threads may: whatever holds of the pool
\* holds under them.
THEOREM ConvolutionsKeepPool == ConvSpec => Spec
<1>1. ConvNext => [Next]_vars
    BY DEF ConvNext, Next, vars, ConvStart, Find, Recheck, Search, SearchFails, SearchThrows,
           InsertFound, Allocate, FallBack, RecordDefault, RetryThrows, ConvRun, ThreadExits
<1>2. UNCHANGED <<vars, convVars>> => UNCHANGED vars
    BY DEF vars
<1>. QED
    BY <1>1, <1>2, PTL DEF ConvSpec, Spec

-----------------------------------------------------------------------------
(***************************************************************************)
(* The plan cache of cuFFT.                                                *)
(***************************************************************************)

Transforms == [pc : {"lock", "emplace", "run", "own"}, device : Devices, key : Keys, cleared : BOOLEAN]

FftTypeOK ==
    /\ usage \in [Devices -> Seq(Keys)]
    /\ recent \in [Devices -> Seq(Keys)]
    /\ maxSize \in [Devices -> Nat]
    /\ mutex \in [Devices -> Threads \cup {Nobody}]
    /\ fft \in [Threads -> {NoTransform} \cup Transforms]

Distinct(s) == \A i, j \in 1..Len(s) : s[i] = s[j] => i = j

Begins(s, t) == Len(s) <= Len(t) /\ \A i \in 1..Len(s) : s[i] = t[i]

\* No key was used twice, the plans in the cache are those used last, and they
\* are not too many.
RecentInv ==
    \A d \in Devices :
        /\ Distinct(recent[d]) /\ Begins(usage[d], recent[d])
        /\ Len(usage[d]) <= maxSize[d]

\* Who makes or runs a plan holds the mutex.
HolderInv ==
    \A t \in Threads : fft[t].pc \in {"emplace", "run"} => mutex[fft[t].device] = t

\* The plan that runs is in the cache, or was cleared away.
RunsInv ==
    \A t \in Threads :
        fft[t].pc = "run" => fft[t].cleared \/ fft[t].key \in ToSet(usage[fft[t].device])

FInv == FftTypeOK /\ RecentInv /\ HolderInv /\ RunsInv

-----------------------------------------------------------------------------
\* Where a key goes that is moved to the front, and where the others stay.
LEMMA WithoutFacts ==
    ASSUME NEW S, NEW s \in Seq(S), NEW key \in S, Distinct(s)
    PROVE  /\ key \notin ToSet(s) => Without(s, key) = s
           /\ \A p \in 1..Len(s) : s[p] = key =>
                 /\ Without(s, key) \in Seq(S)
                 /\ Len(Without(s, key)) = Len(s) - 1
                 /\ \A j \in 1..Len(s) - 1 : Without(s, key)[j] = IF j < p THEN s[j] ELSE s[j + 1]
<1>1. key \notin ToSet(s) => Without(s, key) = s
    BY DEF Without
<1>2. ASSUME NEW p \in 1..Len(s), s[p] = key
      PROVE  /\ Without(s, key) \in Seq(S)
             /\ Len(Without(s, key)) = Len(s) - 1
             /\ \A j \in 1..Len(s) - 1 : Without(s, key)[j] = IF j < p THEN s[j] ELSE s[j + 1]
    <2>1. DOMAIN s = 1..Len(s) /\ key \in ToSet(s)
        BY <1>2 DEF ToSet
    <2>2. (CHOOSE i \in DOMAIN s : s[i] = key) = p
        BY <1>2, <2>1 DEF Distinct
    <2>3. Without(s, key) = RemoveAt(s, p)
        BY <2>1, <2>2 DEF Without
    <2>. QED
        BY <2>3, RemoveAtFacts
<1>. QED
    BY <1>1, <1>2

\* A key in front, followed by others that are distinct and are not it.
LEMMA InFront ==
    ASSUME NEW S, NEW s \in Seq(S), NEW key \in S
    PROVE  /\ <<key>> \o s \in Seq(S) /\ Len(<<key>> \o s) = Len(s) + 1
           /\ \A j \in 1..Len(s) + 1 : (<<key>> \o s)[j] = IF j = 1 THEN key ELSE s[j - 1]
<1>1. <<key>> \in Seq(S) /\ Len(<<key>>) = 1 /\ <<key>>[1] = key
    OBVIOUS
<1>2. /\ <<key>> \o s \in Seq(S) /\ Len(<<key>> \o s) = Len(s) + 1
      /\ \A j \in 1..Len(s) + 1 : (<<key>> \o s)[j] = IF j <= 1 THEN <<key>>[j] ELSE s[j - 1]
    BY <1>1, ConcatProperties
<1>. QED
    BY <1>1, <1>2

\* Moving a key to the front keeps the elements distinct and puts the key
\* first; the elements before it move back by one, those behind it stay.
LEMMA ToFrontFacts ==
    ASSUME NEW S, NEW s \in Seq(S), NEW key \in S, Distinct(s)
    PROVE  /\ ToFront(s, key) \in Seq(S) /\ Distinct(ToFront(s, key))
           /\ key \notin ToSet(s) =>
                 /\ Len(ToFront(s, key)) = Len(s) + 1
                 /\ \A j \in 1..Len(s) + 1 :
                       ToFront(s, key)[j] = IF j = 1 THEN key ELSE s[j - 1]
           /\ \A p \in 1..Len(s) : s[p] = key =>
                 /\ Len(ToFront(s, key)) = Len(s)
                 /\ \A j \in 1..Len(s) :
                       ToFront(s, key)[j] = IF j = 1 THEN key ELSE IF j <= p THEN s[j - 1] ELSE s[j]
<1>. DEFINE w == Without(s, key)
            f == ToFront(s, key)
<1>1. DOMAIN s = 1..Len(s)
    OBVIOUS
<1>2. CASE key \notin ToSet(s)
    <2>1. w = s /\ \A p \in 1..Len(s) : s[p] # key
        BY <1>1, <1>2, WithoutFacts DEF ToSet
    <2>2. /\ f \in Seq(S) /\ Len(f) = Len(s) + 1
          /\ \A j \in 1..Len(s) + 1 : f[j] = IF j = 1 THEN key ELSE s[j - 1]
        BY <2>1, InFront DEF ToFront
    <2>. HIDE DEF f
    <2>3. Distinct(f)
        <3>1. \A j \in 2..Len(f) : j - 1 \in 1..Len(s) /\ f[j] = s[j - 1] /\ f[j] # key
            BY <2>1, <2>2
        <3>2. f[1] = key
            BY <2>2
        <3>3. ASSUME NEW i \in 2..Len(f), NEW j \in 2..Len(f), f[i] = f[j]
              PROVE  i = j
            <4>1. s[i - 1] = s[j - 1]
                BY <3>1, <3>3
            <4>2. i - 1 = j - 1
                BY <3>1, <4>1 DEF Distinct
            <4>. QED
                BY <2>2, <4>2
        <3>. QED
            BY <2>2, <3>1, <3>2, <3>3 DEF Distinct
    <2>. QED
        BY <1>2, <2>1, <2>2, <2>3 DEF f
<1>3. CASE key \in ToSet(s)
    <2>1. PICK p \in 1..Len(s) : s[p] = key
        BY <1>1, <1>3 DEF ToSet
    <2>2. \A q \in 1..Len(s) : s[q] = key => q = p
        BY <2>1 DEF Distinct
    <2>3. /\ w \in Seq(S) /\ Len(w) = Len(s) - 1
          /\ \A j \in 1..Len(s) - 1 : w[j] = IF j < p THEN s[j] ELSE s[j + 1]
        BY <2>1, WithoutFacts
    <2>4. f = <<key>> \o w
        BY DEF ToFront
    <2>. HIDE DEF w, f
    <2>5. /\ f \in Seq(S) /\ Len(f) = Len(s)
          /\ \A j \in 1..Len(s) : f[j] = IF j = 1 THEN key ELSE w[j - 1]
        BY <2>3, <2>4, InFront
    <2>6. \A j \in 1..Len(s) : f[j] = IF j = 1 THEN key ELSE IF j <= p THEN s[j - 1] ELSE s[j]
        BY <2>3, <2>5
    <2>7. Distinct(f)
        <3>1. \A j \in 2..Len(s) : \E k \in 1..Len(s) \ {p} : f[j] = s[k] /\ (IF j <= p THEN k = j - 1 ELSE k = j)
            BY <2>6
        <3>2. \A j \in 2..Len(s) : f[j] # key
            BY <2>2, <3>1
        <3>3. ASSUME NEW i \in 2..Len(s), NEW j \in 2..Len(s), f[i] = f[j]
              PROVE  i = j
            <4>1. \A k, m \in 1..Len(s) : s[k] = s[m] => k = m
                BY DEF Distinct
            <4>2. PICK k \in 1..Len(s) \ {p} : f[i] = s[k] /\ (IF i <= p THEN k = i - 1 ELSE k = i)
                BY <3>1
            <4>3. PICK m \in 1..Len(s) \ {p} : f[j] = s[m] /\ (IF j <= p THEN m = j - 1 ELSE m = j)
                BY <3>1
            <4>4. k = m
                BY <3>3, <4>1, <4>2, <4>3
            <4>. QED
                BY <4>2, <4>3, <4>4
        <3>4. Len(f) = Len(s) /\ \A i \in 1..Len(s) : i = 1 \/ i \in 2..Len(s)
            BY <2>5
        <3>5. f[1] = key
            BY <2>1, <2>5
        <3>. QED
            BY <3>2, <3>3, <3>4, <3>5 DEF Distinct
    <2>. QED
        BY <1>3, <2>2, <2>5, <2>6, <2>7 DEF f
<1>. QED
    BY <1>2, <1>3

\* What try_emplace_value leaves: the keys used last, no more than the maximum,
\* the one that was asked for among them.
LEMMA TryEmplaceFacts ==
    ASSUME NEW s \in Seq(Keys), NEW r \in Seq(Keys), NEW key \in Keys, NEW size \in Nat \ {0},
           Distinct(r), Begins(s, r), Len(s) <= size
    PROVE  /\ TryEmplace(s, key, size) \in Seq(Keys)
           /\ ToFront(r, key) \in Seq(Keys)
           /\ Distinct(ToFront(r, key))
           /\ Begins(TryEmplace(s, key, size), ToFront(r, key))
           /\ Len(TryEmplace(s, key, size)) <= size
           /\ key \in ToSet(TryEmplace(s, key, size))
<1>. DEFINE f == ToFront(r, key)
<1>1. /\ DOMAIN s = 1..Len(s) /\ DOMAIN r = 1..Len(r)
      /\ Len(s) \in Nat /\ Len(r) \in Nat /\ Len(s) <= Len(r)
      /\ \A i \in 1..Len(s) : i \in 1..Len(r) /\ s[i] = r[i]
    BY DEF Begins
<1>2. Distinct(s)
    BY <1>1 DEF Distinct
<1>3. /\ f \in Seq(Keys) /\ Distinct(f)
      /\ key \notin ToSet(r) =>
            /\ Len(f) = Len(r) + 1
            /\ \A j \in 1..Len(r) + 1 : f[j] = IF j = 1 THEN key ELSE r[j - 1]
      /\ \A p \in 1..Len(r) : r[p] = key =>
            /\ Len(f) = Len(r)
            /\ \A j \in 1..Len(r) : f[j] = IF j = 1 THEN key ELSE IF j <= p THEN r[j - 1] ELSE r[j]
    BY ToFrontFacts
<1>. HIDE DEF f
<1>4. CASE key \in ToSet(s)
    <2>. DEFINE e == ToFront(s, key)
    <2>1. PICK p \in 1..Len(s) : s[p] = key
        BY <1>1, <1>4 DEF ToSet
    <2>10. /\ e \in Seq(Keys)
          /\ \A q \in 1..Len(s) : s[q] = key =>
                /\ Len(e) = Len(s)
                /\ \A j \in 1..Len(s) : e[j] = IF j = 1 THEN key ELSE IF j <= q THEN s[j - 1] ELSE s[j]
        BY <1>2, ToFrontFacts
    <2>3. TryEmplace(s, key, size) = e
        BY <1>4 DEF TryEmplace
    <2>. HIDE DEF e
    <2>2. /\ e \in Seq(Keys) /\ Len(e) = Len(s)
          /\ \A j \in 1..Len(s) : e[j] = IF j = 1 THEN key ELSE IF j <= p THEN s[j - 1] ELSE s[j]
        BY <2>1, <2>10
    <2>4. p \in 1..Len(r) /\ r[p] = key
        BY <1>1, <2>1
    <2>6. /\ Len(f) = Len(r)
          /\ \A j \in 1..Len(r) : f[j] = IF j = 1 THEN key ELSE IF j <= p THEN r[j - 1] ELSE r[j]
        BY <1>3, <2>4
    <2>5. \A j \in 1..Len(s) : e[j] = f[j]
        <3>. SUFFICES ASSUME NEW j \in 1..Len(s) PROVE e[j] = f[j]
            OBVIOUS
        <3>1. j \in 1..Len(r) /\ s[j] = r[j]
            BY <1>1
        <3>2. CASE j = 1
            BY <2>2, <2>6, <3>1, <3>2
        <3>3. CASE j # 1
            <4>1. j - 1 \in 1..Len(s)
                BY <1>1, <3>3
            <4>2. s[j - 1] = r[j - 1]
                BY <1>1, <4>1
            <4>. QED
                BY <2>2, <2>6, <3>1, <3>3, <4>2
        <3>. QED
            BY <3>2, <3>3
    <2>7. Begins(e, f)
        BY <1>1, <2>2, <2>5, <2>6 DEF Begins
    <2>8. e[1] = key /\ 1 \in DOMAIN e
        BY <2>1, <2>2
    <2>9. key \in ToSet(e)
        BY <2>8 DEF ToSet
    <2>. QED
        BY <1>3, <2>2, <2>3, <2>7, <2>9 DEF f
<1>5. CASE key \notin ToSet(s)
    <2>. DEFINE b == IF Len(s) >= size THEN Front(s) ELSE s
                e == <<key>> \o b
    <2>1. \A i \in 1..Len(s) : s[i] # key
        BY <1>1, <1>5 DEF ToSet
    <2>. HIDE DEF e
    <2>2. /\ b \in Seq(Keys) /\ Len(b) <= Len(s) /\ Len(b) + 1 <= size
          /\ \A i \in 1..Len(b) : b[i] = s[i]
        <3>. size \in Nat /\ 1 <= size
            OBVIOUS
        <3>1. CASE Len(s) >= size
            <4>1. b = SubSeq(s, 1, Len(s) - 1)
                BY <3>1 DEF Front
            <4>2. Len(s) = size
                <5>. HIDE DEF b
                <5>1. Len(s) \in Nat /\ size \in Nat /\ Len(s) <= size /\ Len(s) >= size
                    BY <1>1, <3>1
                <5>. QED
                    BY <5>1
            <4>. QED
                BY <1>1, <4>1, <4>2
        <3>2. CASE ~(Len(s) >= size)
            BY <1>1, <3>2
        <3>. QED
            BY <3>1, <3>2
    <2>3. TryEmplace(s, key, size) = e
        BY <1>5 DEF TryEmplace, e
    <2>. HIDE DEF b
    <2>4. /\ e \in Seq(Keys) /\ Len(e) = Len(b) + 1
          /\ \A j \in 1..Len(b) + 1 : e[j] = IF j = 1 THEN key ELSE b[j - 1]
        BY <2>2, InFront DEF e
    <2>5. Begins(e, f)
        <3>. Len(b) \in Nat /\ Len(e) = Len(b) + 1
            BY <2>2, <2>4
        <3>1. ASSUME NEW j \in 1..Len(e)
              PROVE  e[j] = IF j = 1 THEN key ELSE r[j - 1]
            <4>1. CASE j = 1
                BY <2>4, <4>1
            <4>2. CASE j # 1
                <5>1. j - 1 \in 1..Len(b) /\ j - 1 \in 1..Len(s)
                    BY <1>1, <2>2, <4>2
                <5>2. b[j - 1] = s[j - 1] /\ s[j - 1] = r[j - 1]
                    BY <1>1, <2>2, <5>1
                <5>. QED
                    BY <2>4, <4>2, <5>2
            <4>. QED
                BY <4>1, <4>2
        <3>2. CASE key \notin ToSet(r)
            <4>1. /\ Len(f) = Len(r) + 1
                  /\ \A j \in 1..Len(r) + 1 : f[j] = IF j = 1 THEN key ELSE r[j - 1]
                BY <1>3, <3>2
            <4>. QED
                BY <1>1, <2>2, <3>1, <4>1 DEF Begins
        <3>3. CASE key \in ToSet(r)
            <4>1. PICK p \in 1..Len(r) : r[p] = key
                BY <1>1, <3>3 DEF ToSet
            <4>2. p > Len(s)
                BY <1>1, <2>1, <4>1
            <4>3. /\ Len(f) = Len(r)
                  /\ \A j \in 1..Len(r) : f[j] = IF j = 1 THEN key ELSE IF j <= p THEN r[j - 1] ELSE r[j]
                BY <1>3, <4>1
            <4>. QED
                BY <1>1, <2>2, <3>1, <4>2, <4>3 DEF Begins
        <3>. QED
            BY <3>2, <3>3
    <2>6. 1 \in DOMAIN e /\ e[1] = key
        BY <2>2, <2>4
    <2>7. key \in ToSet(e)
        BY <2>6 DEF ToSet
    <2>. QED
        BY <1>3, <2>2, <2>3, <2>4, <2>5, <2>7 DEF f
<1>. QED
    BY <1>4, <1>5

\* A list that is cut at the end, and what may still run.
LEMMA CutFacts ==
    ASSUME NEW s \in Seq(Keys), NEW r \in Seq(Keys), Begins(s, r),
           NEW n \in Nat, n <= Len(s)
    PROVE  /\ SubSeq(s, 1, n) \in Seq(Keys) /\ Len(SubSeq(s, 1, n)) = n
           /\ Begins(SubSeq(s, 1, n), r)
    BY DEF Begins

-----------------------------------------------------------------------------
\* Steps that leave the lists and the maxima alone: only who holds what has to
\* be looked at.
LEMMA InvInit == FftInit => FInv
<1>. SUFFICES ASSUME FftInit PROVE FInv
    OBVIOUS
<1>1. /\ \A d \in Devices : usage[d] = <<>> /\ recent[d] = <<>> /\ maxSize[d] = DefaultSize
      /\ \A t \in Threads : fft[t] = NoTransform
    BY DEF FftInit
<1>2. FftTypeOK
    BY SizesAssumption DEF FftInit, FftTypeOK
<1>3. RecentInv
    BY <1>1, SizesAssumption DEF RecentInv, Distinct, Begins
<1>4. HolderInv /\ RunsInv
    BY <1>1 DEF HolderInv, RunsInv, NoTransform
<1>. QED
    BY <1>2, <1>3, <1>4 DEF FInv

LEMMA StepStart ==
    ASSUME FInv, NEW t \in Threads, NEW d \in FftDevices, NEW key \in Keys, FftStart(t, d, key)
    PROVE  FInv'
<1>. USE SizesAssumption DEF FInv, FftStart
<1>1. FftTypeOK'
    BY DEF FftTypeOK, Transforms
<1>2. RecentInv'
    BY DEF RecentInv
<1>3. \A u \in Threads : fft'[u].pc \in {"emplace", "run"} => fft'[u] = fft[u]
    BY DEF FftTypeOK
<1>4. HolderInv' /\ RunsInv'
    BY <1>3 DEF HolderInv, RunsInv
<1>. QED
    BY <1>1, <1>2, <1>4

LEMMA StepLock ==
    ASSUME FInv, NEW t \in Threads, FftLock(t)
    PROVE  FInv'
<1>. USE DEF FInv
<1>. DEFINE d == fft[t].device
<1>1. fft[t] \in Transforms /\ d \in Devices /\ fft[t].pc = "lock" /\ mutex[d] = Nobody
    BY DEF FftLock, FftAt, FftTypeOK, NoTransform, Transforms
<1>2. CASE maxSize[d] > 0
    <2>1. /\ mutex' = [mutex EXCEPT ![d] = t] /\ fft' = [fft EXCEPT ![t].pc = "emplace"]
          /\ UNCHANGED <<usage, maxSize, recent>>
        BY <1>2 DEF FftLock, FftGoto
    <2>2. FftTypeOK'
        BY <1>1, <2>1 DEF FftTypeOK, Transforms
    <2>3. RecentInv'
        BY <2>1 DEF RecentInv
    <2>4. HolderInv'
        <3>. SUFFICES ASSUME NEW u \in Threads, fft'[u].pc \in {"emplace", "run"}
                      PROVE  mutex'[fft'[u].device] = u
            BY DEF HolderInv
        <3>1. CASE u = t
            <4>1. fft'[t].device = d
                BY <1>1, <2>1 DEF FftTypeOK, Transforms
            <4>. QED
                BY <1>1, <2>1, <3>1, <4>1 DEF FftTypeOK
        <3>2. CASE u # t
            <4>1. fft'[u] = fft[u] /\ mutex[fft[u].device] = u /\ u # Nobody
                BY <2>1, <3>2, SizesAssumption DEF HolderInv, FftTypeOK
            <4>. QED
                BY <1>1, <2>1, <4>1 DEF FftTypeOK
        <3>. QED
            BY <3>1, <3>2
    <2>5. RunsInv'
        BY <1>1, <2>1 DEF RunsInv, FftTypeOK, Transforms
    <2>. QED
        BY <2>2, <2>3, <2>4, <2>5
<1>3. CASE ~(maxSize[d] > 0)
    <2>1. fft' = [fft EXCEPT ![t].pc = "own"] /\ UNCHANGED <<mutex, usage, maxSize, recent>>
        BY <1>3 DEF FftLock, FftGoto
    <2>2. FftTypeOK'
        BY <1>1, <2>1 DEF FftTypeOK, Transforms
    <2>3. RecentInv'
        BY <2>1 DEF RecentInv
    <2>4. \A u \in Threads : fft'[u].pc \in {"emplace", "run"} => fft'[u] = fft[u]
        BY <1>1, <2>1 DEF FftTypeOK, Transforms
    <2>5. HolderInv' /\ RunsInv'
        BY <2>1, <2>4 DEF HolderInv, RunsInv
    <2>. QED
        BY <2>2, <2>3, <2>5
<1>. QED
    BY <1>2, <1>3

\* The holder of the mutex alone changes the list of a device, or ends there:
\* what the others run is elsewhere.
LEMMA OthersElsewhere ==
    ASSUME FInv, NEW t \in Threads, fft[t].pc \in {"emplace", "run"}
    PROVE  /\ fft[t] \in Transforms /\ fft[t].device \in Devices
           /\ \A u \in Threads \ {t} :
                 fft[u].pc \in {"emplace", "run"} => fft[u].device # fft[t].device /\ fft[u].device \in Devices
<1>1. \A u \in Threads : fft[u].pc \in {"emplace", "run"} => fft[u] \in Transforms
    BY DEF FInv, FftTypeOK, NoTransform
<1>. QED
    BY <1>1 DEF FInv, HolderInv, Transforms

LEMMA StepEmplace ==
    ASSUME FInv, NEW t \in Threads, FftEmplace(t)
    PROVE  FInv'
<1>. USE DEF FInv
<1>. DEFINE d == fft[t].device
            key == fft[t].key
            e == TryEmplace(usage[d], key, maxSize[d])
            f == ToFront(recent[d], key)
<1>1. fft[t].pc = "emplace" /\ maxSize[d] > 0
    BY DEF FftEmplace, FftAt
<1>2. /\ fft[t] \in Transforms /\ d \in Devices /\ key \in Keys
      /\ \A u \in Threads \ {t} :
            fft[u].pc \in {"emplace", "run"} => fft[u].device # d /\ fft[u].device \in Devices
    BY <1>1, OthersElsewhere DEF Transforms
<1>3. /\ usage' = [usage EXCEPT ![d] = e] /\ recent' = [recent EXCEPT ![d] = f]
      /\ fft' = [fft EXCEPT ![t].pc = "run"] /\ UNCHANGED <<maxSize, mutex>>
    BY DEF FftEmplace, FftGoto
<1>4. /\ usage[d] \in Seq(Keys) /\ recent[d] \in Seq(Keys) /\ maxSize[d] \in Nat \ {0}
      /\ Distinct(recent[d]) /\ Begins(usage[d], recent[d]) /\ Len(usage[d]) <= maxSize[d]
    BY <1>1, <1>2 DEF FftTypeOK, RecentInv
<1>5. /\ e \in Seq(Keys) /\ f \in Seq(Keys) /\ Distinct(f) /\ Begins(e, f)
      /\ Len(e) <= maxSize[d] /\ key \in ToSet(e)
    BY <1>2, <1>4, TryEmplaceFacts
<1>. HIDE DEF e, f
<1>6. FftTypeOK'
    BY <1>2, <1>3, <1>5 DEF FftTypeOK, Transforms
<1>7. RecentInv'
    <2>. SUFFICES ASSUME NEW c \in Devices
                  PROVE  /\ Distinct(recent'[c]) /\ Begins(usage'[c], recent'[c])
                         /\ Len(usage'[c]) <= maxSize'[c]
        BY DEF RecentInv
    <2>1. CASE c = d
        BY <1>2, <1>3, <1>5, <2>1 DEF FftTypeOK
    <2>2. CASE c # d
        BY <1>3, <2>2 DEF FftTypeOK, RecentInv
    <2>. QED
        BY <2>1, <2>2
<1>8. /\ fft'[t].pc = "run" /\ fft'[t].device = d /\ fft'[t].key = key
      /\ \A u \in Threads \ {t} : fft'[u] = fft[u]
    BY <1>2, <1>3 DEF FftTypeOK, Transforms
<1>9. HolderInv'
    BY <1>1, <1>3, <1>8 DEF HolderInv
<1>10. RunsInv'
    BY <1>2, <1>3, <1>5, <1>8 DEF RunsInv, FftTypeOK
<1>. QED
    BY <1>6, <1>7, <1>9, <1>10

LEMMA StepEmplaceThrows ==
    ASSUME FInv, NEW t \in Threads, FftEmplaceThrows(t)
    PROVE  FInv'
<1>. USE DEF FInv
<1>. DEFINE d == fft[t].device
            full == Len(usage[d]) >= maxSize[d] /\ maxSize[d] > 0
            e == IF full THEN Front(usage[d]) ELSE usage[d]
<1>1. fft[t].pc = "emplace"
    BY DEF FftEmplaceThrows, FftAt
<1>2. /\ fft[t] \in Transforms /\ d \in Devices
      /\ \A u \in Threads \ {t} :
            fft[u].pc \in {"emplace", "run"} => fft[u].device # d /\ fft[u].device \in Devices
    BY <1>1, OthersElsewhere
<1>3. /\ usage[d] \in Seq(Keys) /\ recent[d] \in Seq(Keys) /\ maxSize[d] \in Nat
      /\ Distinct(recent[d]) /\ Begins(usage[d], recent[d]) /\ Len(usage[d]) <= maxSize[d]
    BY <1>2 DEF FftTypeOK, RecentInv
<1>4. /\ usage' = [usage EXCEPT ![d] = e] /\ mutex' = [mutex EXCEPT ![d] = Nobody]
      /\ fft' = [fft EXCEPT ![t] = NoTransform] /\ UNCHANGED <<maxSize, recent>>
    BY <1>2 DEF FftEmplaceThrows, FftEnd, FftTypeOK
<1>5. e \in Seq(Keys) /\ Begins(e, recent[d]) /\ Len(e) <= maxSize[d]
    <2>1. CASE full
        <3>1. e = SubSeq(usage[d], 1, Len(usage[d]) - 1)
            BY <2>1 DEF Front
        <3>2. Len(usage[d]) - 1 \in Nat
            BY <1>3, <2>1
        <3>3. /\ SubSeq(usage[d], 1, Len(usage[d]) - 1) \in Seq(Keys)
              /\ Len(SubSeq(usage[d], 1, Len(usage[d]) - 1)) = Len(usage[d]) - 1
              /\ Begins(SubSeq(usage[d], 1, Len(usage[d]) - 1), recent[d])
            <4>. DEFINE n == Len(usage[d]) - 1
            <4>1. n \in Nat /\ n <= Len(usage[d])
                BY <1>3, <3>2
            <4>. HIDE DEF n
            <4>2. /\ SubSeq(usage[d], 1, n) \in Seq(Keys) /\ Len(SubSeq(usage[d], 1, n)) = n
                  /\ Begins(SubSeq(usage[d], 1, n), recent[d])
                BY <1>3, <4>1, CutFacts
            <4>. QED
                BY <4>2 DEF n
        <3>. HIDE DEF e
        <3>. QED
            BY <1>3, <3>1, <3>2, <3>3
    <2>2. CASE ~full
        BY <1>3, <2>2
    <2>. QED
        BY <2>1, <2>2
<1>. HIDE DEF e
<1>6. FftTypeOK'
    BY <1>2, <1>4, <1>5 DEF FftTypeOK
<1>7. RecentInv'
    <2>. SUFFICES ASSUME NEW c \in Devices
                  PROVE  /\ Distinct(recent'[c]) /\ Begins(usage'[c], recent'[c])
                         /\ Len(usage'[c]) <= maxSize'[c]
        BY DEF RecentInv
    <2>1. CASE c = d
        BY <1>2, <1>3, <1>4, <1>5, <2>1 DEF FftTypeOK
    <2>2. CASE c # d
        BY <1>4, <2>2 DEF FftTypeOK, RecentInv
    <2>. QED
        BY <2>1, <2>2
<1>8. /\ fft'[t].pc = "idle" /\ \A u \in Threads \ {t} : fft'[u] = fft[u]
    BY <1>4 DEF FftTypeOK, NoTransform
<1>9. HolderInv' /\ RunsInv'
    BY <1>2, <1>4, <1>8 DEF HolderInv, RunsInv, FftTypeOK
<1>. QED
    BY <1>6, <1>7, <1>9

LEMMA StepRun ==
    ASSUME FInv, NEW t \in Threads, FftRun(t)
    PROVE  FInv'
<1>. USE DEF FInv
<1>1. fft[t].pc = "run"
    BY DEF FftRun, FftAt
<1>2. /\ fft[t] \in Transforms /\ fft[t].device \in Devices
      /\ \A u \in Threads \ {t} :
            fft[u].pc \in {"emplace", "run"} => fft[u].device # fft[t].device /\ fft[u].device \in Devices
    BY <1>1, OthersElsewhere
<1>3. /\ mutex' = [mutex EXCEPT ![fft[t].device] = Nobody] /\ fft' = [fft EXCEPT ![t] = NoTransform]
      /\ UNCHANGED <<usage, maxSize, recent>>
    BY DEF FftRun, FftEnd
<1>4. FftTypeOK' /\ RecentInv'
    BY <1>2, <1>3 DEF FftTypeOK, RecentInv
<1>5. /\ fft'[t].pc = "idle" /\ \A u \in Threads \ {t} : fft'[u] = fft[u]
    BY <1>3 DEF FftTypeOK, NoTransform
<1>6. HolderInv' /\ RunsInv'
    BY <1>2, <1>3, <1>5 DEF HolderInv, RunsInv, FftTypeOK
<1>. QED
    BY <1>4, <1>6

LEMMA StepRunOwn ==
    ASSUME FInv, NEW t \in Threads, FftRunOwn(t)
    PROVE  FInv'
<1>. USE DEF FInv
<1>1. fft' = [fft EXCEPT ![t] = NoTransform] /\ UNCHANGED <<usage, maxSize, mutex, recent>>
    BY DEF FftRunOwn, FftEnd
<1>2. FftTypeOK' /\ RecentInv'
    BY <1>1 DEF FftTypeOK, RecentInv
<1>3. /\ fft'[t].pc = "idle" /\ \A u \in Threads \ {t} : fft'[u] = fft[u]
    BY <1>1 DEF FftTypeOK, NoTransform
<1>4. HolderInv' /\ RunsInv'
    BY <1>1, <1>3 DEF HolderInv, RunsInv
<1>. QED
    BY <1>2, <1>4

\* The calls without the mutex destroy plans under the thread that runs them,
\* and mark them.
LEMMA DestroyFacts ==
    ASSUME FInv, NEW d \in Devices, NEW kept \in Seq(Keys), Destroy(d, kept),
           usage' = [usage EXCEPT ![d] = kept], UNCHANGED mutex
    PROVE  fft' \in [Threads -> {NoTransform} \cup Transforms] /\ HolderInv' /\ RunsInv'
<1>. USE DEF FInv
<1>1. ASSUME NEW u \in Threads
      PROVE  /\ fft'[u] \in {NoTransform} \cup Transforms
             /\ fft'[u].pc = fft[u].pc
             /\ fft[u].pc \in {"emplace", "run"} => fft'[u].device = fft[u].device
             /\ fft'[u].pc = "run" => fft'[u].cleared \/ fft'[u].key \in ToSet(usage'[fft'[u].device])
    <2>. DEFINE hit == FftAt(u, "run") /\ fft[u].device = d /\ fft[u].key \notin ToSet(kept)
    <2>1. CASE hit
        <3>1. fft'[u] = [fft[u] EXCEPT !.cleared = TRUE] /\ fft[u] \in Transforms
            BY <2>1 DEF Destroy, FftAt, FftTypeOK, NoTransform
        <3>. QED
            BY <3>1 DEF Transforms
    <2>2. CASE ~hit
        <3>1. fft'[u] = fft[u] /\ fft[u] \in {NoTransform} \cup Transforms
            BY <2>2 DEF Destroy, FftTypeOK
        <3>2. ASSUME fft[u].pc = "run"
              PROVE  fft[u].cleared \/ fft[u].key \in ToSet(usage'[fft[u].device])
            <4>1. fft[u].device \in Devices
                BY <3>1, <3>2 DEF NoTransform, Transforms
            <4>2. CASE fft[u].device = d
                BY <2>2, <3>2, <4>2 DEF FftAt, FftTypeOK
            <4>3. CASE fft[u].device # d
                BY <3>2, <4>1, <4>3 DEF FftTypeOK, RunsInv
            <4>. QED
                BY <4>2, <4>3
        <3>. QED
            BY <3>1, <3>2
    <2>. QED
        BY <2>1, <2>2
<1>2. DOMAIN fft' = Threads /\ fft' = [u \in Threads |-> fft'[u]]
    BY DEF Destroy
<1>3. fft' \in [Threads -> {NoTransform} \cup Transforms]
    BY <1>1, <1>2
<1>4. HolderInv' /\ RunsInv'
    BY <1>1 DEF HolderInv, RunsInv
<1>. QED
    BY <1>3, <1>4

LEMMA StepClear ==
    ASSUME FInv, NEW d \in FftDevices, FftClear(d)
    PROVE  FInv'
<1>. USE SizesAssumption DEF FInv
<1>1. /\ d \in Devices /\ <<>> \in Seq(Keys) /\ Destroy(d, <<>>)
      /\ usage' = [usage EXCEPT ![d] = <<>>] /\ recent' = [recent EXCEPT ![d] = <<>>]
      /\ UNCHANGED <<maxSize, mutex>>
    BY DEF FftClear
<1>2. fft' \in [Threads -> {NoTransform} \cup Transforms] /\ HolderInv' /\ RunsInv'
    BY <1>1, DestroyFacts
<1>3. FftTypeOK'
    BY <1>1, <1>2 DEF FftTypeOK
<1>4. RecentInv'
    <2>. SUFFICES ASSUME NEW c \in Devices
                  PROVE  /\ Distinct(recent'[c]) /\ Begins(usage'[c], recent'[c])
                         /\ Len(usage'[c]) <= maxSize'[c]
        BY DEF RecentInv
    <2>1. CASE c = d
        BY <1>1, <2>1 DEF FftTypeOK, Distinct, Begins
    <2>2. CASE c # d
        BY <1>1, <2>2 DEF FftTypeOK, RecentInv
    <2>. QED
        BY <2>1, <2>2
<1>. QED
    BY <1>2, <1>3, <1>4

LEMMA StepResize ==
    ASSUME FInv, NEW d \in FftDevices, NEW size \in MaxSizes, FftResize(d, size)
    PROVE  FInv'
<1>. USE SizesAssumption DEF FInv
<1>. DEFINE n == IF Len(usage[d]) > size THEN size ELSE Len(usage[d])
            kept == SubSeq(usage[d], 1, n)
<1>1. /\ d \in Devices /\ Destroy(d, kept) /\ maxSize' = [maxSize EXCEPT ![d] = size]
      /\ usage' = [usage EXCEPT ![d] = kept] /\ UNCHANGED <<mutex, recent>>
    BY DEF FftResize
<1>2. size \in Nat /\ usage[d] \in Seq(Keys) /\ recent[d] \in Seq(Keys) /\ Begins(usage[d], recent[d])
    BY <1>1 DEF FftTypeOK, RecentInv
<1>3. n \in Nat /\ n <= Len(usage[d]) /\ n <= size
    BY <1>2
<1>4. kept \in Seq(Keys) /\ Len(kept) <= size /\ Begins(kept, recent[d])
    BY <1>2, <1>3, CutFacts
<1>. HIDE DEF n, kept
<1>5. fft' \in [Threads -> {NoTransform} \cup Transforms] /\ HolderInv' /\ RunsInv'
    BY <1>1, <1>4, DestroyFacts
<1>6. FftTypeOK'
    BY <1>1, <1>2, <1>4, <1>5 DEF FftTypeOK
<1>7. RecentInv'
    <2>. SUFFICES ASSUME NEW c \in Devices
                  PROVE  /\ Distinct(recent'[c]) /\ Begins(usage'[c], recent'[c])
                         /\ Len(usage'[c]) <= maxSize'[c]
        BY DEF RecentInv
    <2>1. CASE c = d
        BY <1>1, <1>4, <2>1 DEF FftTypeOK, RecentInv
    <2>2. CASE c # d
        BY <1>1, <2>2 DEF FftTypeOK, RecentInv
    <2>. QED
        BY <2>1, <2>2
<1>. QED
    BY <1>5, <1>6, <1>7

-----------------------------------------------------------------------------
\* FInv is an invariant of the caches: the lists, the maxima and the mutexes
\* stay consistent whatever calls are made with and without the mutex.
THEOREM FftInvariance == FftSpec => []FInv
<1>1. FInv /\ [FftNext]_fftVars => FInv'
    <2>. SUFFICES ASSUME FInv, [FftNext]_fftVars PROVE FInv'
        OBVIOUS
    <2>1. CASE UNCHANGED fftVars
        BY <2>1 DEF fftVars, FInv, FftTypeOK, RecentInv, HolderInv, RunsInv
    <2>2. CASE FftNext
        <3>1. ASSUME NEW t \in Threads, NEW d \in FftDevices, NEW key \in Keys, FftStart(t, d, key)
              PROVE  FInv'
            BY <3>1, StepStart
        <3>2. ASSUME NEW t \in Threads,
                     FftLock(t) \/ FftEmplace(t) \/ FftEmplaceThrows(t) \/ FftRun(t) \/ FftRunOwn(t)
              PROVE  FInv'
            BY <3>2, StepLock, StepEmplace, StepEmplaceThrows, StepRun, StepRunOwn
        <3>3. ASSUME NEW d \in FftDevices, FftClear(d)
              PROVE  FInv'
            BY <3>3, StepClear
        <3>4. ASSUME NEW d \in FftDevices, NEW size \in MaxSizes, FftResize(d, size)
              PROVE  FInv'
            BY <3>4, StepResize
        <3>. QED
            BY <2>2, <3>1, <3>2, <3>3, <3>4 DEF FftNext
    <2>. QED
        BY <2>1, <2>2
<1>. QED
    BY <1>1, InvInit, PTL DEF FftSpec

\* try_emplace_value, clear and resize keep the plans that were used most
\* recently and no more than max_size of them, for any sequence of sizes, of
\* failures and of calls without the mutex.
THEOREM MostRecentPlans == FftSpec => []CacheIsRecent
<1>1. FInv => CacheIsRecent
    <2>. SUFFICES ASSUME FInv, NEW d \in Devices
                  PROVE  IsPrefix(usage[d], recent[d]) /\ Len(usage[d]) <= maxSize[d]
        BY DEF CacheIsRecent
    <2>1. /\ usage[d] \in Seq(Keys) /\ recent[d] \in Seq(Keys)
          /\ Begins(usage[d], recent[d]) /\ Len(usage[d]) <= maxSize[d]
        BY DEF FInv, FftTypeOK, RecentInv
    <2>2. usage[d] = SubSeq(recent[d], 1, Len(usage[d]))
        BY <2>1 DEF Begins
    <2>3. usage[d] = SubSeq(usage[d], 1, Len(usage[d]))
        BY <2>1
    <2>. QED
        BY <2>1, <2>2, <2>3 DEF IsPrefix, Begins
<1>. QED
    BY <1>1, FftInvariance, PTL

\* A thread that runs a plan is the only one that runs a plan of that cache,
\* and its plan is in the cache unless a call without the mutex destroyed it.
THEOREM PlanIsAlive == FftSpec => []PlanAlive
<1>1. FInv => PlanAlive
    <2>. SUFFICES ASSUME FInv, NEW t \in Threads, fft[t].pc = "run"
                  PROVE  /\ fft[t].cleared \/ fft[t].key \in ToSet(usage[fft[t].device])
                         /\ \A u \in Threads \ {t} :
                               ~(fft[u].pc = "run" /\ fft[u].device = fft[t].device)
        BY DEF PlanAlive, FftAt
    <2>. QED
        BY OthersElsewhere DEF FInv, RunsInv
<1>. QED
    BY <1>1, FftInvariance, PTL
=============================================================================
