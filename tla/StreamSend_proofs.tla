-------------------------- MODULE StreamSend_proofs --------------------------
(***************************************************************************)
(* Proofs about StreamSend for every configuration whose floor is at least *)
(* 100 kbps: the smallest reduction of a high loss, so that no subtraction *)
(* wraps.  Below that floor it does wrap: the README reports it among the  *)
(* findings.                                                               *)
(*                                                                         *)
(* The invariant says what the race between Update and Reset leaves true:  *)
(* the rate an Update has read is within the bounds, and the rate it then  *)
(* overwrites is that one or the cap.                                      *)
(***************************************************************************)
EXTENDS StreamSend, TLAPS

(* The configurations the theorems are about. *)
FloorAssumption == MinRate >= 100

Bounds == MinRate..MaxRate

(* `%` on an unsigned word leaves a value that fits it alone. *)
LEMMA FitsWord == ASSUME NEW w \in Nat \ {0}, NEW x \in 0..(w - 1)
                  PROVE  x % w = x
  OBVIOUS

(* The two halves of std::clamp stay between the bounds. *)
LEMMA Clamped == ASSUME NEW x \in Nat, NEW lo \in Nat, NEW hi \in Nat, lo <= hi
                 PROVE  AtMost(AtLeast(x, lo), hi) \in lo..hi
  BY DEF AtMost, AtLeast

(* A reduction of at most the rate lowers it, to the floor at the lowest. *)
LEMMA ReducedFits ==
  ASSUME NEW r \in Bounds, NEW d \in 0..r
  PROVE  Reduced(r, d) \in MinRate..r
  <1>1. r - d \in 0..(Word - 1) /\ Word \in Nat \ {0} /\ r \in Nat /\ MinRate <= r
    BY RateAssumption DEF Bounds
  <1>2. (r - d) % Word = r - d
    BY <1>1, FitsWord
  <1> QED
    BY <1>1, <1>2, RateAssumption DEF Reduced, AtLeast

(* A raise of at most the rate and 50 stops at the cap, and never wraps. *)
LEMMA RaisedFits ==
  ASSUME NEW r \in Bounds, NEW d \in 0..(r + 50)
  PROVE  Raised(r, d) \in r..MaxRate
  <1>1. r + d \in 0..(Word - 1) /\ Word \in Nat \ {0} /\ r \in Nat /\ r <= MaxRate
    BY RateAssumption DEF Bounds
  <1>2. (r + d) % Word = r + d
    BY <1>1, FitsWord
  <1> QED
    BY <1>1, <1>2, RateAssumption DEF Raised, AtMost

(* What an Update makes of a rate within the bounds: at a loss no more, in *)
(* a good interval no less, and never out of the bounds. *)
LEMMA UpdateFits ==
  ASSUME FloorAssumption, NEW r \in Bounds, NEW g \in 0..4, NEW l \in Losses
  PROVE  /\ l # "low" => UpdatedRate(r, g, l) \in MinRate..r
         /\ l = "low" => UpdatedRate(r, g, l) \in r..MaxRate
  <1>1. r \in Nat /\ r >= 100 /\ r <= MaxRate
    BY RateAssumption DEF FloorAssumption, Bounds
  <1>2. /\ AtLeast(r \div 2, 100) \in 0..r
        /\ AtLeast(r \div 4, 50) \in 0..r
        /\ AtLeast(r \div 8, 50) \in 0..(r + 50)
    BY <1>1 DEF AtLeast
  <1>3. CASE l = "high"
    BY <1>2, <1>3, ReducedFits DEF UpdatedRate
  <1>4. CASE l = "mid"
    BY <1>2, <1>4, ReducedFits DEF UpdatedRate
  <1>5. CASE l = "low"
    <2>1. CASE Fifth(g)
      BY <1>2, <1>5, <2>1, RaisedFits DEF UpdatedRate
    <2>2. CASE ~Fifth(g)
      BY <1>1, <1>5, <2>2, RateAssumption DEF UpdatedRate
    <2> QED
      BY <2>1, <2>2
  <1> QED
    BY <1>3, <1>4, <1>5 DEF Losses

(* The good intervals never reach five. *)
LEMMA UpdatedGoodFits == ASSUME NEW g \in 0..4, NEW l \in Losses
                         PROVE  UpdatedGood(g, l) \in 0..4
  BY DEF UpdatedGood, Fifth

-----------------------------------------------------------------------------
(* The rate that an Update holds, or that it is about to overwrite. *)
ReadFits ==
    /\ sender.seen.rate \in Bounds
    /\ sender.pc = "storeRate" => rate = sender.seen.rate \/ rate = MaxRate

SendInv == TypeOK /\ RateWithinBounds /\ ReadFits

(* The words of the model hold every rate within the bounds. *)
LEMMA BoundsAreWords == /\ Bounds \subseteq 0..(Word - 1) /\ MaxRate \in Bounds
                        /\ MinRate \in Bounds
  BY RateAssumption DEF Bounds

(* Initially the rate is clamped and nothing is read or reported. *)
LEMMA InitHolds == Init => SendInv
  <1> SUFFICES ASSUME Init PROVE SendInv
    OBVIOUS
  <1>1. rate \in Bounds
    BY RateAssumption, Clamped DEF Init, AbrNew, StartRate, Bounds
  <1>2. TypeOK
    <2>1. rate \in 0..(Word - 1) /\ MinRate \in 0..(Word - 1) /\ 0 \in 0..(Word - 1)
      BY <1>1, BoundsAreWords, RateAssumption
    <2>2. 0 \in 0..MaxPackets /\ "low" \in Losses /\ 0 \in 0..4
      BY BackpressureAssumption DEF Losses
    <2>3. Idle \in [pc : {"idle", "backend", "count", "storeRate", "storeGood"},
                    media : {"video", "audio"}, sent : BOOLEAN,
                    seen : [rate : 0..(Word - 1), good : 0..4, loss : Losses]]
      BY <2>1, <2>2 DEF Idle, Read
    <2> QED
      BY <2>1, <2>2, <2>3 DEF Init, AbrNew, TypeOK, States
  <1>3. RateWithinBounds /\ ReadFits
    BY <1>1, BoundsAreWords, RateAssumption
    DEF Init, RateWithinBounds, ReadFits, Idle, Read, Bounds
  <1> QED
    BY <1>2, <1>3 DEF SendInv

(* What a step that leaves the rates alone and the sender's record typed   *)
(* has to show. *)
LEMMA SenderTyped ==
  ASSUME TypeOK,
         NEW p \in {"idle", "backend", "count", "storeRate", "storeGood"},
         NEW m \in {"video", "audio"}, NEW b \in BOOLEAN
  PROVE  /\ [sender EXCEPT !.pc = p, !.media = m] \in
                [pc : {"idle", "backend", "count", "storeRate", "storeGood"},
                 media : {"video", "audio"}, sent : BOOLEAN,
                 seen : [rate : 0..(Word - 1), good : 0..4, loss : Losses]]
         /\ [sender EXCEPT !.pc = p, !.sent = b] \in
                [pc : {"idle", "backend", "count", "storeRate", "storeGood"},
                 media : {"video", "audio"}, sent : BOOLEAN,
                 seen : [rate : 0..(Word - 1), good : 0..4, loss : Losses]]
  BY DEF TypeOK

(* A call starts, or the backend answers. *)
LEMMA CallStep == ASSUME SendInv, SendVideo \/ SendAudio \/ BackendAnswers
                  PROVE  SendInv'
  <1>1. TypeOK' /\ sender'.pc \in {"backend", "count"} /\ sender'.seen = sender.seen
    BY DEF SendVideo, SendAudio, BackendAnswers, SenderOnly, SendInv, TypeOK, abrVars
  <1>2. RateWithinBounds' /\ ReadFits'
    BY <1>1 DEF SendVideo, SendAudio, BackendAnswers, SenderOnly, SendInv,
                RateWithinBounds, ReadFits, abrVars
  <1> QED
    BY <1>1, <1>2 DEF SendInv

(* The count is taken; an Update reads the rate of this moment. *)
LEMMA CountStep == ASSUME SendInv, Count PROVE SendInv'
  <1>1. backpressure' \in 0..MaxPackets
    BY BackpressureAssumption DEF Count, Counted, AtMost, SendInv, TypeOK
  <1>2. /\ rate \in Bounds /\ good \in 0..4 /\ loss \in Losses
        /\ UNCHANGED <<rate, good, bitrate, state, gate, loss, connector>>
    BY RateAssumption
    DEF Count, SenderOnly, abrVars, SendInv, TypeOK, RateWithinBounds, Bounds
  <1>3. CASE sender.media = "video" /\ state = "kStreaming"
    <2>1. sender' = [sender EXCEPT !.pc = "storeRate", !.seen = Read(rate, good, loss)]
      BY <1>3 DEF Count
    <2>2. TypeOK' /\ sender'.seen.rate = rate
      BY <1>1, <1>2, <2>1 DEF SendInv, TypeOK, Read
    <2> QED
      BY <1>2, <2>2 DEF SendInv, RateWithinBounds, ReadFits
  <1>4. CASE ~(sender.media = "video" /\ state = "kStreaming")
    <2>1. sender' = Idle
      BY <1>4 DEF Count
    <2>2. TypeOK' /\ sender'.seen.rate = MinRate /\ sender'.pc = "idle"
      BY <1>1, <1>2, <2>1, BoundsAreWords DEF SendInv, TypeOK, Idle, Read, Losses
    <2> QED
      BY <1>2, <2>2, BoundsAreWords DEF SendInv, RateWithinBounds, ReadFits
  <1> QED
    BY <1>3, <1>4

(* An Update stores its rate over what it read, or over a Reset. *)
LEMMA StoreRateStep ==
  ASSUME FloorAssumption, SendInv, StoreRate
  PROVE  /\ SendInv'
         /\ sender.seen.loss # "low" => rate' <= rate
         /\ sender.seen.loss = "low" => rate' >= rate \/ rate = MaxRate
  <1> DEFINE r == sender.seen.rate
             g == sender.seen.good
             l == sender.seen.loss
  <1>1. /\ r \in Bounds /\ g \in 0..4 /\ l \in Losses /\ rate \in Bounds
        /\ rate = r \/ rate = MaxRate
    BY RateAssumption
    DEF SendInv, ReadFits, TypeOK, StoreRate, RateWithinBounds, Bounds
  <1>2. /\ l # "low" => UpdatedRate(r, g, l) \in MinRate..r
        /\ l = "low" => UpdatedRate(r, g, l) \in r..MaxRate
    BY <1>1, UpdateFits
  <1>3. rate' = IF l = "low" /\ ~Fifth(g) THEN rate ELSE UpdatedRate(r, g, l)
    BY DEF StoreRate
  <1> HIDE DEF r, g, l
  <1>4. /\ rate' \in Bounds
        /\ l # "low" => rate' <= rate
        /\ l = "low" => rate' >= rate \/ rate = MaxRate
    <2>1. CASE l = "low" /\ ~Fifth(g)
      BY <1>1, <1>3, <2>1, RateAssumption DEF Bounds
    <2>2. CASE l = "low" /\ Fifth(g)
      BY <1>1, <1>2, <1>3, <2>2, RateAssumption DEF Bounds
    <2>3. CASE l # "low"
      BY <1>1, <1>2, <1>3, <2>3, RateAssumption DEF Bounds
    <2> QED
      BY <2>1, <2>2, <2>3
  <1>5. SendInv'
    <2>1. /\ UNCHANGED <<good, bitrate, backpressure, state, gate, loss, connector>>
          /\ sender' = [sender EXCEPT !.pc = "storeGood"]
      BY DEF StoreRate, SenderOnly
    <2>2. TypeOK'
      BY <1>4, <2>1, BoundsAreWords DEF SendInv, TypeOK
    <2>3. sender'.pc = "storeGood" /\ sender'.seen = sender.seen
      BY <2>1 DEF SendInv, TypeOK
    <2> QED
      BY <1>4, <2>1, <2>2, <2>3, RateAssumption
      DEF SendInv, RateWithinBounds, ReadFits, Bounds
  <1> QED
    BY <1>4, <1>5 DEF l

(* It stores its count, and the rate is reported. *)
LEMMA StoreGoodStep == ASSUME SendInv, StoreGood PROVE SendInv'
  <1>1. /\ sender' = Idle /\ bitrate' = rate
        /\ UNCHANGED <<rate, backpressure, state, gate, loss, connector>>
        /\ good' = UpdatedGood(sender.seen.good, sender.seen.loss)
    BY DEF StoreGood, SenderOnly
  <1>2. good' \in 0..4
    BY <1>1, UpdatedGoodFits DEF SendInv, TypeOK
  <1>3. TypeOK' /\ sender'.seen.rate = MinRate /\ sender'.pc = "idle"
    BY <1>1, <1>2, BoundsAreWords DEF SendInv, TypeOK, Idle, Read, Losses
  <1> QED
    BY <1>1, <1>3, BoundsAreWords DEF SendInv, RateWithinBounds, ReadFits

(* The connecting thread only ever stores the cap. *)
LEMMA ConnectStep == ASSUME SendInv, Connects PROVE SendInv'
  <1>1. UNCHANGED <<backpressure, loss, sender, bitrate>>
    BY DEF Connects, StartConnects, WorkerConnects, ConnectFails, ConnectSucceeds,
           ResetStoresRate, ResetStoresGood, ConnectReports, ConnectorOnly,
           UpdateStatus, statusVars
  <1>2. /\ rate' = rate \/ rate' = MaxRate
        /\ good' = good \/ good' = 0
        /\ state' \in States /\ gate' \in BOOLEAN
        /\ connector' \in {"idle", "start", "retry", "resetRate", "resetGood", "report"}
    <2> USE DEF SendInv, TypeOK, ConnectorOnly, UpdateStatus, statusVars, abrVars, States
    <2>1. CASE StartConnects
      BY <2>1 DEF StartConnects
    <2>2. CASE WorkerConnects
      BY <2>2 DEF WorkerConnects
    <2>3. CASE ConnectFails
      BY <2>3 DEF ConnectFails
    <2>4. CASE ConnectSucceeds
      BY <2>4 DEF ConnectSucceeds
    <2>5. CASE ResetStoresRate
      BY <2>5 DEF ResetStoresRate
    <2>6. CASE ResetStoresGood
      BY <2>6 DEF ResetStoresGood
    <2>7. CASE ConnectReports
      BY <2>7 DEF ConnectReports
    <2> QED
      BY <2>1, <2>2, <2>3, <2>4, <2>5, <2>6, <2>7 DEF Connects
  <1>3. TypeOK'
    BY <1>1, <1>2, BoundsAreWords DEF SendInv, TypeOK
  <1>4. MinRate <= rate' /\ rate' <= MaxRate
    BY <1>2, RateAssumption DEF SendInv, RateWithinBounds
  <1>5. RateWithinBounds'
    BY <1>1, <1>4 DEF SendInv, RateWithinBounds
  <1>6. ReadFits'
    BY <1>1, <1>2 DEF SendInv, ReadFits
  <1> QED
    BY <1>3, <1>5, <1>6 DEF SendInv

(* The transport touches no rate but the one reported. *)
LEMMA TransportStep ==
  ASSUME SendInv, BackendReports \/ LinkFails \/ LossChanges PROVE SendInv'
  <1>1. UNCHANGED <<rate, good, backpressure, sender, connector>>
    BY DEF BackendReports, LinkFails, LossChanges, abrVars
  <1>2. bitrate' = bitrate \/ bitrate' = 0
    BY DEF BackendReports, LinkFails, LossChanges, statusVars
  <1>3. state' \in States /\ gate' \in BOOLEAN /\ loss' \in Losses
    BY DEF BackendReports, LinkFails, LossChanges, statusVars, SendInv, TypeOK,
           States, Reported
  <1>4. TypeOK'
    <2>1. bitrate' \in 0..(Word - 1)
      BY <1>2, RateAssumption DEF SendInv, TypeOK
    <2> QED
      BY <1>1, <1>3, <2>1 DEF SendInv, TypeOK
  <1> QED
    BY <1>1, <1>2, <1>4 DEF SendInv, RateWithinBounds, ReadFits

(* The step of the induction: one case for each group of actions. *)
LEMMA SendStep == FloorAssumption /\ SendInv /\ [Next]_vars => SendInv'
  <1> SUFFICES ASSUME FloorAssumption, SendInv, [Next]_vars PROVE SendInv'
    OBVIOUS
  <1>1. CASE SendVideo \/ SendAudio \/ BackendAnswers
    BY <1>1, CallStep
  <1>2. CASE Count
    BY <1>2, CountStep
  <1>3. CASE StoreRate
    BY <1>3, StoreRateStep
  <1>4. CASE StoreGood
    BY <1>4, StoreGoodStep
  <1>5. CASE Connects
    BY <1>5, ConnectStep
  <1>6. CASE BackendReports \/ LinkFails \/ LossChanges
    BY <1>6, TransportStep
  <1>7. CASE UNCHANGED vars
    BY <1>7 DEF vars, abrVars, statusVars, SendInv, TypeOK, RateWithinBounds, ReadFits
  <1> QED
    BY <1>1, <1>2, <1>3, <1>4, <1>5, <1>6, <1>7 DEF Next, Returns

(* With a floor of at least 100 kbps the invariant always holds. *)
THEOREM SendingIsSafe == ASSUME FloorAssumption PROVE Spec => []SendInv
  <1>1. SendInv /\ [Next]_vars => SendInv'
    BY SendStep
  <1> QED
    BY <1>1, InitHolds, PTL DEF Spec

(* Every variable keeps its type, and so no Update wraps a word. *)
THEOREM SendingIsTyped == ASSUME FloorAssumption PROVE Spec => []TypeOK
  BY SendingIsSafe, PTL DEF SendInv

(* The rate, and the rate reported, stay between the floor and the cap,    *)
(* although Reset and Update race.                                         *)
THEOREM BitrateBounds == ASSUME FloorAssumption PROVE Spec => []RateWithinBounds
  BY SendingIsSafe, PTL DEF SendInv

(* An Update at a loss never raises the rate, and one without never lowers *)
(* it but where it overwrites a Reset.                                     *)
THEOREM LossLowersTheRate == ASSUME FloorAssumption PROVE Spec => LossNeverRaises
  <1>1. SendInv /\ [Next]_vars
          => [StoreRate => IF sender.seen.loss # "low" THEN rate' <= rate
                           ELSE rate' >= rate \/ rate = MaxRate]_vars
    BY StoreRateStep
  <1> QED
    BY <1>1, SendingIsSafe, PTL DEF Spec, LossNeverRaises

-----------------------------------------------------------------------------
(* How the rate settles.  No step below says that Updates happen; these    *)
(* theorems say that none of them is in vain.                              *)

(* A reduction, or a raise, is seen unless it ends at the bound. *)
LEMMA UpdateMoves ==
  ASSUME FloorAssumption, NEW r \in Bounds, NEW g \in 0..4, NEW l \in Losses
  PROVE  /\ l = "high" =>
               UpdatedRate(r, g, l) = MinRate \/ UpdatedRate(r, g, l) <= r - 100
         /\ l = "mid" =>
               UpdatedRate(r, g, l) = MinRate \/ UpdatedRate(r, g, l) <= r - 50
         /\ l = "low" /\ Fifth(g) =>
               UpdatedRate(r, g, l) = MaxRate \/ UpdatedRate(r, g, l) >= r + 50
  <1>1. /\ r \in Nat /\ r >= 100 /\ r <= MaxRate /\ MinRate <= r
        /\ MinRate \in Nat /\ MaxRate \in Nat
    BY RateAssumption DEF FloorAssumption, Bounds
  <1>2. ASSUME NEW d \in Nat, d <= r
        PROVE  Reduced(r, d) = MinRate \/ Reduced(r, d) = r - d
    <2>1. r - d \in 0..(Word - 1) /\ Word \in Nat \ {0}
      BY <1>1, <1>2, RateAssumption
    <2>2. (r - d) % Word = r - d
      BY <2>1, FitsWord
    <2> QED BY <2>2 DEF Reduced, AtLeast
  <1>3. ASSUME NEW d \in Nat, d <= r + 50
        PROVE  Raised(r, d) = MaxRate \/ Raised(r, d) = r + d
    <2>1. r + d \in 0..(Word - 1) /\ Word \in Nat \ {0}
      BY <1>1, <1>3, RateAssumption
    <2>2. (r + d) % Word = r + d
      BY <2>1, FitsWord
    <2> QED BY <2>2 DEF Raised, AtMost
  <1>4. CASE l = "high"
    <2> DEFINE d == AtLeast(r \div 2, 100)
    <2>1. d \in Nat /\ d <= r /\ d >= 100
      BY <1>1 DEF AtLeast
    <2>2. UpdatedRate(r, g, l) = Reduced(r, d)
      BY <1>4 DEF UpdatedRate
    <2> HIDE DEF d
    <2> QED BY <1>1, <1>2, <1>4, <2>1, <2>2
  <1>5. CASE l = "mid"
    <2> DEFINE d == AtLeast(r \div 4, 50)
    <2>1. d \in Nat /\ d <= r /\ d >= 50
      BY <1>1 DEF AtLeast
    <2>2. UpdatedRate(r, g, l) = Reduced(r, d)
      BY <1>5 DEF UpdatedRate
    <2> HIDE DEF d
    <2> QED BY <1>1, <1>2, <1>5, <2>1, <2>2
  <1>6. CASE l = "low" /\ Fifth(g)
    <2> DEFINE d == AtLeast(r \div 8, 50)
    <2>1. d \in Nat /\ d <= r + 50 /\ d >= 50
      BY <1>1 DEF AtLeast
    <2>2. UpdatedRate(r, g, l) = Raised(r, d)
      BY <1>6 DEF UpdatedRate
    <2> HIDE DEF d
    <2> QED BY <1>1, <1>3, <1>6, <2>1, <2>2
  <1> QED BY <1>4, <1>5, <1>6 DEF Losses

(* Nobody but a Reset changes the good intervals an Update has read. *)
CountRead == Locked => good = sender.seen.good \/ good = 0

LEMMA CountReadStep == SendInv /\ CountRead /\ [Next]_vars => CountRead'
  <1> SUFFICES ASSUME SendInv, CountRead, [Next]_vars PROVE CountRead'
    OBVIOUS
  <1> USE DEF SendInv, TypeOK, CountRead, Locked
  <1>1. CASE SendVideo \/ SendAudio \/ BackendAnswers
    BY <1>1 DEF SendVideo, SendAudio, BackendAnswers
  <1>2. CASE Count
    BY <1>2 DEF Count, Read, Idle, abrVars
  <1>3. CASE StoreRate
    BY <1>3 DEF StoreRate
  <1>4. CASE StoreGood
    BY <1>4 DEF StoreGood, Idle
  <1>5. CASE Connects
    <2>1. sender' = sender /\ (good' = good \/ good' = 0)
      BY <1>5 DEF Connects, StartConnects, WorkerConnects, ConnectFails,
             ConnectSucceeds, ResetStoresRate, ResetStoresGood, ConnectReports,
             ConnectorOnly, abrVars
    <2> QED BY <2>1
  <1>6. CASE BackendReports \/ LinkFails \/ LossChanges
    BY <1>6 DEF BackendReports, LinkFails, LossChanges, abrVars
  <1>7. CASE UNCHANGED vars
    BY <1>7 DEF vars, abrVars
  <1> QED BY <1>1, <1>2, <1>3, <1>4, <1>5, <1>6, <1>7 DEF Next, Returns

(* One Update at a high loss takes 100 kbps or reaches the floor, one at a *)
(* moderate loss 50; one without loss adds 50 or reaches the cap, if it is *)
(* the fifth, and else brings the fifth nearer.  A Reset in between can    *)
(* only put the rate to the cap and the count to 0.                        *)
UpdatesMakeHeadway ==
    [][LET seen == sender.seen IN
       /\ StoreRate =>
             /\ seen.loss = "high" => rate' = MinRate \/ rate' <= rate - 100
             /\ seen.loss = "mid"  => rate' = MinRate \/ rate' <= rate - 50
             /\ seen.loss = "low" /\ Fifth(seen.good) =>
                   rate' = MaxRate \/ rate = MaxRate \/ rate' >= rate + 50
             /\ seen.loss = "low" /\ ~Fifth(seen.good) => rate' = rate
       /\ StoreGood /\ seen.loss = "low" /\ ~Fifth(seen.good) => good' > good]_vars

(* No Update is in vain (abr_controller.cc:17-41), although it reads and   *)
(* writes without the lock that Reset does not take either: the safety     *)
(* core of SettlesAtTheBound, which says that the rate gets there.         *)
THEOREM UpdatesCount == ASSUME FloorAssumption PROVE Spec => UpdatesMakeHeadway
  <1> DEFINE seen == sender.seen
             Inv == SendInv /\ CountRead
  <1>1. Init => CountRead
    BY DEF Init, CountRead, Locked, Idle
  <1>2. ASSUME Inv, StoreRate
        PROVE  /\ seen.loss = "high" => rate' = MinRate \/ rate' <= rate - 100
               /\ seen.loss = "mid"  => rate' = MinRate \/ rate' <= rate - 50
               /\ seen.loss = "low" /\ Fifth(seen.good) =>
                     rate' = MaxRate \/ rate = MaxRate \/ rate' >= rate + 50
               /\ seen.loss = "low" /\ ~Fifth(seen.good) => rate' = rate
    <2> DEFINE r == seen.rate
               g == seen.good
               l == seen.loss
               u == UpdatedRate(r, g, l)
    <2>1. /\ r \in Bounds /\ g \in 0..4 /\ l \in Losses /\ rate \in Bounds
          /\ rate = r \/ rate = MaxRate
      BY <1>2, RateAssumption
      DEF SendInv, ReadFits, TypeOK, StoreRate, RateWithinBounds, Bounds
    <2>2. rate' = IF l = "low" /\ ~Fifth(g) THEN rate ELSE u
      BY <1>2 DEF StoreRate
    <2> HIDE DEF seen, r, g, l
    <2>3. /\ l = "high" => u = MinRate \/ u <= r - 100
          /\ l = "mid" => u = MinRate \/ u <= r - 50
          /\ l = "low" /\ Fifth(g) => u = MaxRate \/ u >= r + 50
      BY <2>1, UpdateMoves
    <2>4. /\ l # "low" => u \in MinRate..r
          /\ l = "low" => u \in r..MaxRate
      BY <2>1, UpdateFits
    <2>5. r \in Int /\ rate \in Int /\ r <= rate /\ MinRate \in Int /\ MaxRate \in Int
      BY <2>1, RateAssumption DEF Bounds
    <2> HIDE DEF u
    <2>6. u \in Int
      BY <2>4, <2>5, <2>1 DEF Losses
    <2>7. l = "high" => rate' = MinRate \/ rate' <= rate - 100
      BY <2>2, <2>3, <2>5, <2>6
    <2>8. l = "mid" => rate' = MinRate \/ rate' <= rate - 50
      BY <2>2, <2>3, <2>5, <2>6
    <2>9. l = "low" /\ Fifth(g) => rate' = MaxRate \/ rate = MaxRate \/ rate' >= rate + 50
      BY <2>1, <2>2, <2>3, <2>5, <2>6
    <2>10. l = "low" /\ ~Fifth(g) => rate' = rate
      BY <2>2
    <2> QED BY <2>7, <2>8, <2>9, <2>10 DEF l, g
  <1>3. ASSUME Inv, StoreGood, seen.loss = "low", ~Fifth(seen.good)
        PROVE  good' > good
    <2>1. good \in 0..4 /\ seen.good \in 0..4 /\ (good = seen.good \/ good = 0)
      BY <1>3 DEF SendInv, TypeOK, CountRead, Locked, StoreGood
    <2>2. good' = seen.good + 1
      BY <1>3 DEF StoreGood, UpdatedGood
    <2> QED BY <2>1, <2>2
  <1>4. Inv /\ [Next]_vars =>
          [ /\ StoreRate =>
                  /\ seen.loss = "high" => rate' = MinRate \/ rate' <= rate - 100
                  /\ seen.loss = "mid"  => rate' = MinRate \/ rate' <= rate - 50
                  /\ seen.loss = "low" /\ Fifth(seen.good) =>
                        rate' = MaxRate \/ rate = MaxRate \/ rate' >= rate + 50
                  /\ seen.loss = "low" /\ ~Fifth(seen.good) => rate' = rate
            /\ StoreGood /\ seen.loss = "low" /\ ~Fifth(seen.good) => good' > good]_vars
    <2> HIDE DEF Inv, seen
    <2> QED BY <1>2, <1>3
  <1>5. Inv /\ [Next]_vars => CountRead'
    BY CountReadStep
  <1> QED BY <1>1, <1>4, <1>5, SendingIsSafe, PTL DEF Spec, UpdatesMakeHeadway
=============================================================================
