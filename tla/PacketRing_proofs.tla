-------------------------- MODULE PacketRing_proofs --------------------------
(***************************************************************************)
(* Facts about the ring of PacketRing, for every capacity: masking is      *)
(* wrapping around once, and storing or vacating a slot keeps the ring's   *)
(* type and the packets it holds in order.                                 *)
(***************************************************************************)
EXTENDS PacketRing, TLAPS

(* All that the proofs need of the capacity. *)
LEMMA CapacityPositive == Capacity \in Nat \ {0}
  BY CapacityAssumption

(* An index less than two capacities wraps by subtracting one capacity. *)
LEMMA MaskedWraps ==
    ASSUME NEW i \in 0..(2 * Capacity - 1)
    PROVE  Masked(i) = IF i < Capacity THEN i ELSE i - Capacity
  <1>1. CASE i < Capacity
    BY <1>1, CapacityPositive DEF Masked
  <1>2. CASE i >= Capacity
    <2>1. i = 1 * Capacity + (i - Capacity) /\ i - Capacity \in 0..(Capacity - 1)
      BY <1>2, CapacityPositive
    <2> QED
      BY <1>2, <2>1, CapacityPositive DEF Masked
  <1> QED
    BY <1>1, <1>2, CapacityPositive

(* The next slot is a slot. *)
LEMMA NextSlot ==
    ASSUME NEW i \in Slots
    PROVE  /\ Masked(i + 1) = IF i = Capacity - 1 THEN 0 ELSE i + 1
           /\ Masked(i + 1) \in Slots
  BY MaskedWraps, CapacityPositive DEF Slots

(* The position of the j-th slot from head on. *)
LEMMA SlotFromHead ==
    ASSUME NEW h \in Slots, NEW j \in 0..Capacity
    PROVE  /\ Masked(h + j) = IF h + j < Capacity THEN h + j ELSE h + j - Capacity
           /\ Masked(h + j) \in Slots
  <1>1. h + j \in 0..(2 * Capacity - 1)
    BY CapacityPositive DEF Slots
  <1>2. Masked(h + j) = IF h + j < Capacity THEN h + j ELSE h + j - Capacity
    BY <1>1, MaskedWraps, CapacityPositive DEF Slots
  <1> QED
    BY <1>2, CapacityPositive DEF Slots

(* The fields of a ring after a store into a ring with room. *)
LEMMA StoredFields ==
    ASSUME NEW r \in Rings, NEW pkt \in Nat, ~Full(r)
    PROVE  /\ Stored(r, pkt) \in Rings
           /\ Stored(r, pkt).slots = [r.slots EXCEPT ![r.tail] = pkt]
           /\ Stored(r, pkt).head = r.head
           /\ Stored(r, pkt).tail = Masked(r.tail + 1)
           /\ Stored(r, pkt).count = r.count + 1
           /\ Stored(r, pkt).eos = r.eos
  <1>1. [r.slots EXCEPT ![r.tail] = pkt] \in [Slots -> Nat]
    BY DEF Rings
  <1>2. Masked(r.tail + 1) \in Slots
    BY NextSlot DEF Rings
  <1>3. r.count + 1 \in 0..Capacity
    BY CapacityPositive DEF Rings, Full
  <1> QED
    BY <1>1, <1>2, <1>3 DEF Rings, Stored

(* The fields of a ring whose oldest packet is gone. *)
LEMMA VacatedFields ==
    ASSUME NEW r \in Rings, r.count > 0
    PROVE  /\ Vacated(r) \in Rings
           /\ Vacated(r).slots = [r.slots EXCEPT ![r.head] = NoPkt]
           /\ Vacated(r).head = Masked(r.head + 1)
           /\ Vacated(r).tail = r.tail
           /\ Vacated(r).count = r.count - 1
           /\ Vacated(r).eos = r.eos
  <1>1. [r.slots EXCEPT ![r.head] = NoPkt] \in [Slots -> Nat]
    BY DEF Rings, NoPkt
  <1>2. Masked(r.head + 1) \in Slots
    BY NextSlot DEF Rings
  <1>3. r.count - 1 \in 0..Capacity
    BY CapacityPositive DEF Rings
  <1> QED
    BY <1>1, <1>2, <1>3 DEF Rings, Vacated

(* Writing the slot after the newest packet appends to the order. *)
LEMMA AppendInOrder ==
    ASSUME NEW f \in [Slots -> Nat], NEW h \in Slots, NEW c \in 0..(Capacity - 1),
           NEW n \in Nat, InOrder(f, h, c, n)
    PROVE  /\ InOrder([f EXCEPT ![Masked(h + c)] = n + 1], h, c + 1, n + 1)
           /\ Masked(Masked(h + c) + 1) = Masked(h + (c + 1))
  <1>1. Capacity \in Nat \ {0} /\ h \in 0..(Capacity - 1)
    BY CapacityPositive DEF Slots
  <1>2. \A j \in 0..Capacity :
            /\ Masked(h + j) = IF h + j < Capacity THEN h + j ELSE h + j - Capacity
            /\ Masked(h + j) \in Slots
    BY SlotFromHead
  <1>3. /\ Masked(h + c) = IF h + c < Capacity THEN h + c ELSE h + c - Capacity
        /\ Masked(h + c) \in Slots
    BY <1>1, <1>2
  <1>4. ASSUME NEW j \in 0..c
        PROVE  [f EXCEPT ![Masked(h + c)] = n + 1][Masked(h + j)]
                   = (n + 1) - (c + 1) + 1 + j
    <2>1. CASE j = c
      BY <1>1, <1>3, <2>1
    <2>2. CASE j < c
      <3>1. j \in 0..(c - 1) /\ j \in 0..Capacity
        BY <1>1, <2>2
      <3> DEFINE at == Masked(h + j)
      <3>2. at = (IF h + j < Capacity THEN h + j ELSE h + j - Capacity) /\ at \in Slots
        BY <1>2, <3>1
      <3>3. at # Masked(h + c)
        BY <1>1, <1>3, <2>2, <3>2
      <3>4. f[at] = n - c + 1 + j
        BY <3>1 DEF InOrder
      <3> QED
        BY <1>3, <3>2, <3>3, <3>4
    <2> QED
      BY <2>1, <2>2
  <1>5. Masked(Masked(h + c) + 1) = Masked(h + (c + 1))
    <2>1. Masked(h + (c + 1)) = IF h + (c + 1) < Capacity THEN h + (c + 1)
                                                    ELSE h + (c + 1) - Capacity
      BY <1>1, <1>2
    <2>2. Masked(Masked(h + c) + 1) =
              IF Masked(h + c) = Capacity - 1 THEN 0 ELSE Masked(h + c) + 1
      BY <1>3, NextSlot
    <2> QED
      BY <1>1, <1>3, <2>1, <2>2
  <1>6. 0..((c + 1) - 1) = 0..c
    BY <1>1
  <1> QED
    BY <1>4, <1>5, <1>6 DEF InOrder

(* Clearing the first slot leaves the rest in order. *)
LEMMA DropInOrder ==
    ASSUME NEW f \in [Slots -> Nat], NEW h \in Slots, NEW c \in 1..Capacity,
           NEW n \in Nat, InOrder(f, h, c, n)
    PROVE  /\ InOrder([f EXCEPT ![h] = NoPkt], Masked(h + 1), c - 1, n)
           /\ Masked(Masked(h + 1) + (c - 1)) = Masked(h + c)
           /\ f[h] = n - c + 1
  <1>1. Capacity \in Nat \ {0} /\ h \in 0..(Capacity - 1)
    BY CapacityPositive DEF Slots
  <1>2. \A j \in 0..Capacity :
            /\ Masked(h + j) = IF h + j < Capacity THEN h + j ELSE h + j - Capacity
            /\ Masked(h + j) \in Slots
    BY SlotFromHead
  <1> DEFINE g == Masked(h + 1)
  <1>3. g \in Slots /\ g = IF h = Capacity - 1 THEN 0 ELSE h + 1
    BY NextSlot
  <1>4. ASSUME NEW j \in 0..(Capacity - 1)
        PROVE  Masked(g + j) = Masked(h + (j + 1))
    <2> HIDE DEF g
    <2>0. \A k \in 0..Capacity :
              Masked(g + k) = IF g + k < Capacity THEN g + k ELSE g + k - Capacity
      BY <1>3, SlotFromHead
    <2>1. Masked(g + j) = IF g + j < Capacity THEN g + j ELSE g + j - Capacity
      BY <1>1, <2>0
    <2>2. Masked(h + (j + 1)) = IF h + (j + 1) < Capacity THEN h + (j + 1)
                                                    ELSE h + (j + 1) - Capacity
      BY <1>1, <1>2
    <2>3. g \in 0..(Capacity - 1)
      BY <1>3 DEF Slots
    <2> QED
      BY <1>1, <1>3, <2>1, <2>2, <2>3
  <1>5. ASSUME NEW j \in 0..(c - 2)
        PROVE  [f EXCEPT ![h] = NoPkt][Masked(g + j)] = n - (c - 1) + 1 + j
    <2>1. j \in 0..(Capacity - 1) /\ j + 1 \in 0..(c - 1) /\ j + 1 \in 0..Capacity
      BY <1>1
    <2> DEFINE at == Masked(h + (j + 1))
    <2>2. Masked(g + j) = at
      BY <1>4, <2>1
    <2>3. /\ at = IF h + (j + 1) < Capacity THEN h + (j + 1) ELSE h + (j + 1) - Capacity
          /\ at \in Slots
      BY <1>2, <2>1
    <2>4. f[at] = n - c + 1 + (j + 1)
      BY <2>1 DEF InOrder
    <2> HIDE DEF at
    <2>5. at # h
      BY <1>1, <2>1, <2>3
    <2> QED
      BY <1>1, <2>2, <2>3, <2>4, <2>5
  <1>6. Masked(g + (c - 1)) = Masked(h + c)
    <2>1. c - 1 \in 0..(Capacity - 1) /\ (c - 1) + 1 = c
      BY <1>1
    <2> QED
      BY <1>4, <2>1
  <1>7. f[h] = n - c + 1
    <2>1. Masked(h + 0) = h /\ 0 \in 0..(c - 1)
      BY <1>1, <1>2
    <2>2. f[Masked(h + 0)] = n - c + 1 + 0
      BY <2>1 DEF InOrder
    <2> QED
      BY <1>1, <2>1, <2>2
  <1>8. 0..((c - 1) - 1) = 0..(c - 2)
    BY <1>1
  <1> QED
    BY <1>5, <1>6, <1>7, <1>8 DEF InOrder

(* A store appends the packet numbered after the newest. *)
LEMMA StoredHolds ==
    ASSUME NEW r \in Rings, NEW n \in Nat, Holds(r, n), ~Full(r)
    PROVE  Holds(Stored(r, n + 1), n + 1)
  <1>1. /\ r.slots \in [Slots -> Nat] /\ r.head \in Slots /\ r.count \in Nat
        /\ r.count \in 0..(Capacity - 1)
    BY CapacityPositive DEF Rings, Full
  <1>2. /\ InOrder([r.slots EXCEPT ![Masked(r.head + r.count)] = n + 1],
                   r.head, r.count + 1, n + 1)
        /\ Masked(Masked(r.head + r.count) + 1) = Masked(r.head + (r.count + 1))
    BY <1>1, AppendInOrder DEF Holds
  <1> QED
    BY <1>1, <1>2, StoredFields DEF Holds

(* Vacating the head slot gives up the oldest packet and no other. *)
LEMMA VacatedHolds ==
    ASSUME NEW r \in Rings, NEW n \in Nat, Holds(r, n), r.count > 0
    PROVE  /\ Holds(Vacated(r), n)
           /\ Oldest(r) = n - r.count + 1
  <1>1. /\ r.slots \in [Slots -> Nat] /\ r.head \in Slots /\ r.count \in Nat
        /\ r.count \in 1..Capacity
    BY CapacityPositive DEF Rings
  <1>2. /\ InOrder([r.slots EXCEPT ![r.head] = NoPkt],
                   Masked(r.head + 1), r.count - 1, n)
        /\ Masked(Masked(r.head + 1) + (r.count - 1)) = Masked(r.head + r.count)
        /\ r.slots[r.head] = n - r.count + 1
    BY <1>1, DropInOrder DEF Holds
  <1> QED
    BY <1>1, <1>2, VacatedFields DEF Holds, Oldest
=============================================================================
