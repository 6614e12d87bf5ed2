----------------------------- MODULE PacketRing -----------------------------
(***************************************************************************)
(* Ring<Pkt> of codec/src/framework/queue/packet_queue.{h,cc}: a bounded   *)
(* ring of pre-allocated slots, head_ the consumer's index, tail_ the      *)
(* producer's, count_ the number of occupied slots.  Every operation of    *)
(* the class runs under mu_, so each is one function on the ring's value;  *)
(* the threads that call them, and the one place where a call gives mu_ up *)
(* (the kBlock wait), are in PacketQueue.                                  *)
(*                                                                         *)
(* A packet is its number in the order the ring accepted packets: 1 is the *)
(* first.  0 is the empty Pkt{} that a vacated slot is reset to.           *)
(***************************************************************************)
EXTENDS Integers

CONSTANT Capacity   \* capacity_, the number of slots

(* The assert of packet_queue.cc:18: positive and a power of two. *)
ASSUME CapacityAssumption ==
    /\ Capacity \in Nat \ {0}
    /\ \E k \in 0..Capacity : Capacity = 2^k

NoPkt == 0
Slots == 0..(Capacity - 1)

(* `i & mask_`: with a power-of-two capacity the mask is the remainder. *)
Masked(i) == i % Capacity

Rings == [slots : [Slots -> Nat], head : Slots, tail : Slots,
          count : 0..Capacity, eos : BOOLEAN]

EmptyRing == [slots |-> [i \in Slots |-> NoPkt], head |-> 0, tail |-> 0,
              count |-> 0, eos |-> FALSE]

Full(r) == r.count = Capacity

(* Plausible bug: the index advances past the last slot. *)
VacatedUnmasked(r) ==
    [r EXCEPT !.slots = [@ EXCEPT ![r.head] = NoPkt],
              !.head = r.head + 1, !.count = r.count - 1]

(* The tail of Ring::Push: the packet moves into the tail slot. *)
Stored(r, pkt) ==
    [r EXCEPT !.slots = [@ EXCEPT ![r.tail] = pkt],
              !.tail = Masked(r.tail + 1),
              !.count = r.count + 1]

(* The head slot is vacated: by Ring::Pop, and by Push under kLatest. *)
Vacated(r) ==
    [r EXCEPT !.slots = [@ EXCEPT ![r.head] = NoPkt],
              !.head = Masked(r.head + 1),
              !.count = r.count - 1]

Oldest(r) == r.slots[r.head]

Closed(r) == [r EXCEPT !.eos = TRUE]
-----------------------------------------------------------------------------
(* What a ring holds.                                                      *)

(* The c slots from h on hold the packets up to n, in order. *)
InOrder(f, h, c, n) == \A j \in 0..(c - 1) : f[Masked(h + j)] = n - c + 1 + j

(* Its count slots from head on hold the packets up to `newest`, in order, *)
(* and tail is the slot after them.                                        *)
Holds(r, newest) ==
    /\ r.count <= newest
    /\ r.tail = Masked(r.head + r.count)
    /\ InOrder(r.slots, r.head, r.count, newest)
=============================================================================
