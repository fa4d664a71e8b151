----------------------------- MODULE SpscProofs -----------------------------
(***************************************************************************)
(* Proofs about Spsc, for every capacity, number of slots and bound on the *)
(* calls.  The indices are taken not to reach the top of their range       *)
(* (NoWrap): the test of try_push wraps there, and a 64-bit index does not *)
(* get there.                                                              *)
(***************************************************************************)
EXTENDS Spsc, SequenceTheorems, TLAPS

NoWrap == MaxCalls + Cap < Word

\* Which of the two references to the ring are still held.
TxHeld == ~sdrop \/ spc = "dec"
RxHeld == rpc # "gone"

\* The reference count and the program counters agree.
LifeInv ==
    /\ strong = (IF TxHeld THEN 1 ELSE 0) + (IF RxHeld THEN 1 ELSE 0)
    /\ sdrop => spc \in {"dec", "wake1", "wake2", "wake3", "gone"}
    /\ spc \in {"dec", "gone"} => sdrop
    /\ rdrop => rpc \in {"reset1", "reset2", "reset3", "dec", "gone"}
    /\ rpc \in {"dec", "gone"} => rdrop

\* The awakener's two critical sections exclude each other although neither takes
\* a lock: the flag is TRUE while only the sender may touch the eventfd, FALSE
\* while only the receiver may.
AwakenerInv ==
    /\ spc = "wake2" => needWakeup /\ efd = 0
    /\ spc = "wake3" => needWakeup /\ efd = 1
    /\ rpc = "reset2" => ~needWakeup /\ efd = 1
    /\ rpc = "reset3" => ~needWakeup /\ efd = 0
    /\ spc # "wake3" /\ rpc # "reset3" => (needWakeup <=> efd = 0)

\* Each index is known late by the other side and never early, and the ring as the
\* sender caches it never holds more than Cap messages.
IndexInv ==
    strong # 0 =>
      /\ shadowFront <= frontMem /\ frontMem <= front /\ front <= shadowRear
      /\ shadowRear <= rearMem /\ rearMem <= rear /\ rear <= shadowFront + Cap
      /\ spc \in {"write", "publish"} => rear < shadowFront + Cap
      /\ rpc \in {"read", "release"} => front < shadowRear
      /\ rear = Len(log)
      /\ Len(received) = IF rpc = "release" THEN front + 1 ELSE front

\* The messages in hand, and that they have numbers not yet used.
CallInv ==
    /\ Len(log) <= calls
    /\ spc \in {"check", "push", "write", "publish"} => msg \in Msgs /\ Len(log) < calls

\* Every unread index has its message in its slot.
SlotInv ==
    strong # 0 =>
      /\ \A i \in front .. rear - 1 : slots[effective_index(i)] = log[i + 1]
      /\ spc = "publish" => slots[effective_index(rear)] = msg

\* The receiver cannot park on something the sender has told it about.
ParkInv ==
    /\ ~buffered => rearMem = rear
    /\ ~buffered /\ rpc \in {"empty", "idle"} /\ Len(received) < Len(log)
         => spc \in {"wake1", "wake2"} \/ efd = 1
    /\ rpc = "idle" /\ ~TxHeld => spc \in {"wake1", "wake2"} \/ efd = 1

IInv == TypeOK /\ LifeInv /\ AwakenerInv /\ IndexInv /\ CallInv /\ SlotInv /\ Fifo /\ ParkInv

\* A remainder lies below its divisor.
LEMMA ModRange == ASSUME NEW a \in Nat, NEW n \in Nat \ {0} PROVE a % n \in 0..n-1
  OBVIOUS

\* A number below the divisor is its own remainder.
LEMMA ModSmall == ASSUME NEW a \in Nat, NEW n \in Nat \ {0}, a < n PROVE a % n = a
  OBVIOUS

\* Division with remainder.
LEMMA DivMod == ASSUME NEW a \in Nat, NEW n \in Nat \ {0} PROVE /\ a \div n \in Int /\ a = n * (a \div n) + (a % n)
  OBVIOUS

\* No multiple of n lies strictly between 0 and n.
LEMMA Mul == ASSUME NEW n \in Nat \ {0}, NEW d \in Int, 0 < n*d, n*d < n PROVE FALSE
 <1>1. CASE d <= 0
   BY <1>1, Z3
 <1>2. CASE d >= 1
   BY <1>2, Z3
 <1> QED BY <1>1, <1>2

\* Two numbers less than n apart have different remainders.
LEMMA ModDiff ==
  ASSUME NEW n \in Nat \ {0}, NEW i \in Nat, NEW j \in Nat, i < j, j - i < n
  PROVE i % n # j % n
 <1> SUFFICES ASSUME i % n = j % n PROVE FALSE OBVIOUS
 <1> DEFINE p == i \div n  q == j \div n
 <1>1. p \in Int /\ q \in Int /\ i = n * p + (i % n) /\ j = n * q + (j % n) BY DivMod
 <1>2. j - i = n * q - n * p BY <1>1
 <1>3. n * q - n * p = n * (q - p) BY <1>1
 <1> HIDE DEF p, q
 <1>5. 0 < n * (q-p) /\ n * (q-p) < n BY <1>2, <1>3
 <1> QED BY <1>5, <1>1, Mul

\* Below the top of the range wrapping_add(1) is addition.
LEMMA IncSmall ==
  ASSUME NEW i \in Nat, i + 1 < Word
  PROVE  WrappingInc(i) = i + 1
  BY SpscAssumption, ModSmall DEF WrappingInc

\* Below the top of the range the test of try_push is the test it looks like.
LEMMA FullSmall ==
  ASSUME NEW f \in Nat, f + Cap < Word
  PROVE  IsFull(f) <=> f + Cap <= rear
  BY SpscAssumption, ModSmall DEF IsFull

\* What the invariant says of the indices a step is about to use: none is near the top
\* of its range, and whoever touches the ring still holds a reference to it.
LEMMA Bounds ==
  ASSUME NoWrap, IInv
  PROVE  /\ Len(log) \in Nat /\ Len(received) \in Nat
         /\ Len(log) <= MaxCalls
         /\ strong # 0 => /\ rear + Cap < Word /\ rearMem + Cap < Word /\ front + Cap < Word
                          /\ frontMem + Cap < Word /\ shadowFront + Cap < Word
         /\ spc \notin {"gone", "wake1", "wake2", "wake3"} => strong # 0
         /\ rpc # "gone" => strong # 0
         /\ spc = "publish" => WrappingInc(rear) = rear + 1
         /\ rpc = "release" => WrappingInc(front) = front + 1
         /\ strong # 0 /\ rearMem # rear => WrappingInc(rearMem) = rearMem + 1
         /\ strong # 0 /\ frontMem # front => WrappingInc(frontMem) = frontMem + 1
         /\ strong # 0 => (IsFull(shadowFront) <=> shadowFront + Cap <= rear)
         /\ strong # 0 => (IsFull(frontMem) <=> frontMem + Cap <= rear)
  <1> USE SpscAssumption
  <1>1. /\ Len(log) \in Nat /\ Len(received) \in Nat /\ Len(log) <= MaxCalls
    BY DEF IInv, TypeOK, CallInv
  <1>2. strong # 0 => /\ rear + Cap < Word /\ rearMem + Cap < Word /\ front + Cap < Word
                     /\ frontMem + Cap < Word /\ shadowFront + Cap < Word
    BY <1>1 DEF IInv, TypeOK, IndexInv, NoWrap
  <1>3. /\ spc \notin {"gone", "wake1", "wake2", "wake3"} => strong # 0
        /\ rpc # "gone" => strong # 0
    BY DEF IInv, TypeOK, LifeInv, TxHeld, RxHeld
  <1>4. /\ spc = "publish" => WrappingInc(rear) = rear + 1
        /\ rpc = "release" => WrappingInc(front) = front + 1
        /\ strong # 0 /\ rearMem # rear => WrappingInc(rearMem) = rearMem + 1
        /\ strong # 0 /\ frontMem # front => WrappingInc(frontMem) = frontMem + 1
    BY <1>2, <1>3, IncSmall DEF IInv, TypeOK
  <1>5. strong # 0 => (IsFull(shadowFront) <=> shadowFront + Cap <= rear)
    BY <1>2, FullSmall DEF IInv, TypeOK
  <1>6. strong # 0 => (IsFull(frontMem) <=> frontMem + Cap <= rear)
    BY <1>2, FullSmall DEF IInv, TypeOK
  <1> QED BY <1>1, <1>2, <1>3, <1>4, <1>5, <1>6

\* effective_index names an allocated slot.
LEMMA IndexRange ==
  ASSUME NEW i \in Nat
  PROVE  effective_index(i) \in 0..NumSlots - 1
  BY SpscAssumption, ModRange DEF effective_index

\* Indices less than a ring apart have different slots.
LEMMA IndexDiff ==
  ASSUME NEW i \in Nat, NEW j \in Nat, i < j, j - i < NumSlots
  PROVE  effective_index(i) # effective_index(j)
  <1>1. NumSlots \in Nat \ {0} BY SpscAssumption
  <1> QED BY <1>1, ModDiff DEF effective_index

\* The reference count keeps agreeing with the program counters.
LEMMA LifeStep ==
  ASSUME NoWrap, IInv, [Next]_vars
  PROVE  LifeInv'
  <1> USE DEF vars, ringVars, awVars, sVars, rVars, hist, TypeOK, LifeInv, TxHeld, RxHeld, SpcS, RpcS
  <1>0. TypeOK /\ LifeInv BY DEF IInv
  <1>1. ASSUME NEW s \in BOOLEAN, S_Call(s) PROVE LifeInv'
    BY <1>0, <1>1 DEF S_Call
  <1>2. CASE S_Check BY <1>0, <1>2 DEF S_Check
  <1>3. CASE S_TryPush BY <1>0, <1>3 DEF S_TryPush, IsFull
  <1>4. CASE S_Write BY <1>0, <1>4 DEF S_Write
  <1>5. CASE S_Publish BY <1>0, <1>5 DEF S_Publish, WrappingInc
  <1>6. CASE S_WakeLoad BY <1>0, <1>6 DEF S_WakeLoad
  <1>7. CASE S_WakeWrite BY <1>0, <1>7 DEF S_WakeWrite, DrainS
  <1>8. CASE S_WakeStore BY <1>0, <1>8 DEF S_WakeStore, DrainS
  <1>9. CASE S_DecRef BY <1>0, <1>9 DEF S_DecRef, DropRing, DrainS
  <1>10. CASE S_Drop BY <1>0, <1>10 DEF S_Drop
  <1>11. CASE R_Wake BY <1>0, <1>11 DEF R_Wake
  <1>12. CASE R_OtherWake BY <1>0, <1>12 DEF R_OtherWake
  <1>13. CASE R_Poll BY <1>0, <1>13 DEF R_Poll
  <1>14. CASE R_ResetLoad BY <1>0, <1>14 DEF R_ResetLoad, AfterReset
  <1>15. CASE R_ResetRead BY <1>0, <1>15 DEF R_ResetRead, DrainR
  <1>16. CASE R_ResetStore BY <1>0, <1>16 DEF R_ResetStore, AfterReset, DrainR
  <1>17. CASE R_TryPop BY <1>0, <1>17 DEF R_TryPop
  <1>18. CASE R_Read BY <1>0, <1>18 DEF R_Read
  <1>19. CASE R_Release BY <1>0, <1>19 DEF R_Release, WrappingInc
  <1>20. CASE R_Again BY <1>0, <1>20 DEF R_Again
  <1>21. CASE R_Empty BY <1>0, <1>21 DEF R_Empty
  <1>22. CASE R_Drop BY <1>0, <1>22 DEF R_Drop
  <1>23. CASE R_DecRef BY <1>0, <1>23 DEF R_DecRef, DropRing, DrainR
  <1>24. CASE FlushS BY <1>0, <1>24 DEF FlushS, WrappingInc
  <1>25. CASE FlushR BY <1>0, <1>25 DEF FlushR, WrappingInc
  <1>26. CASE UNCHANGED vars BY <1>0, <1>26
  <1> QED
    BY <1>1, <1>2, <1>3, <1>4, <1>5, <1>6, <1>7, <1>8, <1>9, <1>10, <1>11, <1>12, <1>13,
       <1>14, <1>15, <1>16, <1>17, <1>18, <1>19, <1>20, <1>21, <1>22, <1>23, <1>24, <1>25, <1>26
    DEF Next, SenderStep, ReceiverStep

\* wakeup and reset keep excluding each other.
LEMMA AwakenerStep ==
  ASSUME NoWrap, IInv, [Next]_vars
  PROVE  AwakenerInv'
  <1> USE DEF vars, ringVars, awVars, sVars, rVars, hist, TypeOK, AwakenerInv, SpcS, RpcS
  <1>0. TypeOK /\ AwakenerInv BY DEF IInv
  <1>1. ASSUME NEW s \in BOOLEAN, S_Call(s) PROVE AwakenerInv'
    BY <1>0, <1>1 DEF S_Call
  <1>2. CASE S_Check BY <1>0, <1>2 DEF S_Check
  <1>3. CASE S_TryPush BY <1>0, <1>3 DEF S_TryPush, IsFull
  <1>4. CASE S_Write BY <1>0, <1>4 DEF S_Write
  <1>5. CASE S_Publish BY <1>0, <1>5 DEF S_Publish, WrappingInc
  <1>6. CASE S_WakeLoad BY <1>0, <1>6 DEF S_WakeLoad
  <1>7. CASE S_WakeWrite BY <1>0, <1>7 DEF S_WakeWrite, DrainS
  <1>8. CASE S_WakeStore BY <1>0, <1>8 DEF S_WakeStore, DrainS
  <1>9. CASE S_DecRef BY <1>0, <1>9 DEF S_DecRef, DropRing, DrainS
  <1>10. CASE S_Drop BY <1>0, <1>10 DEF S_Drop
  <1>11. CASE R_Wake BY <1>0, <1>11 DEF R_Wake
  <1>12. CASE R_OtherWake BY <1>0, <1>12 DEF R_OtherWake
  <1>13. CASE R_Poll BY <1>0, <1>13 DEF R_Poll
  <1>14. CASE R_ResetLoad BY <1>0, <1>14 DEF R_ResetLoad, AfterReset
  <1>15. CASE R_ResetRead BY <1>0, <1>15 DEF R_ResetRead, DrainR
  <1>16. CASE R_ResetStore BY <1>0, <1>16 DEF R_ResetStore, AfterReset, DrainR
  <1>17. CASE R_TryPop BY <1>0, <1>17 DEF R_TryPop
  <1>18. CASE R_Read BY <1>0, <1>18 DEF R_Read
  <1>19. CASE R_Release BY <1>0, <1>19 DEF R_Release, WrappingInc
  <1>20. CASE R_Again BY <1>0, <1>20 DEF R_Again
  <1>21. CASE R_Empty BY <1>0, <1>21 DEF R_Empty
  <1>22. CASE R_Drop BY <1>0, <1>22 DEF R_Drop
  <1>23. CASE R_DecRef BY <1>0, <1>23 DEF R_DecRef, DropRing, DrainR
  <1>24. CASE FlushS BY <1>0, <1>24 DEF FlushS, WrappingInc
  <1>25. CASE FlushR BY <1>0, <1>25 DEF FlushR, WrappingInc
  <1>26. CASE UNCHANGED vars BY <1>0, <1>26
  <1> QED
    BY <1>1, <1>2, <1>3, <1>4, <1>5, <1>6, <1>7, <1>8, <1>9, <1>10, <1>11, <1>12, <1>13,
       <1>14, <1>15, <1>16, <1>17, <1>18, <1>19, <1>20, <1>21, <1>22, <1>23, <1>24, <1>25, <1>26
    DEF Next, SenderStep, ReceiverStep

\* try_push and try_pop, deciding on cached indices, keep the indices in order.
LEMMA IndexStep ==
  ASSUME NoWrap, IInv, [Next]_vars
  PROVE  IndexInv'
  <1> USE DEF vars, ringVars, awVars, sVars, rVars, hist, TypeOK, LifeInv, TxHeld, RxHeld, IndexInv, CallInv, SpcS, RpcS
  <1>0. TypeOK /\ LifeInv /\ IndexInv /\ CallInv BY DEF IInv
  <1>1. ASSUME NEW s \in BOOLEAN, S_Call(s) PROVE IndexInv'
    BY <1>0, <1>1 DEF S_Call
  <1>2. CASE S_Check BY <1>0, <1>2 DEF S_Check
  <1>3. CASE S_TryPush
    BY <1>0, <1>3, Bounds, SpscAssumption DEF S_TryPush
  <1>4. CASE S_Write BY <1>0, <1>4 DEF S_Write
  <1>5. CASE S_Publish
    BY <1>0, <1>5, Bounds, SpscAssumption DEF S_Publish
  <1>6. CASE S_WakeLoad BY <1>0, <1>6 DEF S_WakeLoad
  <1>7. CASE S_WakeWrite BY <1>0, <1>7 DEF S_WakeWrite, DrainS
  <1>8. CASE S_WakeStore BY <1>0, <1>8 DEF S_WakeStore, DrainS
  <1>9. CASE S_DecRef BY <1>0, <1>9 DEF S_DecRef, DropRing, DrainS
  <1>10. CASE S_Drop BY <1>0, <1>10 DEF S_Drop
  <1>11. CASE R_Wake BY <1>0, <1>11 DEF R_Wake
  <1>12. CASE R_OtherWake BY <1>0, <1>12 DEF R_OtherWake
  <1>13. CASE R_Poll BY <1>0, <1>13 DEF R_Poll
  <1>14. CASE R_ResetLoad BY <1>0, <1>14 DEF R_ResetLoad, AfterReset
  <1>15. CASE R_ResetRead BY <1>0, <1>15 DEF R_ResetRead, DrainR
  <1>16. CASE R_ResetStore BY <1>0, <1>16 DEF R_ResetStore, AfterReset, DrainR
  <1>17. CASE R_TryPop BY <1>0, <1>17 DEF R_TryPop
  <1>18. CASE R_Read BY <1>0, <1>18 DEF R_Read
  <1>19. CASE R_Release
    BY <1>0, <1>19, Bounds, SpscAssumption DEF R_Release
  <1>20. CASE R_Again BY <1>0, <1>20 DEF R_Again
  <1>21. CASE R_Empty BY <1>0, <1>21 DEF R_Empty
  <1>22. CASE R_Drop BY <1>0, <1>22 DEF R_Drop
  <1>23. CASE R_DecRef BY <1>0, <1>23 DEF R_DecRef, DropRing, DrainR
  <1>24. CASE FlushS
    BY <1>0, <1>24, Bounds, SpscAssumption DEF FlushS
  <1>25. CASE FlushR
    BY <1>0, <1>25, Bounds, SpscAssumption DEF FlushR
  <1>26. CASE UNCHANGED vars BY <1>0, <1>26
  <1> QED
    BY <1>1, <1>2, <1>3, <1>4, <1>5, <1>6, <1>7, <1>8, <1>9, <1>10, <1>11, <1>12, <1>13,
       <1>14, <1>15, <1>16, <1>17, <1>18, <1>19, <1>20, <1>21, <1>22, <1>23, <1>24, <1>25, <1>26
    DEF Next, SenderStep, ReceiverStep

\* A call in progress holds a message that has not entered the ring.
LEMMA CallStep ==
  ASSUME NoWrap, IInv, [Next]_vars
  PROVE  CallInv'
  <1> USE DEF vars, ringVars, awVars, sVars, rVars, hist, TypeOK, CallInv, SpcS, RpcS, Msgs
  <1>0. TypeOK /\ LifeInv /\ IndexInv /\ CallInv BY DEF IInv
  <1>1. ASSUME NEW s \in BOOLEAN, S_Call(s) PROVE CallInv'
    BY <1>0, <1>1, SpscAssumption DEF S_Call
  <1>2. CASE S_Check BY <1>0, <1>2 DEF S_Check
  <1>3. CASE S_TryPush BY <1>0, <1>3 DEF S_TryPush, IsFull
  <1>4. CASE S_Write BY <1>0, <1>4 DEF S_Write
  <1>5. CASE S_Publish
    BY <1>0, <1>5, SpscAssumption DEF S_Publish, TypeOK, CallInv, Msgs
  <1>6. CASE S_WakeLoad BY <1>0, <1>6 DEF S_WakeLoad
  <1>7. CASE S_WakeWrite BY <1>0, <1>7 DEF S_WakeWrite, DrainS
  <1>8. CASE S_WakeStore BY <1>0, <1>8 DEF S_WakeStore, DrainS
  <1>9. CASE S_DecRef BY <1>0, <1>9 DEF S_DecRef, DropRing, DrainS
  <1>10. CASE S_Drop BY <1>0, <1>10 DEF S_Drop
  <1>11. CASE R_Wake BY <1>0, <1>11 DEF R_Wake
  <1>12. CASE R_OtherWake BY <1>0, <1>12 DEF R_OtherWake
  <1>13. CASE R_Poll BY <1>0, <1>13 DEF R_Poll
  <1>14. CASE R_ResetLoad BY <1>0, <1>14 DEF R_ResetLoad, AfterReset
  <1>15. CASE R_ResetRead BY <1>0, <1>15 DEF R_ResetRead, DrainR
  <1>16. CASE R_ResetStore BY <1>0, <1>16 DEF R_ResetStore, AfterReset, DrainR
  <1>17. CASE R_TryPop BY <1>0, <1>17 DEF R_TryPop
  <1>18. CASE R_Read BY <1>0, <1>18 DEF R_Read
  <1>19. CASE R_Release BY <1>0, <1>19 DEF R_Release, WrappingInc
  <1>20. CASE R_Again BY <1>0, <1>20 DEF R_Again
  <1>21. CASE R_Empty BY <1>0, <1>21 DEF R_Empty
  <1>22. CASE R_Drop BY <1>0, <1>22 DEF R_Drop
  <1>23. CASE R_DecRef BY <1>0, <1>23 DEF R_DecRef, DropRing, DrainR
  <1>24. CASE FlushS BY <1>0, <1>24 DEF FlushS, WrappingInc
  <1>25. CASE FlushR BY <1>0, <1>25 DEF FlushR, WrappingInc
  <1>26. CASE UNCHANGED vars BY <1>0, <1>26
  <1> QED
    BY <1>1, <1>2, <1>3, <1>4, <1>5, <1>6, <1>7, <1>8, <1>9, <1>10, <1>11, <1>12, <1>13,
       <1>14, <1>15, <1>16, <1>17, <1>18, <1>19, <1>20, <1>21, <1>22, <1>23, <1>24, <1>25, <1>26
    DEF Next, SenderStep, ReceiverStep

\* No unread slot is overwritten: the slot written is a ring away from every unread one.
LEMMA SlotStep ==
  ASSUME NoWrap, IInv, [Next]_vars
  PROVE  SlotInv'
  <1> USE DEF vars, ringVars, awVars, sVars, rVars, hist, TypeOK, LifeInv, TxHeld, RxHeld, IndexInv, SlotInv, SpcS, RpcS, effective_index
  <1>0. TypeOK /\ LifeInv /\ IndexInv /\ SlotInv BY DEF IInv
  <1>1. ASSUME NEW s \in BOOLEAN, S_Call(s) PROVE SlotInv'
    BY <1>0, <1>1 DEF S_Call
  <1>2. CASE S_Check BY <1>0, <1>2 DEF S_Check
  <1>3. CASE S_TryPush BY <1>0, <1>3 DEF S_TryPush, IsFull
  <1>4. CASE S_Write
    <2>1. strong # 0 BY <1>0, <1>4, Bounds DEF S_Write
    <2>2. rear - front < NumSlots /\ rear \in Nat /\ front \in Nat
      BY <1>0, <2>1, <1>4, SpscAssumption DEF S_Write, TypeOK, IndexInv
    <2>7. effective_index(rear) \in 0..NumSlots - 1 BY <2>2, IndexRange
    <2>3. slots' = [slots EXCEPT ![effective_index(rear)] = msg] /\ UNCHANGED <<front, rear, log, msg, strong>>
      BY <1>4 DEF S_Write
    <2>4. ASSUME NEW i \in front .. rear - 1
          PROVE  effective_index(i) \in 0..NumSlots - 1 /\ effective_index(i) # effective_index(rear)
      <3>1. i \in Nat /\ i < rear /\ rear - i < NumSlots BY <2>2, SpscAssumption
      <3> QED BY <3>1, <2>2, IndexDiff, IndexRange
    <2>5. \A i \in front .. rear - 1 : slots'[effective_index(i)] = log[i + 1]
      BY <1>0, <2>1, <2>3, <2>4 DEF TypeOK, SlotInv
    <2>6. slots'[effective_index(rear)] = msg
      BY <1>0, <2>7, <2>3 DEF TypeOK
    <2> QED BY <2>3, <2>5, <2>6 DEF SlotInv, effective_index
  <1>5. CASE S_Publish
    <2>1. strong # 0 /\ rear' = rear + 1 BY <1>0, <1>5, Bounds DEF S_Publish
    <2>2. rear = Len(log) /\ log' = Append(log, msg) /\ UNCHANGED <<slots, front, strong>> /\ spc' = "wake1"
      BY <1>0, <2>1, <1>5 DEF S_Publish, IndexInv
    <2>3. rear \in Nat /\ front \in Nat /\ log \in Seq(Msgs) BY <1>0 DEF TypeOK
    <2>4. ASSUME NEW i \in front .. rear' - 1 PROVE slots[effective_index(i)] = log'[i + 1]
      <3>1. CASE i = rear
        BY <3>1, <1>0, <2>1, <2>2, <2>3, <1>5 DEF S_Publish, SlotInv
      <3>2. CASE i # rear
        <4>1. i \in front .. rear - 1 BY <3>2, <2>1, <2>3
        <4>2. i + 1 \in 1 .. Len(log) BY <4>1, <2>2, <2>3
        <4>3. log'[i + 1] = log[i + 1] BY <4>2, <2>2, <2>3
        <4> QED BY <4>1, <4>3, <1>0, <2>1 DEF SlotInv
      <3> QED BY <3>1, <3>2
    <2> QED BY <2>2, <2>4 DEF SlotInv, effective_index
  <1>6. CASE S_WakeLoad BY <1>0, <1>6 DEF S_WakeLoad
  <1>7. CASE S_WakeWrite BY <1>0, <1>7 DEF S_WakeWrite, DrainS
  <1>8. CASE S_WakeStore BY <1>0, <1>8 DEF S_WakeStore, DrainS
  <1>9. CASE S_DecRef BY <1>0, <1>9 DEF S_DecRef, DropRing, DrainS
  <1>10. CASE S_Drop BY <1>0, <1>10 DEF S_Drop
  <1>11. CASE R_Wake BY <1>0, <1>11 DEF R_Wake
  <1>12. CASE R_OtherWake BY <1>0, <1>12 DEF R_OtherWake
  <1>13. CASE R_Poll BY <1>0, <1>13 DEF R_Poll
  <1>14. CASE R_ResetLoad BY <1>0, <1>14 DEF R_ResetLoad, AfterReset
  <1>15. CASE R_ResetRead BY <1>0, <1>15 DEF R_ResetRead, DrainR
  <1>16. CASE R_ResetStore BY <1>0, <1>16 DEF R_ResetStore, AfterReset, DrainR
  <1>17. CASE R_TryPop BY <1>0, <1>17 DEF R_TryPop
  <1>18. CASE R_Read BY <1>0, <1>18 DEF R_Read
  <1>19. CASE R_Release
    <2>1. strong # 0 /\ front' = front + 1 BY <1>0, <1>19, Bounds DEF R_Release
    <2> QED BY <1>0, <1>19, <2>1 DEF R_Release, TypeOK, SlotInv, effective_index
  <1>20. CASE R_Again BY <1>0, <1>20 DEF R_Again
  <1>21. CASE R_Empty BY <1>0, <1>21 DEF R_Empty
  <1>22. CASE R_Drop BY <1>0, <1>22 DEF R_Drop
  <1>23. CASE R_DecRef BY <1>0, <1>23 DEF R_DecRef, DropRing, DrainR
  <1>24. CASE FlushS BY <1>0, <1>24 DEF FlushS, WrappingInc
  <1>25. CASE FlushR BY <1>0, <1>25 DEF FlushR, WrappingInc
  <1>26. CASE UNCHANGED vars BY <1>0, <1>26
  <1> QED
    BY <1>1, <1>2, <1>3, <1>4, <1>5, <1>6, <1>7, <1>8, <1>9, <1>10, <1>11, <1>12, <1>13,
       <1>14, <1>15, <1>16, <1>17, <1>18, <1>19, <1>20, <1>21, <1>22, <1>23, <1>24, <1>25, <1>26
    DEF Next, SenderStep, ReceiverStep

\* What try_pop reads is the next message in the order of entry.
LEMMA FifoStep ==
  ASSUME NoWrap, IInv, [Next]_vars
  PROVE  Fifo'
  <1> USE DEF vars, ringVars, awVars, sVars, rVars, hist, Fifo
  <1>0. TypeOK /\ LifeInv /\ IndexInv /\ SlotInv /\ Fifo BY DEF IInv
  <1>1. ASSUME NEW s \in BOOLEAN, S_Call(s) PROVE Fifo'
    BY <1>0, <1>1 DEF S_Call
  <1>2. CASE S_Check BY <1>0, <1>2 DEF S_Check
  <1>3. CASE S_TryPush BY <1>0, <1>3 DEF S_TryPush, IsFull
  <1>4. CASE S_Write BY <1>0, <1>4 DEF S_Write
  <1>5. CASE S_Publish
    BY <1>0, <1>5 DEF S_Publish, TypeOK, Fifo
  <1>6. CASE S_WakeLoad BY <1>0, <1>6 DEF S_WakeLoad
  <1>7. CASE S_WakeWrite BY <1>0, <1>7 DEF S_WakeWrite, DrainS
  <1>8. CASE S_WakeStore BY <1>0, <1>8 DEF S_WakeStore, DrainS
  <1>9. CASE S_DecRef BY <1>0, <1>9 DEF S_DecRef, DropRing, DrainS
  <1>10. CASE S_Drop BY <1>0, <1>10 DEF S_Drop
  <1>11. CASE R_Wake BY <1>0, <1>11 DEF R_Wake
  <1>12. CASE R_OtherWake BY <1>0, <1>12 DEF R_OtherWake
  <1>13. CASE R_Poll BY <1>0, <1>13 DEF R_Poll
  <1>14. CASE R_ResetLoad BY <1>0, <1>14 DEF R_ResetLoad, AfterReset
  <1>15. CASE R_ResetRead BY <1>0, <1>15 DEF R_ResetRead, DrainR
  <1>16. CASE R_ResetStore BY <1>0, <1>16 DEF R_ResetStore, AfterReset, DrainR
  <1>17. CASE R_TryPop BY <1>0, <1>17 DEF R_TryPop
  <1>18. CASE R_Read
    <2>1. strong # 0 BY <1>0, <1>18, Bounds DEF R_Read
    <2>2. front < rear /\ front = Len(received) /\ rear = Len(log)
      BY <1>0, <2>1, <1>18 DEF R_Read, IndexInv, TypeOK
    <2>3. slots[effective_index(front)] = log[front + 1]
      <3>1. front \in Nat /\ rear \in Nat BY <1>0 DEF TypeOK
      <3>2. front \in front..rear-1 BY <2>2, <3>1
      <3> QED BY <1>0, <2>1, <3>2, Zenon DEF SlotInv
    <2>4. received' = Append(received, log[front + 1]) /\ log' = log
      BY <2>3, <1>18 DEF R_Read
    <2> QED BY <1>0, <2>2, <2>4 DEF Fifo, TypeOK
  <1>19. CASE R_Release BY <1>0, <1>19 DEF R_Release, WrappingInc
  <1>20. CASE R_Again BY <1>0, <1>20 DEF R_Again
  <1>21. CASE R_Empty BY <1>0, <1>21 DEF R_Empty
  <1>22. CASE R_Drop BY <1>0, <1>22 DEF R_Drop
  <1>23. CASE R_DecRef BY <1>0, <1>23 DEF R_DecRef, DropRing, DrainR
  <1>24. CASE FlushS BY <1>0, <1>24 DEF FlushS, WrappingInc
  <1>25. CASE FlushR BY <1>0, <1>25 DEF FlushR, WrappingInc
  <1>26. CASE UNCHANGED vars BY <1>0, <1>26
  <1> QED
    BY <1>1, <1>2, <1>3, <1>4, <1>5, <1>6, <1>7, <1>8, <1>9, <1>10, <1>11, <1>12, <1>13,
       <1>14, <1>15, <1>16, <1>17, <1>18, <1>19, <1>20, <1>21, <1>22, <1>23, <1>24, <1>25, <1>26
    DEF Next, SenderStep, ReceiverStep

\* wrapping_add stays in range.
LEMMA IncType ==
  ASSUME NEW i \in 0..Word - 1
  PROVE  WrappingInc(i) \in 0..Word - 1
  BY SpscAssumption, ModRange DEF WrappingInc

\* RingBuffer::drop finds only messages in the slots it pops.
LEMMA DropRingType ==
  ASSUME NoWrap, IInv, DropRing, strong # 0
  PROVE  /\ dropped' \subseteq Msgs
         /\ front' = rear /\ frontMem' = rear /\ rearMem' = rear /\ shadowRear' = rear
  <1>1. rear \in Nat /\ front \in Nat /\ front <= rear /\ rear = Len(log) /\ rear < Word
    BY SpscAssumption DEF IInv, TypeOK, IndexInv
  <1>2. (rear - front) % Word = rear - front
    BY <1>1, SpscAssumption, ModSmall
  <1>3. ASSUME NEW k \in 0 .. ((rear - front) % Word) - 1
        PROVE  slots[effective_index((front + k) % Word)] \in Msgs
    <2>1. k \in 0 .. rear - front - 1 BY <1>2
    <2>2. (front + k) % Word = front + k
      BY <2>1, <1>1, SpscAssumption, ModSmall
    <2>3. slots[effective_index(front + k)] = log[front + k + 1]
      BY <2>1, <1>1 DEF IInv, SlotInv
    <2>4. log[front + k + 1] \in Msgs BY <2>1, <1>1 DEF IInv, TypeOK
    <2> QED BY <2>2, <2>3, <2>4
  <1> QED BY <1>3 DEF DropRing, IInv, TypeOK

\* Every step keeps every variable in its type; try_pop never returns an unwritten slot.
LEMMA TypeStep ==
  ASSUME NoWrap, IInv, [Next]_vars
  PROVE  TypeOK'
  <1> USE DEF vars, ringVars, awVars, sVars, rVars, hist, TypeOK, SpcS, RpcS, Uninit
  <1>0. TypeOK /\ LifeInv /\ IndexInv /\ SlotInv /\ CallInv BY DEF IInv
  <1>1. ASSUME NEW s \in BOOLEAN, S_Call(s) PROVE TypeOK'
    BY <1>0, <1>1, SpscAssumption DEF S_Call, Msgs
  <1>2. CASE S_Check
    BY <1>0, <1>2 DEF S_Check, TypeOK, CallInv, SpcS
  <1>3. CASE S_TryPush
    BY <1>0, <1>3 DEF S_TryPush, TypeOK, CallInv, SpcS
  <1>4. CASE S_Write
    <2>1. effective_index(rear) \in 0..NumSlots - 1
      BY <1>0, SpscAssumption, ModRange DEF TypeOK, effective_index
    <2>2. msg \in Msgs BY <1>0, <1>4 DEF S_Write, CallInv
    <2> QED BY <1>0, <2>1, <2>2, <1>4 DEF S_Write, TypeOK, SpcS
  <1>5. CASE S_Publish
    <2>1. rear' \in 0..Word - 1 /\ rearMem' \in 0..Word - 1
      BY <1>0, <1>5, IncType DEF S_Publish, TypeOK
    <2>2. log' \in Seq(Msgs)
      BY <1>0, <1>5 DEF S_Publish, TypeOK, CallInv
    <2> QED BY <1>0, <2>1, <2>2, <1>5 DEF S_Publish, TypeOK, SpcS
  <1>6. CASE S_WakeLoad BY <1>0, <1>6 DEF S_WakeLoad
  <1>7. CASE S_WakeWrite BY <1>0, <1>7 DEF S_WakeWrite, DrainS
  <1>8. CASE S_WakeStore BY <1>0, <1>8 DEF S_WakeStore, DrainS
  <1>9. CASE S_DecRef
    <2>1. CASE strong = 1 BY <1>0, <2>1, <1>9, DropRingType DEF S_DecRef, TypeOK, SpcS
    <2>2. CASE strong # 1 BY <1>0, <2>2, <1>9, Bounds DEF S_DecRef, DrainS, TypeOK, SpcS
    <2> QED BY <2>1, <2>2
  <1>10. CASE S_Drop BY <1>0, <1>10 DEF S_Drop
  <1>11. CASE R_Wake BY <1>0, <1>11 DEF R_Wake
  <1>12. CASE R_OtherWake BY <1>0, <1>12 DEF R_OtherWake
  <1>13. CASE R_Poll BY <1>0, <1>13 DEF R_Poll
  <1>14. CASE R_ResetLoad BY <1>0, <1>14 DEF R_ResetLoad, AfterReset
  <1>15. CASE R_ResetRead BY <1>0, <1>15 DEF R_ResetRead, DrainR
  <1>16. CASE R_ResetStore BY <1>0, <1>16 DEF R_ResetStore, AfterReset, DrainR
  <1>17. CASE R_TryPop BY <1>0, <1>17 DEF R_TryPop
  <1>18. CASE R_Read
    <2>1. strong # 0 BY <1>0, <1>18, Bounds DEF R_Read
    <2>2. front < rear /\ rear = Len(log)
      BY <1>0, <2>1, <1>18 DEF R_Read, IndexInv, TypeOK
    <2>3. slots[effective_index(front)] = log[front + 1]
      BY <1>0, <2>1, <2>2 DEF SlotInv, TypeOK
    <2>4. log[front + 1] \in Msgs BY <1>0, <2>2 DEF TypeOK
    <2> QED BY <1>0, <2>3, <2>4, <1>18 DEF R_Read, TypeOK, RpcS
  <1>19. CASE R_Release
    BY <1>0, <1>19, IncType DEF R_Release, TypeOK, RpcS
  <1>20. CASE R_Again BY <1>0, <1>20 DEF R_Again
  <1>21. CASE R_Empty BY <1>0, <1>21 DEF R_Empty
  <1>22. CASE R_Drop BY <1>0, <1>22 DEF R_Drop
  <1>23. CASE R_DecRef
    <2>1. CASE strong = 1 BY <1>0, <2>1, <1>23, DropRingType DEF R_DecRef, TypeOK, RpcS
    <2>2. CASE strong # 1 BY <1>0, <2>2, <1>23, Bounds DEF R_DecRef, DrainR, TypeOK, RpcS
    <2> QED BY <2>1, <2>2
  <1>24. CASE FlushS
    <2>1. rearMem' \in 0..Word - 1 BY <1>0, <1>24, IncType DEF FlushS
    <2> QED BY <1>0, <2>1, <1>24 DEF FlushS
  <1>25. CASE FlushR
    <2>1. frontMem' \in 0..Word - 1 BY <1>0, <1>25, IncType DEF FlushR
    <2> QED BY <1>0, <2>1, <1>25 DEF FlushR
  <1>26. CASE UNCHANGED vars BY <1>0, <1>26
  <1> QED
    BY <1>1, <1>2, <1>3, <1>4, <1>5, <1>6, <1>7, <1>8, <1>9, <1>10, <1>11, <1>12, <1>13,
       <1>14, <1>15, <1>16, <1>17, <1>18, <1>19, <1>20, <1>21, <1>22, <1>23, <1>24, <1>25, <1>26
    DEF Next, SenderStep, ReceiverStep

\* A receiver that has parked, or is about to, has been told of every message and of the
\* sender's going, or the sender is about to tell it.
LEMMA ParkStep ==
  ASSUME NoWrap, IInv, [Next]_vars
  PROVE  ParkInv'
  <1> USE DEF vars, ringVars, awVars, sVars, rVars, hist, TypeOK, LifeInv, TxHeld, RxHeld, ParkInv, IndexInv, AwakenerInv, SpcS, RpcS
  <1>0. TypeOK /\ LifeInv /\ ParkInv /\ IndexInv /\ AwakenerInv BY DEF IInv
  <1>1. ASSUME NEW s \in BOOLEAN, S_Call(s) PROVE ParkInv'
    BY <1>0, <1>1 DEF S_Call
  <1>2. CASE S_Check BY <1>0, <1>2 DEF S_Check
  <1>3. CASE S_TryPush BY <1>0, <1>3 DEF S_TryPush, IsFull
  <1>4. CASE S_Write BY <1>0, <1>4 DEF S_Write
  <1>5. CASE S_Publish BY <1>0, <1>5 DEF S_Publish, WrappingInc
  <1>6. CASE S_WakeLoad BY <1>0, <1>6 DEF S_WakeLoad
  <1>7. CASE S_WakeWrite BY <1>0, <1>7 DEF S_WakeWrite, DrainS
  <1>8. CASE S_WakeStore BY <1>0, <1>8 DEF S_WakeStore, DrainS
  <1>9. CASE S_DecRef BY <1>0, <1>9 DEF S_DecRef, DropRing, DrainS
  <1>10. CASE S_Drop BY <1>0, <1>10 DEF S_Drop
  <1>11. CASE R_Wake BY <1>0, <1>11 DEF R_Wake
  <1>12. CASE R_OtherWake BY <1>0, <1>12 DEF R_OtherWake
  <1>13. CASE R_Poll BY <1>0, <1>13 DEF R_Poll
  <1>14. CASE R_ResetLoad BY <1>0, <1>14 DEF R_ResetLoad, AfterReset
  <1>15. CASE R_ResetRead BY <1>0, <1>15 DEF R_ResetRead, DrainR
  <1>16. CASE R_ResetStore BY <1>0, <1>16 DEF R_ResetStore, AfterReset, DrainR
  <1>17. CASE R_TryPop BY <1>0, <1>17 DEF R_TryPop
  <1>18. CASE R_Read BY <1>0, <1>18 DEF R_Read
  <1>19. CASE R_Release BY <1>0, <1>19 DEF R_Release, WrappingInc
  <1>20. CASE R_Again BY <1>0, <1>20 DEF R_Again
  <1>21. CASE R_Empty BY <1>0, <1>21 DEF R_Empty
  <1>22. CASE R_Drop BY <1>0, <1>22 DEF R_Drop
  <1>23. CASE R_DecRef BY <1>0, <1>23 DEF R_DecRef, DropRing, DrainR
  <1>24. CASE FlushS BY <1>0, <1>24 DEF FlushS, WrappingInc
  <1>25. CASE FlushR BY <1>0, <1>25 DEF FlushR, WrappingInc
  <1>26. CASE UNCHANGED vars BY <1>0, <1>26
  <1> QED
    BY <1>1, <1>2, <1>3, <1>4, <1>5, <1>6, <1>7, <1>8, <1>9, <1>10, <1>11, <1>12, <1>13,
       <1>14, <1>15, <1>16, <1>17, <1>18, <1>19, <1>20, <1>21, <1>22, <1>23, <1>24, <1>25, <1>26
    DEF Next, SenderStep, ReceiverStep

\* The inductive invariant holds in every behaviour of the channel.
THEOREM SpscInvariance ==
  ASSUME NoWrap
  PROVE  Spec => []IInv
  <1>1. Init => IInv
    <2> SUFFICES ASSUME Init PROVE IInv OBVIOUS
    <2>1. buffered \in BOOLEAN /\ slots \in [0..NumSlots - 1 -> Msgs \cup {Uninit}]
      BY SpscAssumption DEF Init
    <2>2. log \in Seq(Msgs) /\ received \in Seq(Msgs) BY DEF Init
    <2>3. TypeOK BY <2>1, <2>2, SpscAssumption DEF Init, TypeOK, SpcS, RpcS
    <2>4. LifeInv /\ AwakenerInv /\ ParkInv BY DEF Init, LifeInv, AwakenerInv, ParkInv, TxHeld, RxHeld
    <2>5. IndexInv /\ CallInv /\ SlotInv /\ Fifo
      BY SpscAssumption DEF Init, IndexInv, CallInv, SlotInv, Fifo
    <2> QED BY <2>3, <2>4, <2>5 DEF IInv
  <1>2. IInv /\ [Next]_vars => IInv'
    BY TypeStep, LifeStep, AwakenerStep, IndexStep, CallStep, SlotStep, FifoStep, ParkStep DEF IInv
  <1> QED BY <1>1, <1>2, PTL DEF Spec

\* TypeOK: in particular no uninitialised slot is ever handed to the receiver.
THEOREM SpscTypeCorrect ==
  ASSUME NoWrap
  PROVE  Spec => []TypeOK
  <1>1. IInv => TypeOK BY DEF IInv
  <1> QED BY <1>1, SpscInvariance, PTL

\* Fifo: the receiver gets the messages in the order they entered the ring, for every
\* capacity and with or without store buffering.
THEOREM SpscFifo ==
  ASSUME NoWrap
  PROVE  Spec => []Fifo
  <1>1. IInv => Fifo BY DEF IInv
  <1> QED BY <1>1, SpscInvariance, PTL

\* AwakenerNeverBlocks: wakeup and reset never find the eventfd in the wrong state.
THEOREM SpscAwakener ==
  ASSUME NoWrap
  PROVE  Spec => []AwakenerNeverBlocks
  <1>1. IInv => AwakenerNeverBlocks BY DEF IInv, AwakenerInv, AwakenerNeverBlocks
  <1> QED BY <1>1, SpscInvariance, PTL

\* NoLostWakeup: with sequentially consistent index stores a parked receiver has been told.
THEOREM SpscNoLostWakeup ==
  ASSUME NoWrap
  PROVE  Spec => []NoLostWakeup
  <1>1. IInv => NoLostWakeup
    BY DEF IInv, TypeOK, LifeInv, ParkInv, NoLostWakeup, Told, TxHeld
  <1> QED BY <1>1, SpscInvariance, PTL

\* FullMeansFull: try_push refuses a message only if Cap messages are in the ring.
THEOREM SpscFull ==
  ASSUME NoWrap
  PROVE  Spec => FullMeansFull
  <1>1. ASSUME IInv, [Next]_vars, spc = "push", spc' \in {"idle", "check"}
        PROVE  (rear - frontMem) % Word >= Cap
    <2>1. S_TryPush /\ strong # 0
      BY <1>1, Bounds DEF Next, SenderStep, ReceiverStep, S_Call, S_Check, S_TryPush, S_Write, S_Publish,
         S_WakeLoad, S_WakeWrite, S_WakeStore, S_DecRef, S_Drop, R_Wake, R_OtherWake, R_Poll, R_ResetLoad,
         R_ResetRead, R_ResetStore, R_TryPop, R_Read, R_Release, R_Again, R_Empty, R_Drop, R_DecRef,
         FlushS, FlushR, vars, sVars
    <2>2. frontMem + Cap <= rear /\ rear \in Nat /\ frontMem \in Nat /\ rear < Word
      BY <1>1, <2>1, Bounds, SpscAssumption DEF S_TryPush, IInv, TypeOK, IndexInv
    <2>3. (rear - frontMem) % Word = rear - frontMem
      BY <2>2, ModSmall, SpscAssumption
    <2> QED BY <2>2, <2>3, SpscAssumption
  <1>2. IInv /\ [Next]_vars =>
          [spc = "push" /\ spc' \in {"idle", "check"} => (rear - frontMem) % Word >= Cap]_vars
    BY <1>1
  <1> QED BY <1>2, SpscInvariance, PTL DEF Spec, FullMeansFull

----------------------------------------------------------------------------
(* Where every message is.                                                 *)

\* A call holds its message, the latest, which is nowhere else; all earlier ones are
\* settled.
InCall == spc \in {"check", "push", "write", "publish"}
Settled == IF InCall THEN calls - 1 ELSE calls

\* Every settled message entered the ring, once, or was returned; the ring's drop took
\* what the task had not received.
OwnInv ==
    /\ InCall => msg = calls /\ calls >= 1
    /\ Got(log) \cup returned = 1..Settled
    /\ Got(log) \cap returned = {}
    /\ \A j, k \in DOMAIN log : log[j] = log[k] => j = k
    /\ dropped = IF strong = 0 THEN {log[k] : k \in Len(received) + 1 .. Len(log)} ELSE {}

\* The refinement mapping's queue and ends.
Queue == IF strong = 0 THEN <<>> ELSE SubSeq(log, Len(received) + 1, Len(log))
Ends == (IF sdrop /\ spc # "dec" THEN {} ELSE {"tx"}) \cup (IF rpc = "gone" THEN {} ELSE {"rx"})

\* Only these actions settle or move a message or drop an end.
LEMMA StepKinds ==
  ASSUME IInv, [Next]_vars
  PROVE  \/ \E s \in BOOLEAN : S_Call(s)
         \/ S_Check \/ S_TryPush \/ S_Publish \/ S_DecRef \/ R_Read \/ R_DecRef
         \/ /\ UNCHANGED <<calls, msg, log, received, returned, dropped, strong>>
            /\ InCall' = InCall /\ Ends' = Ends
  <1> USE DEF vars, ringVars, awVars, sVars, rVars, hist, InCall, Ends, LifeInv
  <1> DEFINE Same == /\ UNCHANGED <<calls, msg, log, received, returned, dropped, strong>>
                     /\ InCall' = InCall /\ Ends' = Ends
  <1>0. TypeOK /\ LifeInv BY DEF IInv
  <1>1. CASE S_Write BY <1>1 DEF S_Write
  <1>2. CASE S_WakeLoad BY <1>2 DEF S_WakeLoad
  <1>3. CASE S_WakeWrite BY <1>3 DEF S_WakeWrite
  <1>4. CASE S_WakeStore BY <1>4 DEF S_WakeStore
  <1>5. CASE S_Drop BY <1>0, <1>5 DEF S_Drop
  <1>6. CASE R_Wake BY <1>6 DEF R_Wake
  <1>7. CASE R_OtherWake BY <1>7 DEF R_OtherWake
  <1>8. CASE R_Poll BY <1>8 DEF R_Poll
  <1>9. CASE R_ResetLoad BY <1>9 DEF R_ResetLoad, AfterReset
  <1>10. CASE R_ResetRead BY <1>10 DEF R_ResetRead
  <1>11. CASE R_ResetStore BY <1>11 DEF R_ResetStore, AfterReset
  <1>12. CASE R_TryPop BY <1>12 DEF R_TryPop
  <1>13. CASE R_Release BY <1>13 DEF R_Release
  <1>14. CASE R_Again BY <1>14 DEF R_Again
  <1>15. CASE R_Empty BY <1>15 DEF R_Empty
  <1>16. CASE R_Drop BY <1>16 DEF R_Drop
  <1>17. CASE FlushS BY <1>17 DEF FlushS
  <1>18. CASE FlushR BY <1>18 DEF FlushR
  <1>19. CASE UNCHANGED vars BY <1>19
  <1> QED
    BY <1>1, <1>2, <1>3, <1>4, <1>5, <1>6, <1>7, <1>8, <1>9, <1>10, <1>11, <1>12, <1>13,
       <1>14, <1>15, <1>16, <1>17, <1>18, <1>19
    DEF Next, SenderStep, ReceiverStep

\* The ring's drop destroys exactly what entered the ring and was not received.
LEMMA DropExact ==
  ASSUME NoWrap, IInv, DropRing, strong = 1, rpc # "release"
  PROVE  dropped' = dropped \cup {log[k] : k \in Len(received) + 1 .. Len(log)}
  <1>1. /\ rear \in Nat /\ front \in Nat /\ front <= rear /\ rear = Len(log) /\ rear < Word
        /\ Len(received) = front
    BY SpscAssumption DEF IInv, TypeOK, IndexInv
  <1>2. (rear - front) % Word = rear - front
    BY <1>1, SpscAssumption, ModSmall
  <1>3. ASSUME NEW k \in 0 .. rear - front - 1
        PROVE  slots[effective_index((front + k) % Word)] = log[front + k + 1]
    <2>1. (front + k) % Word = front + k
      BY <1>1, SpscAssumption, ModSmall
    <2>2. front + k \in front .. rear - 1
      BY <1>1
    <2>3. \A i \in front .. rear - 1 : slots[effective_index(i)] = log[i + 1]
      BY DEF IInv, SlotInv
    <2> QED BY <2>1, <2>2, <2>3
  <1> DEFINE A == {slots[effective_index((front + k) % Word)] : k \in 0 .. ((rear - front) % Word) - 1}
             B == {log[k] : k \in Len(received) + 1 .. Len(log)}
  <1>4. A = {log[front + k + 1] : k \in 0 .. rear - front - 1}
    BY <1>2, <1>3
  <1>5. ASSUME NEW x PROVE x \in A <=> x \in B
    <2>1. ASSUME NEW k \in 0 .. rear - front - 1 PROVE front + k + 1 \in front + 1 .. rear
      BY <1>1
    <2>2. ASSUME NEW j \in front + 1 .. rear
          PROVE  j - front - 1 \in 0 .. rear - front - 1 /\ front + (j - front - 1) + 1 = j
      BY <1>1
    <2>3. B = {log[k] : k \in front + 1 .. rear} BY <1>1
    <2> HIDE DEF A, B
    <2>4. x \in A => x \in B BY <1>4, <2>1, <2>3
    <2>5. x \in B => x \in A
      <3> SUFFICES ASSUME x \in B PROVE x \in A OBVIOUS
      <3>1. PICK j \in front + 1 .. rear : x = log[j] BY <2>3
      <3> DEFINE m == j - front - 1
      <3>2. m \in 0 .. rear - front - 1 /\ front + m + 1 = j BY <2>2
      <3> HIDE DEF m
      <3> QED BY <1>4, <3>1, <3>2
    <2> QED BY <2>4, <2>5
  <1>6. A = B
    <2> HIDE DEF A, B
    <2> QED BY <1>5
  <1> QED BY <1>6 DEF DropRing

\* The messages of a longer log.
LEMMA GotAppend ==
  ASSUME NEW f \in Seq(Msgs), NEW x \in Msgs
  PROVE  /\ Len(f) \in Nat /\ DOMAIN f = 1..Len(f)
         /\ Append(f, x) \in Seq(Msgs) /\ Len(Append(f, x)) = Len(f) + 1
         /\ DOMAIN Append(f, x) = 1..Len(f) + 1
         /\ Append(f, x)[Len(f) + 1] = x /\ \A k \in 1..Len(f) : Append(f, x)[k] = f[k]
         /\ Got(Append(f, x)) = Got(f) \cup {x}
  <1> DEFINE g == Append(f, x)
             n == Len(f)
  <1>1. n \in Nat /\ DOMAIN f = 1..n BY LenProperties
  <1>2. g \in Seq(Msgs) /\ Len(g) = n + 1 /\ g[n + 1] = x /\ \A k \in 1..n : g[k] = f[k]
    BY AppendProperties
  <1>3. DOMAIN g = 1..n + 1 BY <1>2, LenProperties
  <1> HIDE DEF g, n
  <1>4. Got(g) = Got(f) \cup {x}
    <2>1. \A k \in DOMAIN g : (k \in DOMAIN f /\ g[k] = f[k]) \/ (k = n + 1 /\ g[k] = x)
      BY <1>1, <1>2, <1>3
    <2>2. \A k \in DOMAIN f : k \in DOMAIN g /\ g[k] = f[k] BY <1>1, <1>2, <1>3
    <2>3. n + 1 \in DOMAIN g BY <1>1, <1>3
    <2> QED BY <1>2, <2>1, <2>2, <2>3 DEF Got
  <1> QED BY <1>1, <1>2, <1>3, <1>4 DEF g, n

\* What the drop of one end does: nothing to the messages, or the end of the ring.
LEMMA DecRefFacts ==
  ASSUME NoWrap, IInv, S_DecRef \/ R_DecRef
  PROVE  /\ strong \in {1, 2} /\ strong' = strong - 1 /\ UNCHANGED <<calls, msg, log, received, returned>>
         /\ InCall' = InCall
         /\ strong = 1 => dropped' = dropped \cup {log[k] : k \in Len(received) + 1 .. Len(log)}
         /\ strong = 2 => dropped' = dropped
  <1>0. TypeOK /\ LifeInv BY DEF IInv
  <1>1. CASE S_DecRef
    <2>1. /\ strong \in {1, 2} /\ (strong = 1 => rpc # "release") /\ spc = "dec"
      BY <1>0, <1>1 DEF S_DecRef, TypeOK, LifeInv, TxHeld, RxHeld
    <2>2. strong = 1 => dropped' = dropped \cup {log[k] : k \in Len(received) + 1 .. Len(log)}
      BY <1>1, <2>1, DropExact DEF S_DecRef
    <2> QED BY <1>1, <2>1, <2>2 DEF S_DecRef, InCall
  <1>2. CASE R_DecRef
    <2>1. strong \in {1, 2} /\ rpc = "dec"
      BY <1>0, <1>2 DEF R_DecRef, TypeOK, LifeInv, TxHeld, RxHeld
    <2>2. strong = 1 => dropped' = dropped \cup {log[k] : k \in Len(received) + 1 .. Len(log)}
      BY <1>2, <2>1, DropExact DEF R_DecRef
    <2> QED BY <1>2, <2>1, <2>2 DEF R_DecRef, InCall, sVars
  <1> QED BY <1>1, <1>2

\* No step loses a message or has it twice.
LEMMA OwnStep ==
  ASSUME NoWrap, IInv, OwnInv, [Next]_vars
  PROVE  OwnInv'
  <1> USE DEF ringVars, awVars, sVars, rVars, hist
  <1>0. /\ TypeOK /\ LifeInv /\ IndexInv /\ CallInv /\ calls \in Nat
        /\ (InCall => msg = calls /\ calls >= 1 /\ strong # 0 /\ Settled = calls - 1)
        /\ (~InCall => Settled = calls)
    BY Bounds, SpscAssumption DEF IInv, TypeOK, OwnInv, InCall, Settled
  <1>1. ASSUME NEW s \in BOOLEAN, S_Call(s) PROVE OwnInv'
    <2>1. ~InCall /\ InCall' /\ calls' = calls + 1 /\ msg' = calls + 1
      BY <1>1 DEF S_Call, InCall
    <2>2. UNCHANGED <<log, received, returned, dropped, strong>> BY <1>1 DEF S_Call
    <2>3. Settled' = Settled BY <1>0, <2>1 DEF Settled
    <2>4. Got(log)' = Got(log) BY <2>2 DEF Got
    <2> QED BY <1>0, <2>1, <2>2, <2>3, <2>4 DEF OwnInv
  <1>2. CASE S_Check \/ S_TryPush
    <2>1. /\ InCall /\ UNCHANGED <<calls, msg, log, received, dropped, strong>>
          /\ (InCall' /\ returned' = returned) \/ (~InCall' /\ returned' = returned \cup {msg})
      BY <1>2 DEF S_Check, S_TryPush, InCall
    <2>2. Got(log)' = Got(log) BY <2>1 DEF Got
    <2>3. CASE InCall' /\ returned' = returned
      <3>1. Settled' = Settled BY <2>1, <2>3 DEF Settled
      <3> QED BY <2>1, <2>2, <2>3, <3>1 DEF OwnInv
    <2>4. CASE ~InCall' /\ returned' = returned \cup {msg}
      <3>1. Settled' = calls /\ msg = calls /\ Settled = calls - 1 /\ calls >= 1
        BY <1>0, <2>1, <2>4 DEF Settled
      <3>2. 1..calls = (1..calls - 1) \cup {calls} /\ calls \notin 1..calls - 1 BY <1>0, <3>1
      <3>3. Got(log) \cup returned = 1..calls - 1 /\ Got(log) \cap returned = {}
        BY <3>1 DEF OwnInv
      <3>4. Got(log)' \cup returned' = 1..Settled' /\ Got(log)' \cap returned' = {}
        BY <2>2, <2>4, <3>1, <3>2, <3>3
      <3> QED BY <2>1, <2>4, <3>4 DEF OwnInv
    <2> QED BY <2>1, <2>3, <2>4
  <1>3. CASE S_Publish
    <2>1. /\ InCall /\ ~InCall' /\ UNCHANGED <<calls, msg, received, returned, dropped, strong>>
          /\ log' = Append(log, msg) /\ msg \in Msgs /\ log \in Seq(Msgs)
      BY <1>0, <1>3 DEF S_Publish, InCall, CallInv, TypeOK
    <2>2. Settled' = calls /\ msg = calls /\ Settled = calls - 1 /\ calls >= 1 /\ strong # 0
      BY <1>0, <2>1 DEF Settled
    <2>3. 1..calls = (1..calls - 1) \cup {calls} /\ calls \notin 1..calls - 1 BY <1>0, <2>2
    <2>4. /\ Got(log) \cup returned = 1..calls - 1 /\ Got(log) \cap returned = {}
          /\ \A j, k \in DOMAIN log : log[j] = log[k] => j = k
          /\ dropped = {}
      BY <2>2 DEF OwnInv
    <2>5. /\ Len(log) \in Nat /\ DOMAIN log = 1..Len(log) /\ DOMAIN log' = 1..Len(log) + 1
          /\ log'[Len(log) + 1] = msg /\ \A k \in 1..Len(log) : log'[k] = log[k]
          /\ Got(log') = Got(log) \cup {msg}
      BY <2>1, GotAppend
    <2>6. Got(log)' = Got(log) \cup {msg} BY <2>5 DEF Got
    <2>7. Got(log)' \cup returned' = 1..Settled' /\ Got(log)' \cap returned' = {}
      BY <2>1, <2>2, <2>3, <2>4, <2>6
    <2>8. \A j, k \in DOMAIN log' : log'[j] = log'[k] => j = k
      <3>1. \A k \in DOMAIN log' : (k \in DOMAIN log /\ log'[k] = log[k]) \/ (k = Len(log) + 1 /\ log'[k] = msg)
        BY <2>5
      <3>2. \A k \in DOMAIN log : log[k] # msg BY <2>2, <2>3, <2>4 DEF Got
      <3> QED BY <2>4, <3>1, <3>2
    <2> QED BY <2>1, <2>2, <2>4, <2>7, <2>8 DEF OwnInv
  <1>4. CASE R_Read
    <2>1. /\ UNCHANGED <<calls, msg, log, returned, dropped, strong, spc>> /\ strong # 0
      BY <1>4, Bounds DEF R_Read
    <2>2. Settled' = Settled /\ InCall' = InCall /\ Got(log)' = Got(log)
      BY <2>1 DEF Settled, InCall, Got
    <2> QED BY <2>1, <2>2 DEF OwnInv
  <1>5. CASE S_DecRef \/ R_DecRef
    <2>1. /\ strong \in {1, 2} /\ strong' = strong - 1
          /\ UNCHANGED <<calls, msg, log, received, returned>> /\ InCall' = InCall
          /\ strong = 1 => dropped' = dropped \cup {log[k] : k \in Len(received) + 1 .. Len(log)}
          /\ strong = 2 => dropped' = dropped
      BY <1>5, DecRefFacts
    <2>2. Settled' = Settled /\ Got(log)' = Got(log) /\ dropped = {}
      BY <2>1 DEF Settled, Got, OwnInv
    <2>3. dropped' = IF strong' = 0 THEN {log[k] : k \in Len(received) + 1 .. Len(log)} ELSE {}
      BY <2>1, <2>2
    <2> QED BY <2>1, <2>2, <2>3 DEF OwnInv
  <1>6. CASE /\ UNCHANGED <<calls, msg, log, received, returned, dropped, strong>> /\ InCall' = InCall
    <2>1. Settled' = Settled /\ Got(log)' = Got(log) BY <1>6 DEF Settled, Got
    <2> QED BY <1>6, <2>1 DEF OwnInv
  <1> QED BY <1>1, <1>2, <1>3, <1>4, <1>5, <1>6, StepKinds

\* OwnInv holds in every behaviour of the channel.
THEOREM SpscOwnership ==
  ASSUME NoWrap
  PROVE  Spec => []OwnInv
  <1>1. Init => OwnInv
    <2> SUFFICES ASSUME Init PROVE OwnInv OBVIOUS
    <2>1. ~InCall /\ Settled = 0 /\ returned = {} /\ dropped = {} /\ strong = 2 /\ log = <<>>
      BY DEF Init, InCall, Settled
    <2>2. DOMAIN log = {} /\ Got(log) = {} BY <2>1 DEF Got
    <2> QED BY <2>1, <2>2 DEF OwnInv
  <1>2. IInv /\ OwnInv /\ [Next]_vars => OwnInv' BY OwnStep
  <1> QED BY <1>1, <1>2, SpscInvariance, PTL DEF Spec

\* ExactlyOnce: every message given to send or try_send ends with the task, back with the
\* caller, or destroyed with the ring, and in one of these places only, whichever end
\* goes first and at whatever point of the other's call.
THEOREM SpscExactlyOnce ==
  ASSUME NoWrap
  PROVE  Spec => []ExactlyOnce
  <1>1. IInv /\ OwnInv => ExactlyOnce
    <2> SUFFICES ASSUME IInv, OwnInv PROVE ExactlyOnce OBVIOUS
    <2> DEFINE m == Len(received)
               n == Len(log)
               Rest == {log[k] : k \in m + 1 .. n}
    <2>1. /\ m \in Nat /\ n \in Nat /\ m <= n /\ DOMAIN received = 1..m /\ DOMAIN log = 1..n
          /\ \A k \in 1..m : received[k] = log[k]
      BY LenProperties DEF IInv, TypeOK, Fifo
    <2>2. \A j, k \in 1..n : log[j] = log[k] => j = k BY <2>1 DEF OwnInv
    <2>3. Got(received) = {log[k] : k \in 1..m} /\ Got(log) = {log[k] : k \in 1..n} BY <2>1 DEF Got
    <2>4. dropped \subseteq Rest /\ (strong = 0 => dropped = Rest) BY DEF OwnInv
    <2>5. Got(log) \cup returned = 1..Settled /\ Got(log) \cap returned = {} BY DEF OwnInv
    <2> HIDE DEF m, n
    <2>6. \A k \in 1..m : k \in 1..n /\ k \notin m + 1 .. n BY <2>1
    <2>7. \A k \in m + 1 .. n : k \in 1..n BY <2>1
    <2>8. \A k \in 1..n : k \in 1..m \/ k \in m + 1 .. n BY <2>1
    <2>9. Got(log) = Got(received) \cup Rest BY <2>3, <2>6, <2>7, <2>8
    <2>10. Got(received) \cap Rest = {} BY <2>2, <2>3, <2>6, <2>7
    <2>11. \A j, k \in DOMAIN received : j # k => received[j] # received[k]
      BY <2>1, <2>2, <2>6
    <2>12. ASSUME spc = "gone", rpc = "gone" PROVE 1..calls = Got(received) \cup returned \cup dropped
      <3>1. strong = 0 /\ Settled = calls
        BY <2>12 DEF IInv, LifeInv, TxHeld, RxHeld, Settled, InCall
      <3> QED BY <2>4, <2>5, <2>9, <3>1
    <2> HIDE DEF Rest
    <2> QED BY <2>4, <2>5, <2>9, <2>10, <2>11, <2>12 DEF ExactlyOnce
  <1> QED BY <1>1, SpscInvariance, SpscOwnership, PTL

----------------------------------------------------------------------------
(* The ring implements the bounded channel, step by step.                  *)

\* What is left of a log from its m-th message on.
LEMMA RestFacts ==
  ASSUME NEW f \in Seq(Msgs), NEW m \in Nat, m <= Len(f)
  PROVE  LET q == SubSeq(f, m + 1, Len(f)) IN
         /\ q \in Seq(Msgs) /\ Len(q) = Len(f) - m /\ Len(f) \in Nat
         /\ \A i \in 1..Len(f) - m : q[i] = f[m + i]
         /\ Got(q) = {f[k] : k \in m + 1 .. Len(f)}
  <1> DEFINE q == SubSeq(f, m + 1, Len(f))
             n == Len(f)
  <1>1. n \in Nat /\ DOMAIN f = 1..n /\ m <= n BY LenProperties
  <1>2. \A i \in m + 1 .. n : f[i] \in Msgs BY <1>1, ElementOfSeq
  <1>3. /\ q \in Seq(Msgs) /\ Len(q) = IF m + 1 <= n THEN n - (m + 1) + 1 ELSE 0
        /\ \A i \in 1 .. n - (m + 1) + 1 : q[i] = f[m + 1 + i - 1]
    BY <1>1, <1>2, SubSeqProperties
  <1>4. DOMAIN q = 1..Len(q) BY <1>3, LenProperties
  <1> HIDE DEF q, n
  <1>5. Len(q) = n - m /\ n - (m + 1) + 1 = n - m BY <1>1, <1>3
  <1>6. \A i \in 1 .. n - m : q[i] = f[m + i]
    <2> SUFFICES ASSUME NEW i \in 1 .. n - m PROVE q[i] = f[m + i] OBVIOUS
    <2>1. m + 1 + i - 1 = m + i BY <1>1
    <2> QED BY <1>3, <1>5, <2>1
  <1>7. Got(q) = {f[k] : k \in m + 1 .. n}
    <2>1. ASSUME NEW i \in DOMAIN q PROVE m + i \in m + 1 .. n /\ q[i] = f[m + i]
      BY <1>1, <1>4, <1>5, <1>6
    <2>2. ASSUME NEW k \in m + 1 .. n PROVE k - m \in DOMAIN q /\ q[k - m] = f[k]
      <3>1. k - m \in 1 .. n - m /\ m + (k - m) = k BY <1>1
      <3> QED BY <1>4, <1>5, <1>6, <3>1
    <2> QED BY <2>1, <2>2 DEF Got
  <1> QED BY <1>1, <1>3, <1>5, <1>6, <1>7 DEF q, n

\* The state, as the mapping sees it.
LEMMA MappedFacts ==
  ASSUME NoWrap, IInv, OwnInv, strong # 0
  PROVE  /\ log \in Seq(Msgs) /\ received \in Seq(Msgs) /\ Len(log) \in Nat /\ Len(received) \in Nat
         /\ Len(received) <= Len(log) /\ dropped = {}
         /\ Queue = SubSeq(log, Len(received) + 1, Len(log))
         /\ Queue \in Seq(Msgs) /\ Len(Queue) = Len(log) - Len(received)
         /\ Got(Queue) = {log[k] : k \in Len(received) + 1 .. Len(log)}
  <1>1. /\ log \in Seq(Msgs) /\ received \in Seq(Msgs) /\ Len(log) \in Nat /\ Len(received) \in Nat
        /\ Len(received) <= Len(log)
    BY LenProperties DEF IInv, TypeOK, Fifo
  <1>2. Queue = SubSeq(log, Len(received) + 1, Len(log)) /\ dropped = {} BY DEF Queue, OwnInv
  <1> QED BY <1>1, <1>2, RestFacts

\* rear.store is Put: the sender is there, the queue is below capacity and the message
\* is new to the channel.
LEMMA PublishMaps ==
  ASSUME NoWrap, IInv, OwnInv, S_Publish
  PROVE  /\ "tx" \in Ends /\ Len(Queue) < Cap /\ msg \in Msgs
         /\ msg \notin Got(Queue) \cup Got(received) \cup dropped
         /\ Queue' = Append(Queue, msg) /\ received' = received /\ dropped' = dropped /\ Ends' = Ends
  <1>1. /\ spc = "publish" /\ spc' = "wake1" /\ log' = Append(log, msg)
        /\ UNCHANGED <<strong, received, dropped, sdrop, rpc>>
    BY DEF S_Publish, rVars
  <1>2. InCall /\ ~sdrop /\ strong # 0 /\ msg \in Msgs
    BY <1>1, Bounds DEF InCall, IInv, LifeInv, CallInv
  <1>3. "tx" \in Ends /\ Ends' = Ends BY <1>1, <1>2 DEF Ends
  <1> DEFINE m == Len(received)
             n == Len(log)
  <1>4. /\ log \in Seq(Msgs) /\ n \in Nat /\ m \in Nat /\ m <= n /\ dropped = {}
        /\ Queue = SubSeq(log, m + 1, n) /\ Queue \in Seq(Msgs) /\ Len(Queue) = n - m
        /\ Got(Queue) = {log[k] : k \in m + 1 .. n}
    BY <1>2, MappedFacts
  <1>5. n - m < Cap
    BY <1>1, <1>2, <1>4, SpscAssumption DEF IInv, IndexInv, TypeOK
  <1>6. msg \notin Got(log)
    <2>1. msg = calls /\ Settled = calls - 1 /\ calls \in Nat
      BY <1>2, SpscAssumption DEF OwnInv, Settled, IInv, TypeOK
    <2>2. calls \notin 1..calls - 1 BY <2>1
    <2> QED BY <2>1, <2>2 DEF OwnInv
  <1>7. msg \notin Got(Queue) \cup Got(received) \cup dropped
    <2>1. /\ DOMAIN log = 1..n /\ DOMAIN received = 1..m /\ \A k \in 1..m : received[k] = log[k]
      BY <1>4, LenProperties DEF IInv, Fifo, TypeOK
    <2>2. (\A k \in m + 1 .. n : k \in 1..n) /\ (\A k \in 1..m : k \in 1..n) BY <1>4
    <2>3. \A k \in 1..n : log[k] # msg BY <1>6, <2>1 DEF Got
    <2> HIDE DEF m, n
    <2>4. msg \notin Got(Queue) BY <1>4, <2>2, <2>3
    <2>5. msg \notin Got(received) BY <2>1, <2>2, <2>3 DEF Got
    <2> QED BY <1>4, <2>4, <2>5
  <1>8. Queue' = Append(Queue, msg)
    <2> DEFINE g == Append(log, msg)
               q == SubSeq(g, m + 1, Len(g))
               p == Append(Queue, msg)
    <2>1. /\ g \in Seq(Msgs) /\ Len(g) = n + 1 /\ g[n + 1] = msg /\ \A k \in 1..n : g[k] = log[k]
      BY <1>2, <1>4, GotAppend
    <2>2. Queue' = q BY <1>1, <1>2 DEF Queue
    <2>3. /\ p \in Seq(Msgs) /\ Len(p) = n - m + 1 /\ p[Len(Queue) + 1] = msg
          /\ \A k \in 1..Len(Queue) : p[k] = Queue[k]
      BY <1>2, <1>4, GotAppend
    <2>4. m <= Len(g) BY <1>4, <2>1
    <2>5. q \in Seq(Msgs) /\ Len(q) = Len(g) - m /\ \A i \in 1..Len(g) - m : q[i] = g[m + i]
      BY <1>4, <2>1, <2>4, RestFacts
    <2>6. \A i \in 1..n - m : Queue[i] = log[m + i] BY <1>4, RestFacts
    <2> HIDE DEF g, q, p, m, n
    <2>7. ASSUME NEW i \in 1..Len(q) PROVE q[i] = p[i]
      <3>1. i \in 1 .. n - m + 1 /\ q[i] = g[m + i] BY <1>4, <2>1, <2>5, <2>7
      <3>2. CASE i = n - m + 1
        <4>1. m + i = n + 1 /\ i = Len(Queue) + 1 BY <1>4, <3>2
        <4> QED BY <2>1, <2>3, <3>1, <4>1
      <3>3. CASE i # n - m + 1
        <4>1. i \in 1..n - m /\ m + i \in 1..n BY <1>4, <3>1, <3>3
        <4> QED BY <1>4, <2>1, <2>3, <2>6, <3>1, <4>1
      <3> QED BY <3>2, <3>3
    <2>8. Len(q) = Len(p) BY <1>4, <2>1, <2>3, <2>5
    <2>9. q = p BY <2>3, <2>5, <2>7, <2>8, SeqEqual
    <2> QED BY <2>2, <2>9 DEF p
  <1> QED BY <1>1, <1>2, <1>3, <1>4, <1>5, <1>7, <1>8

\* ptr::read of the slot is Take: the queue is not empty and its head is what is read.
LEMMA ReadMaps ==
  ASSUME NoWrap, IInv, OwnInv, R_Read
  PROVE  /\ "rx" \in Ends /\ Queue # <<>>
         /\ received' = Append(received, Head(Queue)) /\ Queue' = Tail(Queue)
         /\ dropped' = dropped /\ Ends' = Ends
  <1>1. /\ rpc = "read" /\ rpc' = "release" /\ received' = Append(received, slots[effective_index(front)])
        /\ UNCHANGED <<strong, log, dropped, sdrop, spc>>
    BY DEF R_Read, sVars, ringVars
  <1>2. strong # 0 BY <1>1, Bounds
  <1>3. "rx" \in Ends /\ Ends' = Ends BY <1>1 DEF Ends
  <1> DEFINE m == Len(received)
             n == Len(log)
  <1>4. /\ log \in Seq(Msgs) /\ n \in Nat /\ m \in Nat /\ dropped = {}
        /\ Queue = SubSeq(log, m + 1, n) /\ Len(Queue) = n - m /\ received \in Seq(Msgs)
    BY <1>2, MappedFacts
  <1>5. front = m /\ rear = n /\ front < rear /\ front \in Nat
    BY <1>1, <1>2, SpscAssumption DEF IInv, IndexInv, TypeOK
  <1>6. slots[effective_index(front)] = log[m + 1]
    <2>1. front \in front .. rear - 1 BY <1>4, <1>5
    <2>2. \A i \in front .. rear - 1 : slots[effective_index(i)] = log[i + 1]
      BY <1>2 DEF IInv, SlotInv
    <2> QED BY <1>5, <2>1, <2>2
  <1>7. Queue # <<>>
    <2>1. Len(Queue) # 0 BY <1>4, <1>5
    <2> QED BY <2>1
  <1>8. m + 1 \in 1..n /\ n \in m + 1 .. n BY <1>4, <1>5
  <1>9. Head(Queue) = log[m + 1] /\ Tail(Queue) = SubSeq(log, m + 1 + 1, n)
    BY <1>4, <1>8, HeadTailOfSubSeq
  <1>10. Len(received') = m + 1
    <2>1. log[m + 1] \in Msgs BY <1>4, <1>8, ElementOfSeq
    <2> QED BY <1>1, <1>4, <1>6, <2>1, GotAppend
  <1>11. Queue' = SubSeq(log, m + 1 + 1, n) BY <1>1, <1>2, <1>10 DEF Queue
  <1> QED BY <1>1, <1>3, <1>6, <1>7, <1>9, <1>11

\* A dropped end is Close, and the second takes the queue with it.
LEMMA DecRefMaps ==
  ASSUME NoWrap, IInv, OwnInv, NEW e, (S_DecRef /\ e = "tx") \/ (R_DecRef /\ e = "rx")
  PROVE  /\ e \in Ends /\ Ends' = Ends \ {e} /\ received' = received
         /\ Ends' = {} => dropped' = dropped \cup Got(Queue) /\ Queue' = <<>>
         /\ Ends' # {} => dropped' = dropped /\ Queue' = Queue
  <1>0. TypeOK /\ LifeInv BY DEF IInv
  <1>1. /\ strong \in {1, 2} /\ strong' = strong - 1 /\ UNCHANGED <<log, received>>
        /\ strong = 1 => dropped' = dropped \cup {log[k] : k \in Len(received) + 1 .. Len(log)}
        /\ strong = 2 => dropped' = dropped
    BY DecRefFacts
  <1>2. e \in Ends /\ Ends' = Ends \ {e} /\ (Ends' = {} <=> strong = 1)
    <2>1. CASE S_DecRef /\ e = "tx"
      BY <1>0, <2>1 DEF S_DecRef, rVars, Ends, LifeInv, TxHeld, RxHeld
    <2>2. CASE R_DecRef /\ e = "rx"
      BY <1>0, <2>2 DEF R_DecRef, sVars, Ends, LifeInv, TxHeld, RxHeld
    <2> QED BY <2>1, <2>2
  <1>3. Got(Queue) = {log[k] : k \in Len(received) + 1 .. Len(log)} BY <1>1, MappedFacts
  <1>4. CASE strong = 1 BY <1>1, <1>2, <1>3, <1>4 DEF Queue
  <1>5. CASE strong = 2
    <2>1. strong' # 0 /\ strong # 0 BY <1>1, <1>5
    <2>2. Queue' = Queue BY <1>1, <2>1 DEF Queue
    <2> QED BY <1>1, <1>2, <1>5, <2>2
  <1> QED BY <1>1, <1>4, <1>5

\* A step of the ring is a step of the channel or changes nothing of it.
LEMMA StepMaps ==
  ASSUME NoWrap, IInv, OwnInv, [Next]_vars
  PROVE  Chan!ChannelNext \/ UNCHANGED <<Queue, received, dropped, Ends>>
  <1>0. TypeOK /\ LifeInv BY DEF IInv
  <1>1. CASE (\E s \in BOOLEAN : S_Call(s)) \/ S_Check \/ S_TryPush
    <2>1. UNCHANGED <<log, received, dropped, strong, sdrop, rpc>> /\ ~sdrop
      BY <1>0, <1>1 DEF S_Call, S_Check, S_TryPush, LifeInv, ringVars, rVars
    <2> QED BY <2>1 DEF Queue, Ends
  <1>2. CASE S_Publish
    <2>1. Chan!Put(msg) BY <1>2, PublishMaps DEF Chan!Put, Chan!Range, Got, Queue, Ends
    <2> QED BY <1>2, <2>1, PublishMaps DEF Chan!ChannelNext
  <1>3. CASE R_Read
    <2>1. Chan!Take BY <1>3, ReadMaps DEF Chan!Take, Queue, Ends
    <2> QED BY <2>1 DEF Chan!ChannelNext
  <1>4. CASE S_DecRef
    <2>1. Chan!Close("tx") BY <1>4, DecRefMaps DEF Chan!Close, Chan!Range, Got, Queue, Ends
    <2> QED BY <2>1 DEF Chan!ChannelNext
  <1>5. CASE R_DecRef
    <2>1. Chan!Close("rx") BY <1>5, DecRefMaps DEF Chan!Close, Chan!Range, Got, Queue, Ends
    <2> QED BY <2>1 DEF Chan!ChannelNext
  <1>6. CASE /\ UNCHANGED <<calls, msg, log, received, returned, dropped, strong>> /\ Ends' = Ends
    BY <1>6 DEF Queue
  <1> QED BY <1>1, <1>2, <1>3, <1>4, <1>5, <1>6, StepKinds

\* ImplementsChannel: every execution of the ring, with its cached indices, buffered
\* stores, awakener and reference counts, is one of the bounded FIFO channel.
THEOREM SpscImplementsChannel ==
  ASSUME NoWrap
  PROVE  Spec => ImplementsChannel
  <1>1. Init => Chan!ChannelInit
    <2> SUFFICES ASSUME Init PROVE Chan!ChannelInit OBVIOUS
    <2>1. Queue = <<>>
      <3>1. SubSeq(log, Len(received) + 1, Len(log)) = <<>> BY SubSeqEmpty DEF Init
      <3> QED BY <3>1 DEF Queue
    <2>2. received = <<>> /\ dropped = {} /\ Ends = {"tx", "rx"} BY DEF Init, Ends
    <2> QED BY <2>1, <2>2 DEF Chan!ChannelInit, Queue, Ends
  <1>2. IInv /\ OwnInv /\ [Next]_vars => [Chan!ChannelNext]_<<Queue, received, dropped, Ends>>
    BY StepMaps
  <1> QED
    BY <1>1, <1>2, SpscInvariance, SpscOwnership, PTL
    DEF Spec, ImplementsChannel, Chan!ChannelSpec, Chan!cvars, Queue, Ends
=============================================================================
