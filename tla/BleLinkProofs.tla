----------------------------- MODULE BleLinkProofs -----------------------------
(***************************************************************************)
(* What holds of BleLink for any number of coroutines, retries, operations *)
(* and drops: its types, for any number of transports, and, for a panel    *)
(* with two of them (alone, and as the slot of a wall), that no connection *)
(* is open behind the registry's back. For any number of transports again, *)
(* its locks exclude and are waited for in no circle.                      *)
(*                                                                         *)
(* Two is a limit of the code. After an eviction connect() asks            *)
(* is_connected of its own transport, which lags behind a drop, and        *)
(* registers that transport (ble_transport.py:148-168): were there a third *)
(* one, whose connection has come up during the eviction, the registry     *)
(* would lose it.                                                          *)
(***************************************************************************)
EXTENDS BleLink, FiniteSetTheorems, TLAPS

(* TypeOK, in parts: the radio, the flags and the registry, the locks, and  *)
(* the places of the tasks.                                                 *)
RadioType ==
    /\ {open, said, calling, subscribed, left} \subseteq SUBSET Transports
    /\ subscribed \cup left \subseteq open /\ open \subseteq said
    /\ \A s, t \in open : s = t
FlagType ==
    /\ {broken, notifying} \subseteq SUBSET Transports
    /\ registered \in Transports \cup {None}
LockType  == writer \in [Transports -> Tasks \cup {None}] /\ connector \in Tasks \cup {None}
PlaceType ==
    /\ at \in [Tasks -> Places] /\ op \in [Tasks -> Ops]
    /\ on \in [Tasks -> Transports \cup {None}] /\ victim \in [Tasks -> Transports \cup {None}]
CountType  == tries \in [Tasks -> Nat] /\ ops \in 0 .. MaxOps /\ drops \in 0 .. MaxDrops
ForcedType == forced \in [Tasks -> BOOLEAN]

(* A task has a transport from the begin of its operation to its end.       *)
Bound == \A k \in Tasks : (at[k] = "idle") <=> (on[k] = None)

(* A task disconnects a transport while it awaits just that; a sender, which *)
(* leaves its own link to ensure_connected, evicts another one.             *)
Victims ==
    /\ \A k \in Tasks : (at[k] \in {"stopping", "hanging"}) <=> (victim[k] # None)
    /\ \A k \in Tasks : op[k] = "send" /\ victim[k] # None => victim[k] # on[k]

(* Who holds a write lock is a sender on that transport, in the part of      *)
(* send_payload the lock covers.                                            *)
Sending == {"trying", "backoff", "writing", "stopping", "hanging", "dialling", "subscribing",
            "settling"}
WriterSends ==
    \A t \in Transports, k \in Tasks :
        writer[t] = k => on[k] = t /\ op[k] = "send" /\ at[k] \in Sending

(* Only a sender waits for a write lock.                                    *)
Waits == \A k \in Tasks : at[k] = "wantWrite" => op[k] = "send"

Types == RadioType /\ FlagType /\ LockType /\ PlaceType /\ CountType /\ ForcedType
         /\ Bound /\ Waits /\ Victims /\ WriterSends
IInv  == Types /\ LinkOwned

(* A panel has two transports at most.                                      *)
Two == \A s, t, u \in Transports : s = t \/ t = u \/ s = u

-----------------------------------------------------------------------------
LEMMA Constants == None \notin Tasks /\ None \notin Transports /\ MaxOps \in Nat /\ MaxDrops \in Nat
  BY BleLinkAssumption

(* One connection at a time: the radio opens one only when the address has no other. *)
LEMMA RadioStep == RadioType /\ PlaceType /\ Bound /\ Victims /\ [Next]_vars => RadioType'
<1> SUFFICES ASSUME RadioType, PlaceType, Bound, Victims, [Next]_vars
             PROVE  RadioType'
  OBVIOUS
<1> USE Constants DEF Places, Ops
<1>1. ASSUME NEW k \in Tasks, StopNotify(k) PROVE RadioType'
  BY <1>1 DEF StopNotify, At, Go, RadioType, PlaceType, Bound, Victims, flags, locks
<1>2. ASSUME NEW k \in Tasks, HangUp(k) PROVE RadioType'
  BY <1>2 DEF HangUp, At, Closes, GivesUp, Finish, Reset, Again, Unregister, Evicted, Register,
     NextWait, RadioType, PlaceType, Bound, Victims, locks
<1>3. ASSUME NEW k \in Tasks, DialOpens(k) PROVE RadioType'
  BY <1>3 DEF DialOpens, At, Go, Register, NextWait, RadioType, PlaceType, Bound, Victims, locks
<1>4. ASSUME NEW k \in Tasks, DialFails(k) PROVE RadioType'
  BY <1>4 DEF DialFails, ConnectRaises, Connecting, Again, Finish, StartDisconnect, Reset,
     Unregister, FirstWait, Release, RadioType, PlaceType, Bound, Victims, radio, flags
<1>5. ASSUME NEW k \in Tasks, Subscribes(k) PROVE RadioType'
  BY <1>5 DEF Subscribes, At, Go, RadioType, PlaceType, Bound, Victims, locks
<1>6. ASSUME NEW k \in Tasks, Settles(k) PROVE RadioType'
  BY <1>6 DEF Settles, At, ConnectReturns, Connecting, Again, Finish, Go, Reset, Unregister,
     RadioType, PlaceType, Bound, Victims, radio, flags, locks
<1>7. ASSUME NEW k \in Tasks, TakeLock(k) PROVE RadioType'
  BY <1>7 DEF TakeLock, At, Go, RadioType, PlaceType, Bound, Victims, radio, flags
<1>8. ASSUME NEW k \in Tasks, Attempt(k) PROVE RadioType'
  BY <1>8 DEF Attempt, At, EnterConnect, Evicting, StartDisconnect, FirstWait, ConnectReturns,
     Connecting, Again, Finish, Go, Reset, Unregister, RadioType, PlaceType, Bound, Victims,
     radio, flags, locks
<1>9. ASSUME NEW k \in Tasks, QueueAgain(k) PROVE RadioType'
  BY <1>9 DEF QueueAgain, At, Go, RadioType, PlaceType, Bound, Victims, radio, flags, locks
<1>10. ASSUME NEW k \in Tasks, TimesOut(k) PROVE RadioType'
  BY <1>10 DEF TimesOut, GivesUp, ConnectRaises, Connecting, Again, Finish, StartDisconnect,
     Reset, Unregister, FirstWait, Release, RadioType, PlaceType, Bound, Victims, radio, flags
<1>11. ASSUME NEW k \in Tasks, TakeWrite(k) PROVE RadioType'
  BY <1>11 DEF TakeWrite, At, Go, RadioType, PlaceType, Bound, Victims, radio, flags
<1>12. ASSUME NEW k \in Tasks, Try(k) PROVE RadioType'
  BY <1>12 DEF Try, At, Go, RadioType, PlaceType, Bound, Victims, radio, locks
<1>13. ASSUME NEW k \in Tasks, Reconnect(k) PROVE RadioType'
  BY <1>13 DEF Reconnect, At, EnterConnect, Evicting, StartDisconnect, FirstWait, ConnectReturns,
     Connecting, Again, Finish, Go, Reset, Unregister, RadioType, PlaceType, Bound, Victims,
     radio, flags, locks
<1>14. ASSUME NEW k \in Tasks, WriteLands(k) PROVE RadioType'
  BY <1>14 DEF WriteLands, At, Release, Finish, RadioType, PlaceType, Bound, Victims, radio
<1>15. ASSUME NEW k \in Tasks, WriteFails(k) PROVE RadioType'
  BY <1>15 DEF WriteFails, At, Again, Finish, Release, RadioType, PlaceType, Bound, Victims, radio
<1>16. ASSUME NEW k \in Tasks, NEW t \in Transports, Ensure(k, t) \/ PushSlot(k, t) \/
             Send(k, t) \/ Close(k, t) \/ CloseDead(k, t)
      PROVE  RadioType'
  BY <1>16 DEF Ensure, Begin, At, PushSlot, Send, Close, FirstWait, Unregister, CloseDead, Reset,
     RadioType, PlaceType, Bound, Victims, radio, flags, locks, place
<1>17. ASSUME NEW t \in Transports, Drops(t) \/ Notices(t) \/ OnOsDisconnect(t)
      PROVE  RadioType'
  BY <1>17 DEF Drops, Notices, OnOsDisconnect, RadioType, PlaceType, Bound, Victims, flags, locks,
     place
<1>18. CASE UNCHANGED vars
  BY <1>18 DEF vars, RadioType, PlaceType, Bound, Victims, radio, flags, locks, place
<1> QED
  BY <1>1, <1>2, <1>3, <1>4, <1>5, <1>6, <1>7, <1>8, <1>9, <1>10, <1>11, <1>12, <1>13, <1>14,
     <1>15, <1>16, <1>17, <1>18 DEF Next, TaskStep, ConnectStep

(* What a transport keeps of its link, and whose transport the registry has. *)
LEMMA FlagStep == FlagType /\ PlaceType /\ Bound /\ Victims /\ [Next]_vars => FlagType'
<1> SUFFICES ASSUME FlagType, PlaceType, Bound, Victims, [Next]_vars
             PROVE  FlagType'
  OBVIOUS
<1> USE Constants DEF Places, Ops
<1>1. ASSUME NEW k \in Tasks, StopNotify(k) PROVE FlagType'
  BY <1>1 DEF StopNotify, At, Go, FlagType, PlaceType, Bound, Victims, flags, locks
<1>2. ASSUME NEW k \in Tasks, HangUp(k) PROVE FlagType'
  BY <1>2 DEF HangUp, At, Closes, GivesUp, Finish, Reset, Again, Unregister, Evicted, Register,
     NextWait, FlagType, PlaceType, Bound, Victims, locks
<1>3. ASSUME NEW k \in Tasks, DialOpens(k) PROVE FlagType'
  BY <1>3 DEF DialOpens, At, Go, Register, NextWait, FlagType, PlaceType, Bound, Victims, locks
<1>4. ASSUME NEW k \in Tasks, DialFails(k) PROVE FlagType'
  BY <1>4 DEF DialFails, ConnectRaises, Connecting, Again, Finish, StartDisconnect, Reset,
     Unregister, FirstWait, Release, FlagType, PlaceType, Bound, Victims, radio, flags
<1>5. ASSUME NEW k \in Tasks, Subscribes(k) PROVE FlagType'
  BY <1>5 DEF Subscribes, At, Go, FlagType, PlaceType, Bound, Victims, locks
<1>6. ASSUME NEW k \in Tasks, Settles(k) PROVE FlagType'
  BY <1>6 DEF Settles, At, ConnectReturns, Connecting, Again, Finish, Go, Reset, Unregister,
     FlagType, PlaceType, Bound, Victims, radio, flags, locks
<1>7. ASSUME NEW k \in Tasks, TakeLock(k) PROVE FlagType'
  BY <1>7 DEF TakeLock, At, Go, FlagType, PlaceType, Bound, Victims, radio, flags
<1>8. ASSUME NEW k \in Tasks, Attempt(k) PROVE FlagType'
  BY <1>8 DEF Attempt, At, EnterConnect, Evicting, StartDisconnect, FirstWait, ConnectReturns,
     Connecting, Again, Finish, Go, Reset, Unregister, FlagType, PlaceType, Bound, Victims,
     radio, flags, locks
<1>9. ASSUME NEW k \in Tasks, QueueAgain(k) PROVE FlagType'
  BY <1>9 DEF QueueAgain, At, Go, FlagType, PlaceType, Bound, Victims, radio, flags, locks
<1>10. ASSUME NEW k \in Tasks, TimesOut(k) PROVE FlagType'
  BY <1>10 DEF TimesOut, GivesUp, ConnectRaises, Connecting, Again, Finish, StartDisconnect,
     Reset, Unregister, FirstWait, Release, FlagType, PlaceType, Bound, Victims, radio, flags
<1>11. ASSUME NEW k \in Tasks, TakeWrite(k) PROVE FlagType'
  BY <1>11 DEF TakeWrite, At, Go, FlagType, PlaceType, Bound, Victims, radio, flags
<1>12. ASSUME NEW k \in Tasks, Try(k) PROVE FlagType'
  BY <1>12 DEF Try, At, Go, FlagType, PlaceType, Bound, Victims, radio, locks
<1>13. ASSUME NEW k \in Tasks, Reconnect(k) PROVE FlagType'
  BY <1>13 DEF Reconnect, At, EnterConnect, Evicting, StartDisconnect, FirstWait, ConnectReturns,
     Connecting, Again, Finish, Go, Reset, Unregister, FlagType, PlaceType, Bound, Victims,
     radio, flags, locks
<1>14. ASSUME NEW k \in Tasks, WriteLands(k) PROVE FlagType'
  BY <1>14 DEF WriteLands, At, Release, Finish, FlagType, PlaceType, Bound, Victims, radio
<1>15. ASSUME NEW k \in Tasks, WriteFails(k) PROVE FlagType'
  BY <1>15 DEF WriteFails, At, Again, Finish, Release, FlagType, PlaceType, Bound, Victims, radio
<1>16. ASSUME NEW k \in Tasks, NEW t \in Transports, Ensure(k, t) \/ PushSlot(k, t) \/
             Send(k, t) \/ Close(k, t) \/ CloseDead(k, t)
      PROVE  FlagType'
  BY <1>16 DEF Ensure, Begin, At, PushSlot, Send, Close, FirstWait, Unregister, CloseDead, Reset,
     FlagType, PlaceType, Bound, Victims, radio, flags, locks, place
<1>17. ASSUME NEW t \in Transports, Drops(t) \/ Notices(t) \/ OnOsDisconnect(t) PROVE FlagType'
  BY <1>17 DEF Drops, Notices, OnOsDisconnect, FlagType, PlaceType, Bound, Victims, flags, locks,
     place
<1>18. CASE UNCHANGED vars
  BY <1>18 DEF vars, FlagType, PlaceType, Bound, Victims, radio, flags, locks, place
<1> QED
  BY <1>1, <1>2, <1>3, <1>4, <1>5, <1>6, <1>7, <1>8, <1>9, <1>10, <1>11, <1>12, <1>13, <1>14,
     <1>15, <1>16, <1>17, <1>18 DEF Next, TaskStep, ConnectStep

(* The locks are with tasks. *)
LEMMA LockStep == LockType /\ PlaceType /\ [Next]_vars => LockType'
<1> SUFFICES ASSUME LockType, PlaceType, [Next]_vars
             PROVE  LockType'
  OBVIOUS
<1>1. ASSUME NEW k \in Tasks, StopNotify(k) PROVE LockType'
  BY <1>1 DEF StopNotify, At, Go, LockType, PlaceType, flags, locks
<1>2. ASSUME NEW k \in Tasks, HangUp(k) PROVE LockType'
  BY <1>2 DEF HangUp, At, Closes, GivesUp, Finish, Reset, Again, Unregister, Evicted, Register,
     NextWait, LockType, PlaceType, locks
<1>3. ASSUME NEW k \in Tasks, DialOpens(k) PROVE LockType'
  BY <1>3 DEF DialOpens, At, Go, Register, NextWait, LockType, PlaceType, locks
<1>4. ASSUME NEW k \in Tasks, DialFails(k) PROVE LockType'
  BY <1>4 DEF DialFails, ConnectRaises, Connecting, Again, Finish, StartDisconnect, Reset,
     Unregister, FirstWait, Release, LockType, PlaceType, radio, flags
<1>5. ASSUME NEW k \in Tasks, Subscribes(k) PROVE LockType'
  BY <1>5 DEF Subscribes, At, Go, LockType, PlaceType, locks
<1>6. ASSUME NEW k \in Tasks, Settles(k) PROVE LockType'
  BY <1>6 DEF Settles, At, ConnectReturns, Connecting, Again, Finish, Go, Reset, Unregister,
     LockType, PlaceType, radio, flags, locks
<1>7. ASSUME NEW k \in Tasks, TakeLock(k) PROVE LockType'
  BY <1>7 DEF TakeLock, At, Go, LockType, PlaceType, radio, flags
<1>8. ASSUME NEW k \in Tasks, Attempt(k) PROVE LockType'
  BY <1>8 DEF Attempt, At, EnterConnect, Evicting, StartDisconnect, FirstWait, ConnectReturns,
     Connecting, Again, Finish, Go, Reset, Unregister, LockType, PlaceType, radio, flags, locks
<1>9. ASSUME NEW k \in Tasks, QueueAgain(k) PROVE LockType'
  BY <1>9 DEF QueueAgain, At, Go, LockType, PlaceType, radio, flags, locks
<1>10. ASSUME NEW k \in Tasks, TimesOut(k) PROVE LockType'
  BY <1>10 DEF TimesOut, GivesUp, ConnectRaises, Connecting, Again, Finish, StartDisconnect,
     Reset, Unregister, FirstWait, Release, LockType, PlaceType, radio, flags
<1>11. ASSUME NEW k \in Tasks, TakeWrite(k) PROVE LockType'
  BY <1>11 DEF TakeWrite, At, Go, LockType, PlaceType, radio, flags
<1>12. ASSUME NEW k \in Tasks, Try(k) PROVE LockType'
  BY <1>12 DEF Try, At, Go, LockType, PlaceType, radio, locks
<1>13. ASSUME NEW k \in Tasks, Reconnect(k) PROVE LockType'
  BY <1>13 DEF Reconnect, At, EnterConnect, Evicting, StartDisconnect, FirstWait, ConnectReturns,
     Connecting, Again, Finish, Go, Reset, Unregister, LockType, PlaceType, radio, flags, locks
<1>14. ASSUME NEW k \in Tasks, WriteLands(k) PROVE LockType'
  BY <1>14 DEF WriteLands, At, Release, Finish, LockType, PlaceType, radio
<1>15. ASSUME NEW k \in Tasks, WriteFails(k) PROVE LockType'
  BY <1>15 DEF WriteFails, At, Again, Finish, Release, LockType, PlaceType, radio
<1>16. ASSUME NEW k \in Tasks, NEW t \in Transports, Ensure(k, t) \/ PushSlot(k, t) \/
             Send(k, t) \/ Close(k, t) \/ CloseDead(k, t)
      PROVE  LockType'
  BY <1>16 DEF Ensure, Begin, At, PushSlot, Send, Close, FirstWait, Unregister, CloseDead, Reset,
     LockType, PlaceType, radio, flags, locks, place
<1>17. ASSUME NEW t \in Transports, Drops(t) \/ Notices(t) \/ OnOsDisconnect(t) PROVE LockType'
  BY <1>17 DEF Drops, Notices, OnOsDisconnect, LockType, PlaceType, flags, locks, place
<1>18. CASE UNCHANGED vars
  BY <1>18 DEF vars, LockType, PlaceType, radio, flags, locks, place
<1> QED
  BY <1>1, <1>2, <1>3, <1>4, <1>5, <1>6, <1>7, <1>8, <1>9, <1>10, <1>11, <1>12, <1>13, <1>14,
     <1>15, <1>16, <1>17, <1>18 DEF Next, TaskStep, ConnectStep

(* Where a task is and what it does: it evicts a transport the registry names. *)
LEMMA PlaceStep == PlaceType /\ FlagType /\ [Next]_vars => PlaceType'
<1> SUFFICES ASSUME PlaceType, FlagType, [Next]_vars
             PROVE  PlaceType'
  OBVIOUS
<1> USE Constants DEF Places, Ops
<1>1. ASSUME NEW k \in Tasks, StopNotify(k) PROVE PlaceType'
  BY <1>1 DEF StopNotify, At, Go, PlaceType, FlagType, flags, locks
<1>2. ASSUME NEW k \in Tasks, HangUp(k) PROVE PlaceType'
  BY <1>2 DEF HangUp, At, Closes, GivesUp, Finish, Reset, Again, Unregister, Evicted, Register,
     NextWait, PlaceType, FlagType, locks
<1>3. ASSUME NEW k \in Tasks, DialOpens(k) PROVE PlaceType'
  BY <1>3 DEF DialOpens, At, Go, Register, NextWait, PlaceType, FlagType, locks
<1>4. ASSUME NEW k \in Tasks, DialFails(k) PROVE PlaceType'
  BY <1>4 DEF DialFails, ConnectRaises, Connecting, Again, Finish, StartDisconnect, Reset,
     Unregister, FirstWait, Release, PlaceType, FlagType, radio, flags
<1>5. ASSUME NEW k \in Tasks, Subscribes(k) PROVE PlaceType'
  BY <1>5 DEF Subscribes, At, Go, PlaceType, FlagType, locks
<1>6. ASSUME NEW k \in Tasks, Settles(k) PROVE PlaceType'
  BY <1>6 DEF Settles, At, ConnectReturns, Connecting, Again, Finish, Go, Reset, Unregister,
     PlaceType, FlagType, radio, flags, locks
<1>7. ASSUME NEW k \in Tasks, TakeLock(k) PROVE PlaceType'
  BY <1>7 DEF TakeLock, At, Go, PlaceType, FlagType, radio, flags
<1>8. ASSUME NEW k \in Tasks, Attempt(k) PROVE PlaceType'
  BY <1>8 DEF Attempt, At, EnterConnect, Evicting, StartDisconnect, FirstWait, ConnectReturns,
     Connecting, Again, Finish, Go, Reset, Unregister, PlaceType, FlagType, radio, flags, locks
<1>9. ASSUME NEW k \in Tasks, QueueAgain(k) PROVE PlaceType'
  BY <1>9 DEF QueueAgain, At, Go, PlaceType, FlagType, radio, flags, locks
<1>10. ASSUME NEW k \in Tasks, TimesOut(k) PROVE PlaceType'
  BY <1>10 DEF TimesOut, GivesUp, ConnectRaises, Connecting, Again, Finish, StartDisconnect,
     Reset, Unregister, FirstWait, Release, PlaceType, FlagType, radio, flags
<1>11. ASSUME NEW k \in Tasks, TakeWrite(k) PROVE PlaceType'
  BY <1>11 DEF TakeWrite, At, Go, PlaceType, FlagType, radio, flags
<1>12. ASSUME NEW k \in Tasks, Try(k) PROVE PlaceType'
  BY <1>12 DEF Try, At, Go, PlaceType, FlagType, radio, locks
<1>13. ASSUME NEW k \in Tasks, Reconnect(k) PROVE PlaceType'
  BY <1>13 DEF Reconnect, At, EnterConnect, Evicting, StartDisconnect, FirstWait, ConnectReturns,
     Connecting, Again, Finish, Go, Reset, Unregister, PlaceType, FlagType, radio, flags, locks
<1>14. ASSUME NEW k \in Tasks, WriteLands(k) PROVE PlaceType'
  BY <1>14 DEF WriteLands, At, Release, Finish, PlaceType, FlagType, radio
<1>15. ASSUME NEW k \in Tasks, WriteFails(k) PROVE PlaceType'
  BY <1>15 DEF WriteFails, At, Again, Finish, Release, PlaceType, FlagType, radio
<1>16. ASSUME NEW k \in Tasks, NEW t \in Transports, Ensure(k, t) \/ PushSlot(k, t) \/
             Send(k, t) \/ Close(k, t) \/ CloseDead(k, t)
      PROVE  PlaceType'
  BY <1>16 DEF Ensure, Begin, At, PushSlot, Send, Close, FirstWait, Unregister, CloseDead, Reset,
     PlaceType, FlagType, radio, flags, locks, place
<1>17. ASSUME NEW t \in Transports, Drops(t) \/ Notices(t) \/ OnOsDisconnect(t)
      PROVE  PlaceType'
  BY <1>17 DEF Drops, Notices, OnOsDisconnect, PlaceType, FlagType, flags, locks, place
<1>18. CASE UNCHANGED vars
  BY <1>18 DEF vars, PlaceType, FlagType, radio, flags, locks, place
<1> QED
  BY <1>1, <1>2, <1>3, <1>4, <1>5, <1>6, <1>7, <1>8, <1>9, <1>10, <1>11, <1>12, <1>13, <1>14,
     <1>15, <1>16, <1>17, <1>18 DEF Next, TaskStep, ConnectStep

(* What is counted stays within its bounds. *)
LEMMA CountStep == CountType /\ [Next]_vars => CountType'
<1> SUFFICES ASSUME CountType, [Next]_vars
             PROVE  CountType'
  OBVIOUS
<1> USE Constants DEF CountType
<1>1. ASSUME NEW k \in Tasks, StopNotify(k) PROVE CountType'
  BY <1>1 DEF StopNotify, At, Go, CountType, flags, locks
<1>2. ASSUME NEW k \in Tasks, HangUp(k) PROVE CountType'
  BY <1>2 DEF HangUp, At, Closes, GivesUp, Finish, Reset, Again, Unregister, Evicted, Register,
     NextWait, CountType, locks
<1>3. ASSUME NEW k \in Tasks, DialOpens(k) PROVE CountType'
  BY <1>3 DEF DialOpens, At, Go, Register, NextWait, CountType, locks
<1>4. ASSUME NEW k \in Tasks, DialFails(k) PROVE CountType'
  BY <1>4 DEF DialFails, ConnectRaises, Connecting, Again, Finish, StartDisconnect, Reset,
     Unregister, FirstWait, Release, CountType, radio, flags
<1>5. ASSUME NEW k \in Tasks, Subscribes(k) PROVE CountType'
  BY <1>5 DEF Subscribes, At, Go, CountType, locks
<1>6. ASSUME NEW k \in Tasks, Settles(k) PROVE CountType'
  BY <1>6 DEF Settles, At, ConnectReturns, Connecting, Again, Finish, Go, Reset, Unregister,
     CountType, radio, flags, locks
<1>7. ASSUME NEW k \in Tasks, TakeLock(k) PROVE CountType'
  BY <1>7 DEF TakeLock, At, Go, CountType, radio, flags
<1>8. ASSUME NEW k \in Tasks, Attempt(k) PROVE CountType'
  BY <1>8 DEF Attempt, At, EnterConnect, Evicting, StartDisconnect, FirstWait, ConnectReturns,
     Connecting, Again, Finish, Go, Reset, Unregister, CountType, radio, flags, locks
<1>9. ASSUME NEW k \in Tasks, QueueAgain(k) PROVE CountType'
  BY <1>9 DEF QueueAgain, At, Go, CountType, radio, flags, locks
<1>10. ASSUME NEW k \in Tasks, TimesOut(k) PROVE CountType'
  BY <1>10 DEF TimesOut, GivesUp, ConnectRaises, Connecting, Again, Finish, StartDisconnect,
     Reset, Unregister, FirstWait, Release, CountType, radio, flags
<1>11. ASSUME NEW k \in Tasks, TakeWrite(k) PROVE CountType'
  BY <1>11 DEF TakeWrite, At, Go, CountType, radio, flags
<1>12. ASSUME NEW k \in Tasks, Try(k) PROVE CountType'
  BY <1>12 DEF Try, At, Go, CountType, radio, locks
<1>13. ASSUME NEW k \in Tasks, Reconnect(k) PROVE CountType'
  BY <1>13 DEF Reconnect, At, EnterConnect, Evicting, StartDisconnect, FirstWait, ConnectReturns,
     Connecting, Again, Finish, Go, Reset, Unregister, CountType, radio, flags, locks
<1>14. ASSUME NEW k \in Tasks, WriteLands(k) PROVE CountType'
  BY <1>14 DEF WriteLands, At, Release, Finish, CountType, radio
<1>15. ASSUME NEW k \in Tasks, WriteFails(k) PROVE CountType'
  BY <1>15 DEF WriteFails, At, Again, Finish, Release, CountType, radio
<1>16. ASSUME NEW k \in Tasks, NEW t \in Transports, Ensure(k, t) \/ PushSlot(k, t) \/
             Send(k, t) \/ Close(k, t) \/ CloseDead(k, t)
      PROVE  CountType'
  BY <1>16 DEF Ensure, Begin, At, PushSlot, Send, Close, FirstWait, Unregister, CloseDead, Reset,
     CountType, radio, flags, locks, place
<1>17. ASSUME NEW t \in Transports, Drops(t) \/ Notices(t) \/ OnOsDisconnect(t)
      PROVE  CountType'
  BY <1>17 DEF Drops, Notices, OnOsDisconnect, CountType, flags, locks, place
<1>18. CASE UNCHANGED vars
  BY <1>18 DEF vars, CountType, radio, flags, locks, place
<1> QED
  BY <1>1, <1>2, <1>3, <1>4, <1>5, <1>6, <1>7, <1>8, <1>9, <1>10, <1>11, <1>12, <1>13, <1>14,
     <1>15, <1>16, <1>17, <1>18 DEF Next, TaskStep, ConnectStep

(* Whether a reconnect was forced by the flag. *)
LEMMA ForcedStep == ForcedType /\ [Next]_vars => ForcedType'
<1> SUFFICES ASSUME ForcedType, [Next]_vars
             PROVE  ForcedType'
  OBVIOUS
<1>1. ASSUME NEW k \in Tasks, StopNotify(k) PROVE ForcedType'
  BY <1>1 DEF StopNotify, At, Go, ForcedType, flags, locks
<1>2. ASSUME NEW k \in Tasks, HangUp(k) PROVE ForcedType'
  BY <1>2 DEF HangUp, At, Closes, GivesUp, Finish, Reset, Again, Unregister, Evicted, Register,
     NextWait, ForcedType, locks
<1>3. ASSUME NEW k \in Tasks, DialOpens(k) PROVE ForcedType'
  BY <1>3 DEF DialOpens, At, Go, Register, NextWait, ForcedType, locks
<1>4. ASSUME NEW k \in Tasks, DialFails(k) PROVE ForcedType'
  BY <1>4 DEF DialFails, ConnectRaises, Connecting, Again, Finish, StartDisconnect, Reset,
     Unregister, FirstWait, Release, ForcedType, radio, flags
<1>5. ASSUME NEW k \in Tasks, Subscribes(k) PROVE ForcedType'
  BY <1>5 DEF Subscribes, At, Go, ForcedType, locks
<1>6. ASSUME NEW k \in Tasks, Settles(k) PROVE ForcedType'
  BY <1>6 DEF Settles, At, ConnectReturns, Connecting, Again, Finish, Go, Reset, Unregister,
     ForcedType, radio, flags, locks
<1>7. ASSUME NEW k \in Tasks, TakeLock(k) PROVE ForcedType'
  BY <1>7 DEF TakeLock, At, Go, ForcedType, radio, flags
<1>8. ASSUME NEW k \in Tasks, Attempt(k) PROVE ForcedType'
  BY <1>8 DEF Attempt, At, EnterConnect, Evicting, StartDisconnect, FirstWait, ConnectReturns,
     Connecting, Again, Finish, Go, Reset, Unregister, ForcedType, radio, flags, locks
<1>9. ASSUME NEW k \in Tasks, QueueAgain(k) PROVE ForcedType'
  BY <1>9 DEF QueueAgain, At, Go, ForcedType, radio, flags, locks
<1>10. ASSUME NEW k \in Tasks, TimesOut(k) PROVE ForcedType'
  BY <1>10 DEF TimesOut, GivesUp, ConnectRaises, Connecting, Again, Finish, StartDisconnect,
     Reset, Unregister, FirstWait, Release, ForcedType, radio, flags
<1>11. ASSUME NEW k \in Tasks, TakeWrite(k) PROVE ForcedType'
  BY <1>11 DEF TakeWrite, At, Go, ForcedType, radio, flags
<1>12. ASSUME NEW k \in Tasks, Try(k) PROVE ForcedType'
  <2>1. CASE Alive(on[k]) /\ Go(k, "writing")
    BY <2>1 DEF Go, ForcedType
  <2>2. CASE forced' = [forced EXCEPT ![k] = on[k] \in broken]
    <3>1. (on[k] \in broken) \in BOOLEAN
      OBVIOUS
    <3> QED
      BY <2>2, <3>1, Zenon DEF ForcedType
  <2> QED
    BY <1>12, <2>1, <2>2 DEF Try
<1>13. ASSUME NEW k \in Tasks, Reconnect(k) PROVE ForcedType'
  BY <1>13 DEF Reconnect, At, EnterConnect, Evicting, StartDisconnect, FirstWait, ConnectReturns,
     Connecting, Again, Finish, Go, Reset, Unregister, ForcedType, radio, flags, locks
<1>14. ASSUME NEW k \in Tasks, WriteLands(k) PROVE ForcedType'
  BY <1>14 DEF WriteLands, At, Release, Finish, ForcedType, radio
<1>15. ASSUME NEW k \in Tasks, WriteFails(k) PROVE ForcedType'
  BY <1>15 DEF WriteFails, At, Again, Finish, Release, ForcedType, radio
<1>16. ASSUME NEW k \in Tasks, NEW t \in Transports, Ensure(k, t) \/ PushSlot(k, t) \/
             Send(k, t) \/ Close(k, t) \/ CloseDead(k, t)
      PROVE  ForcedType'
  BY <1>16 DEF Ensure, Begin, At, PushSlot, Send, Close, FirstWait, Unregister, CloseDead, Reset,
     ForcedType, radio, flags, locks, place
<1>17. ASSUME NEW t \in Transports, Drops(t) \/ Notices(t) \/ OnOsDisconnect(t)
      PROVE  ForcedType'
  BY <1>17 DEF Drops, Notices, OnOsDisconnect, ForcedType, flags, locks, place
<1>18. CASE UNCHANGED vars
  BY <1>18 DEF vars, ForcedType, radio, flags, locks, place
<1> QED
  BY <1>1, <1>2, <1>3, <1>4, <1>5, <1>6, <1>7, <1>8, <1>9, <1>10, <1>11, <1>12, <1>13, <1>14,
     <1>15, <1>16, <1>17, <1>18 DEF Next, TaskStep, ConnectStep

(* An operation keeps its transport until it ends. *)
LEMMA BoundStep == PlaceType /\ Bound /\ [Next]_vars => Bound'
<1> SUFFICES ASSUME PlaceType, Bound, [Next]_vars
             PROVE  Bound'
  OBVIOUS
<1> USE Constants DEF Places, Ops
<1>1. ASSUME NEW k \in Tasks, StopNotify(k) PROVE Bound'
  BY <1>1 DEF StopNotify, At, Go, PlaceType, Bound, flags, locks
<1>2. ASSUME NEW k \in Tasks, HangUp(k) PROVE Bound'
  BY <1>2 DEF HangUp, At, Closes, GivesUp, Finish, Reset, Again, Unregister, Evicted, Register,
     NextWait, PlaceType, Bound, locks
<1>3. ASSUME NEW k \in Tasks, DialOpens(k) PROVE Bound'
  BY <1>3 DEF DialOpens, At, Go, Register, NextWait, PlaceType, Bound, locks
<1>4. ASSUME NEW k \in Tasks, DialFails(k) PROVE Bound'
  BY <1>4 DEF DialFails, ConnectRaises, Connecting, Again, Finish, StartDisconnect, Reset,
     Unregister, FirstWait, Release, PlaceType, Bound, radio, flags
<1>5. ASSUME NEW k \in Tasks, Subscribes(k) PROVE Bound'
  BY <1>5 DEF Subscribes, At, Go, PlaceType, Bound, locks
<1>6. ASSUME NEW k \in Tasks, Settles(k) PROVE Bound'
  BY <1>6 DEF Settles, At, ConnectReturns, Connecting, Again, Finish, Go, Reset, Unregister,
     PlaceType, Bound, radio, flags, locks
<1>7. ASSUME NEW k \in Tasks, TakeLock(k) PROVE Bound'
  BY <1>7 DEF TakeLock, At, Go, PlaceType, Bound, radio, flags
<1>8. ASSUME NEW k \in Tasks, Attempt(k) PROVE Bound'
  BY <1>8 DEF Attempt, At, EnterConnect, Evicting, StartDisconnect, FirstWait, ConnectReturns,
     Connecting, Again, Finish, Go, Reset, Unregister, PlaceType, Bound, radio, flags, locks
<1>9. ASSUME NEW k \in Tasks, QueueAgain(k) PROVE Bound'
  BY <1>9 DEF QueueAgain, At, Go, PlaceType, Bound, radio, flags, locks
<1>10. ASSUME NEW k \in Tasks, TimesOut(k) PROVE Bound'
  BY <1>10 DEF TimesOut, GivesUp, ConnectRaises, Connecting, Again, Finish, StartDisconnect,
     Reset, Unregister, FirstWait, Release, PlaceType, Bound, radio, flags
<1>11. ASSUME NEW k \in Tasks, TakeWrite(k) PROVE Bound'
  BY <1>11 DEF TakeWrite, At, Go, PlaceType, Bound, radio, flags
<1>12. ASSUME NEW k \in Tasks, Try(k) PROVE Bound'
  BY <1>12 DEF Try, At, Go, PlaceType, Bound, radio, locks
<1>13. ASSUME NEW k \in Tasks, Reconnect(k) PROVE Bound'
  BY <1>13 DEF Reconnect, At, EnterConnect, Evicting, StartDisconnect, FirstWait, ConnectReturns,
     Connecting, Again, Finish, Go, Reset, Unregister, PlaceType, Bound, radio, flags, locks
<1>14. ASSUME NEW k \in Tasks, WriteLands(k) PROVE Bound'
  BY <1>14 DEF WriteLands, At, Release, Finish, PlaceType, Bound, radio
<1>15. ASSUME NEW k \in Tasks, WriteFails(k) PROVE Bound'
  BY <1>15 DEF WriteFails, At, Again, Finish, Release, PlaceType, Bound, radio
<1>16. ASSUME NEW k \in Tasks, NEW t \in Transports, Ensure(k, t) \/ PushSlot(k, t) \/
             Send(k, t) \/ Close(k, t) \/ CloseDead(k, t)
      PROVE  Bound'
  BY <1>16 DEF Ensure, Begin, At, PushSlot, Send, Close, FirstWait, Unregister, CloseDead, Reset,
     PlaceType, Bound, radio, flags, locks, place
<1>17. ASSUME NEW t \in Transports, Drops(t) \/ Notices(t) \/ OnOsDisconnect(t) PROVE Bound'
  BY <1>17 DEF Drops, Notices, OnOsDisconnect, PlaceType, Bound, flags, locks, place
<1>18. CASE UNCHANGED vars
  BY <1>18 DEF vars, PlaceType, Bound, radio, flags, locks, place
<1> QED
  BY <1>1, <1>2, <1>3, <1>4, <1>5, <1>6, <1>7, <1>8, <1>9, <1>10, <1>11, <1>12, <1>13, <1>14,
     <1>15, <1>16, <1>17, <1>18 DEF Next, TaskStep, ConnectStep

(* A push turns into a send before it waits for the lock. *)
LEMMA WaitsStep == PlaceType /\ Bound /\ Waits /\ [Next]_vars => Waits'
<1> SUFFICES ASSUME PlaceType, Bound, Waits, [Next]_vars
             PROVE  Waits'
  OBVIOUS
<1> USE Constants DEF Places, Ops
<1>1. ASSUME NEW k \in Tasks, StopNotify(k) PROVE Waits'
  BY <1>1 DEF StopNotify, At, Go, PlaceType, Bound, Waits, flags, locks
<1>2. ASSUME NEW k \in Tasks, HangUp(k) PROVE Waits'
  BY <1>2 DEF HangUp, At, Closes, GivesUp, Finish, Reset, Again, Unregister, Evicted, Register,
     NextWait, PlaceType, Bound, Waits, locks
<1>3. ASSUME NEW k \in Tasks, DialOpens(k) PROVE Waits'
  BY <1>3 DEF DialOpens, At, Go, Register, NextWait, PlaceType, Bound, Waits, locks
<1>4. ASSUME NEW k \in Tasks, DialFails(k) PROVE Waits'
  BY <1>4 DEF DialFails, ConnectRaises, Connecting, Again, Finish, StartDisconnect, Reset,
     Unregister, FirstWait, Release, PlaceType, Bound, Waits, radio, flags
<1>5. ASSUME NEW k \in Tasks, Subscribes(k) PROVE Waits'
  BY <1>5 DEF Subscribes, At, Go, PlaceType, Bound, Waits, locks
<1>6. ASSUME NEW k \in Tasks, Settles(k) PROVE Waits'
  BY <1>6 DEF Settles, At, ConnectReturns, Connecting, Again, Finish, Go, Reset, Unregister,
     PlaceType, Bound, Waits, radio, flags, locks
<1>7. ASSUME NEW k \in Tasks, TakeLock(k) PROVE Waits'
  BY <1>7 DEF TakeLock, At, Go, PlaceType, Bound, Waits, radio, flags
<1>8. ASSUME NEW k \in Tasks, Attempt(k) PROVE Waits'
  BY <1>8 DEF Attempt, At, EnterConnect, Evicting, StartDisconnect, FirstWait, ConnectReturns,
     Connecting, Again, Finish, Go, Reset, Unregister, PlaceType, Bound, Waits, radio, flags,
     locks
<1>9. ASSUME NEW k \in Tasks, QueueAgain(k) PROVE Waits'
  BY <1>9 DEF QueueAgain, At, Go, PlaceType, Bound, Waits, radio, flags, locks
<1>10. ASSUME NEW k \in Tasks, TimesOut(k) PROVE Waits'
  BY <1>10 DEF TimesOut, GivesUp, ConnectRaises, Connecting, Again, Finish, StartDisconnect,
     Reset, Unregister, FirstWait, Release, PlaceType, Bound, Waits, radio, flags
<1>11. ASSUME NEW k \in Tasks, TakeWrite(k) PROVE Waits'
  BY <1>11 DEF TakeWrite, At, Go, PlaceType, Bound, Waits, radio, flags
<1>12. ASSUME NEW k \in Tasks, Try(k) PROVE Waits'
  BY <1>12 DEF Try, At, Go, PlaceType, Bound, Waits, radio, locks
<1>13. ASSUME NEW k \in Tasks, Reconnect(k) PROVE Waits'
  BY <1>13 DEF Reconnect, At, EnterConnect, Evicting, StartDisconnect, FirstWait, ConnectReturns,
     Connecting, Again, Finish, Go, Reset, Unregister, PlaceType, Bound, Waits, radio, flags,
     locks
<1>14. ASSUME NEW k \in Tasks, WriteLands(k) PROVE Waits'
  BY <1>14 DEF WriteLands, At, Release, Finish, PlaceType, Bound, Waits, radio
<1>15. ASSUME NEW k \in Tasks, WriteFails(k) PROVE Waits'
  BY <1>15 DEF WriteFails, At, Again, Finish, Release, PlaceType, Bound, Waits, radio
<1>16. ASSUME NEW k \in Tasks, NEW t \in Transports, Ensure(k, t) \/ PushSlot(k, t) \/
             Send(k, t) \/ Close(k, t) \/ CloseDead(k, t)
      PROVE  Waits'
  BY <1>16 DEF Ensure, Begin, At, PushSlot, Send, Close, FirstWait, Unregister, CloseDead, Reset,
     PlaceType, Bound, Waits, radio, flags, locks, place
<1>17. ASSUME NEW t \in Transports, Drops(t) \/ Notices(t) \/ OnOsDisconnect(t) PROVE Waits'
  BY <1>17 DEF Drops, Notices, OnOsDisconnect, PlaceType, Bound, Waits, flags, locks, place
<1>18. CASE UNCHANGED vars
  BY <1>18 DEF vars, PlaceType, Bound, Waits, radio, flags, locks, place
<1> QED
  BY <1>1, <1>2, <1>3, <1>4, <1>5, <1>6, <1>7, <1>8, <1>9, <1>10, <1>11, <1>12, <1>13, <1>14,
     <1>15, <1>16, <1>17, <1>18 DEF Next, TaskStep, ConnectStep

(* Only disconnect() and connect() name a victim, and leave it when they end. *)
LEMMA VictimsStep == PlaceType /\ FlagType /\ Bound /\ Victims /\ [Next]_vars => Victims'
<1> SUFFICES ASSUME PlaceType, FlagType, Bound, Victims, [Next]_vars
             PROVE  Victims'
  OBVIOUS
<1> USE Constants DEF Places, Ops
<1>1. ASSUME NEW k \in Tasks, StopNotify(k) PROVE Victims'
  BY <1>1 DEF StopNotify, At, Go, PlaceType, FlagType, Bound, Victims, flags, locks
<1>2. ASSUME NEW k \in Tasks, HangUp(k) PROVE Victims'
  BY <1>2 DEF HangUp, At, Closes, GivesUp, Finish, Reset, Again, Unregister, Evicted, Register,
     NextWait, PlaceType, FlagType, Bound, Victims, locks
<1>3. ASSUME NEW k \in Tasks, DialOpens(k) PROVE Victims'
  BY <1>3 DEF DialOpens, At, Go, Register, NextWait, PlaceType, FlagType, Bound, Victims, locks
<1>4. ASSUME NEW k \in Tasks, DialFails(k) PROVE Victims'
  BY <1>4 DEF DialFails, ConnectRaises, Connecting, Again, Finish, StartDisconnect, Reset,
     Unregister, FirstWait, Release, PlaceType, FlagType, Bound, Victims, radio, flags
<1>5. ASSUME NEW k \in Tasks, Subscribes(k) PROVE Victims'
  BY <1>5 DEF Subscribes, At, Go, PlaceType, FlagType, Bound, Victims, locks
<1>6. ASSUME NEW k \in Tasks, Settles(k) PROVE Victims'
  BY <1>6 DEF Settles, At, ConnectReturns, Connecting, Again, Finish, Go, Reset, Unregister,
     PlaceType, FlagType, Bound, Victims, radio, flags, locks
<1>7. ASSUME NEW k \in Tasks, TakeLock(k) PROVE Victims'
  BY <1>7 DEF TakeLock, At, Go, PlaceType, FlagType, Bound, Victims, radio, flags
<1>8. ASSUME NEW k \in Tasks, Attempt(k) PROVE Victims'
  BY <1>8 DEF Attempt, At, EnterConnect, Evicting, StartDisconnect, FirstWait, ConnectReturns,
     Connecting, Again, Finish, Go, Reset, Unregister, PlaceType, FlagType, Bound, Victims,
     radio, flags, locks
<1>9. ASSUME NEW k \in Tasks, QueueAgain(k) PROVE Victims'
  BY <1>9 DEF QueueAgain, At, Go, PlaceType, FlagType, Bound, Victims, radio, flags, locks
<1>10. ASSUME NEW k \in Tasks, TimesOut(k) PROVE Victims'
  BY <1>10 DEF TimesOut, GivesUp, ConnectRaises, Connecting, Again, Finish, StartDisconnect,
     Reset, Unregister, FirstWait, Release, PlaceType, FlagType, Bound, Victims, radio, flags
<1>11. ASSUME NEW k \in Tasks, TakeWrite(k) PROVE Victims'
  BY <1>11 DEF TakeWrite, At, Go, PlaceType, FlagType, Bound, Victims, radio, flags
<1>12. ASSUME NEW k \in Tasks, Try(k) PROVE Victims'
  BY <1>12 DEF Try, At, Go, PlaceType, FlagType, Bound, Victims, radio, locks
<1>13. ASSUME NEW k \in Tasks, Reconnect(k) PROVE Victims'
  BY <1>13 DEF Reconnect, At, EnterConnect, Evicting, StartDisconnect, FirstWait, ConnectReturns,
     Connecting, Again, Finish, Go, Reset, Unregister, PlaceType, FlagType, Bound, Victims,
     radio, flags, locks
<1>14. ASSUME NEW k \in Tasks, WriteLands(k) PROVE Victims'
  BY <1>14 DEF WriteLands, At, Release, Finish, PlaceType, FlagType, Bound, Victims, radio
<1>15. ASSUME NEW k \in Tasks, WriteFails(k) PROVE Victims'
  BY <1>15 DEF WriteFails, At, Again, Finish, Release, PlaceType, FlagType, Bound, Victims, radio
<1>16. ASSUME NEW k \in Tasks, NEW t \in Transports, Ensure(k, t) \/ PushSlot(k, t) \/
             Send(k, t) \/ Close(k, t) \/ CloseDead(k, t)
      PROVE  Victims'
  BY <1>16 DEF Ensure, Begin, At, PushSlot, Send, Close, FirstWait, Unregister, CloseDead, Reset,
     PlaceType, FlagType, Bound, Victims, radio, flags, locks, place
<1>17. ASSUME NEW t \in Transports, Drops(t) \/ Notices(t) \/ OnOsDisconnect(t) PROVE Victims'
  BY <1>17 DEF Drops, Notices, OnOsDisconnect, PlaceType, FlagType, Bound, Victims, flags, locks,
     place
<1>18. CASE UNCHANGED vars
  BY <1>18 DEF vars, PlaceType, FlagType, Bound, Victims, radio, flags, locks, place
<1> QED
  BY <1>1, <1>2, <1>3, <1>4, <1>5, <1>6, <1>7, <1>8, <1>9, <1>10, <1>11, <1>12, <1>13, <1>14,
     <1>15, <1>16, <1>17, <1>18 DEF Next, TaskStep, ConnectStep

(* The write lock is left only at the end of send_payload. *)
LEMMA WriterStep ==
    LockType /\ PlaceType /\ Bound /\ Waits /\ Victims /\ WriterSends /\
    [Next]_vars => WriterSends'
<1> SUFFICES ASSUME LockType, PlaceType, Bound, Waits, Victims, WriterSends, [Next]_vars
             PROVE  WriterSends'
  OBVIOUS
<1> USE Constants DEF Places, Ops, Sending
<1>1. ASSUME NEW k \in Tasks, StopNotify(k) PROVE WriterSends'
  BY <1>1 DEF StopNotify, At, Go, LockType, PlaceType, Bound, Waits, Victims, WriterSends, flags,
     locks
<1>2. ASSUME NEW k \in Tasks, HangUp(k) PROVE WriterSends'
  BY <1>2 DEF HangUp, At, Closes, GivesUp, Finish, Reset, Again, Unregister, Evicted, Register,
     NextWait, LockType, PlaceType, Bound, Waits, Victims, WriterSends, locks
<1>3. ASSUME NEW k \in Tasks, DialOpens(k) PROVE WriterSends'
  BY <1>3 DEF DialOpens, At, Go, Register, NextWait, LockType, PlaceType, Bound, Waits, Victims,
     WriterSends, locks
<1>4. ASSUME NEW k \in Tasks, DialFails(k) PROVE WriterSends'
  BY <1>4 DEF DialFails, ConnectRaises, Connecting, Again, Finish, StartDisconnect, Reset,
     Unregister, FirstWait, Release, LockType, PlaceType, Bound, Waits, Victims, WriterSends,
     radio, flags
<1>5. ASSUME NEW k \in Tasks, Subscribes(k) PROVE WriterSends'
  BY <1>5 DEF Subscribes, At, Go, LockType, PlaceType, Bound, Waits, Victims, WriterSends, locks
<1>6. ASSUME NEW k \in Tasks, Settles(k) PROVE WriterSends'
  BY <1>6 DEF Settles, At, ConnectReturns, Connecting, Again, Finish, Go, Reset, Unregister,
     LockType, PlaceType, Bound, Waits, Victims, WriterSends, radio, flags, locks
<1>7. ASSUME NEW k \in Tasks, TakeLock(k) PROVE WriterSends'
  BY <1>7 DEF TakeLock, At, Go, LockType, PlaceType, Bound, Waits, Victims, WriterSends, radio,
     flags
<1>8. ASSUME NEW k \in Tasks, Attempt(k) PROVE WriterSends'
  BY <1>8 DEF Attempt, At, EnterConnect, Evicting, StartDisconnect, FirstWait, ConnectReturns,
     Connecting, Again, Finish, Go, Reset, Unregister, LockType, PlaceType, Bound, Waits,
     Victims, WriterSends, radio, flags, locks
<1>9. ASSUME NEW k \in Tasks, QueueAgain(k) PROVE WriterSends'
  BY <1>9 DEF QueueAgain, At, Go, LockType, PlaceType, Bound, Waits, Victims, WriterSends, radio,
     flags, locks
<1>10. ASSUME NEW k \in Tasks, TimesOut(k) PROVE WriterSends'
  BY <1>10 DEF TimesOut, GivesUp, ConnectRaises, Connecting, Again, Finish, StartDisconnect,
     Reset, Unregister, FirstWait, Release, LockType, PlaceType, Bound, Waits, Victims,
     WriterSends, radio, flags
<1>11. ASSUME NEW k \in Tasks, TakeWrite(k) PROVE WriterSends'
  <2>1. /\ on[k] \in Transports /\ at[k] = "wantWrite" /\ writer[on[k]] = None
        /\ writer' = [writer EXCEPT ![on[k]] = k]
        /\ at' = [at EXCEPT ![k] = "trying"] /\ UNCHANGED <<op, on>>
    BY <1>11 DEF TakeWrite, At, Go, PlaceType, Bound
  <2>2. \A t \in Transports : writer[t] # k
    BY <2>1 DEF WriterSends
  <2>3. op[k] = "send"
    BY <2>1 DEF Waits
  <2> QED
    BY <2>1, <2>2, <2>3 DEF WriterSends, LockType, PlaceType
<1>12. ASSUME NEW k \in Tasks, Try(k) PROVE WriterSends'
  BY <1>12 DEF Try, At, Go, LockType, PlaceType, Bound, Waits, Victims, WriterSends, radio, locks
<1>13. ASSUME NEW k \in Tasks, Reconnect(k) PROVE WriterSends'
  BY <1>13 DEF Reconnect, At, EnterConnect, Evicting, StartDisconnect, FirstWait, ConnectReturns,
     Connecting, Again, Finish, Go, Reset, Unregister, LockType, PlaceType, Bound, Waits,
     Victims, WriterSends, radio, flags, locks
<1>14. ASSUME NEW k \in Tasks, WriteLands(k) PROVE WriterSends'
  BY <1>14 DEF WriteLands, At, Release, Finish, LockType, PlaceType, Bound, Waits, Victims,
     WriterSends, radio
<1>15. ASSUME NEW k \in Tasks, WriteFails(k) PROVE WriterSends'
  BY <1>15 DEF WriteFails, At, Again, Finish, Release, LockType, PlaceType, Bound, Waits, Victims,
     WriterSends, radio
<1>16. ASSUME NEW k \in Tasks, NEW t \in Transports, Ensure(k, t) \/ PushSlot(k, t) \/
             Send(k, t) \/ Close(k, t) \/ CloseDead(k, t)
      PROVE  WriterSends'
  BY <1>16 DEF Ensure, Begin, At, PushSlot, Send, Close, FirstWait, Unregister, CloseDead, Reset,
     LockType, PlaceType, Bound, Waits, Victims, WriterSends, radio, flags, locks, place
<1>17. ASSUME NEW t \in Transports, Drops(t) \/ Notices(t) \/ OnOsDisconnect(t)
      PROVE  WriterSends'
  BY <1>17 DEF Drops, Notices, OnOsDisconnect, LockType, PlaceType, Bound, Waits, Victims,
     WriterSends, flags, locks, place
<1>18. CASE UNCHANGED vars
  BY <1>18 DEF vars, LockType, PlaceType, Bound, Waits, Victims, WriterSends,
     radio, flags, locks, place
<1> QED
  BY <1>1, <1>2, <1>3, <1>4, <1>5, <1>6, <1>7, <1>8, <1>9, <1>10, <1>11, <1>12, <1>13, <1>14,
     <1>15, <1>16, <1>17, <1>18 DEF Next, TaskStep, ConnectStep

(* Who opens a connection registers it, and who takes it out of the registry *)
(* is closing it. An eviction that finds its own transport connected again  *)
(* registers that one, and evicted the only other.                          *)
LEMMA OwnedStep ==
    Two /\ RadioType /\ FlagType /\ PlaceType /\ Bound /\ Victims /\
    LinkOwned /\ [Next]_vars => LinkOwned'
<1> SUFFICES ASSUME Two, RadioType, FlagType, PlaceType, Bound, Victims, LinkOwned, [Next]_vars
             PROVE  LinkOwned'
  OBVIOUS
<1> USE Constants DEF Places, Ops
<1>1. ASSUME NEW k \in Tasks, StopNotify(k) PROVE LinkOwned'
  BY <1>1 DEF StopNotify, At, Go, RadioType, FlagType, PlaceType, Bound, Victims, LinkOwned,
     flags, locks
<1>2. ASSUME NEW k \in Tasks, HangUp(k) PROVE LinkOwned'
  <2> DEFINE v == victim[k]
  <2>1. v \in Transports /\ on[k] \in Transports
    BY <1>2 DEF HangUp, At, PlaceType, Bound, Victims
  <2>2. /\ \A t \in open' \ left' : t # v /\ t \in open \ left
        /\ \A j \in Tasks : j # k => victim'[j] = victim[j]
    BY <1>2, <2>1 DEF HangUp, At, Closes, GivesUp, Finish, Again, Evicted, RadioType, PlaceType
  <2>3. registered' \in {registered, on[k]} \/ (registered = v /\ registered' = None)
    BY <1>2 DEF HangUp, Unregister, Register
  <2>4. registered' # registered /\ registered' # None =>
            \A t \in Transports : t = v \/ t = registered'
    BY <1>2, <2>1 DEF HangUp, Unregister, Register, Two
  <2> QED
    BY <2>1, <2>2, <2>3, <2>4 DEF LinkOwned, RadioType, PlaceType
<1>3. ASSUME NEW k \in Tasks, DialOpens(k) PROVE LinkOwned'
  BY <1>3 DEF DialOpens, At, Go, Register, NextWait, RadioType, FlagType, PlaceType, Bound,
     Victims, LinkOwned, locks
<1>4. ASSUME NEW k \in Tasks, DialFails(k) PROVE LinkOwned'
  BY <1>4 DEF DialFails, ConnectRaises, Connecting, Again, Finish, StartDisconnect, Reset,
     Unregister, FirstWait, Release, RadioType, FlagType, PlaceType, Bound, Victims, LinkOwned,
     radio, flags
<1>5. ASSUME NEW k \in Tasks, Subscribes(k) PROVE LinkOwned'
  BY <1>5 DEF Subscribes, At, Go, RadioType, FlagType, PlaceType, Bound, Victims, LinkOwned, locks
<1>6. ASSUME NEW k \in Tasks, Settles(k) PROVE LinkOwned'
  BY <1>6 DEF Settles, At, ConnectReturns, Connecting, Again, Finish, Go, Reset, Unregister,
     RadioType, FlagType, PlaceType, Bound, Victims, LinkOwned, radio, flags, locks
<1>7. ASSUME NEW k \in Tasks, TakeLock(k) PROVE LinkOwned'
  BY <1>7 DEF TakeLock, At, Go, RadioType, FlagType, PlaceType, Bound, Victims, LinkOwned, radio,
     flags
<1>8. ASSUME NEW k \in Tasks, Attempt(k) PROVE LinkOwned'
  BY <1>8 DEF Attempt, At, EnterConnect, Evicting, StartDisconnect, FirstWait, ConnectReturns,
     Connecting, Again, Finish, Go, Reset, Unregister, RadioType, FlagType, PlaceType, Bound,
     Victims, LinkOwned, radio, flags, locks
<1>9. ASSUME NEW k \in Tasks, QueueAgain(k) PROVE LinkOwned'
  BY <1>9 DEF QueueAgain, At, Go, RadioType, FlagType, PlaceType, Bound, Victims, LinkOwned,
     radio, flags, locks
<1>10. ASSUME NEW k \in Tasks, TimesOut(k) PROVE LinkOwned'
  BY <1>10 DEF TimesOut, GivesUp, ConnectRaises, Connecting, Again, Finish, StartDisconnect,
     Reset, Unregister, FirstWait, Release, RadioType, FlagType, PlaceType, Bound, Victims,
     LinkOwned, radio, flags
<1>11. ASSUME NEW k \in Tasks, TakeWrite(k) PROVE LinkOwned'
  BY <1>11 DEF TakeWrite, At, Go, RadioType, FlagType, PlaceType, Bound, Victims, LinkOwned,
     radio, flags
<1>12. ASSUME NEW k \in Tasks, Try(k) PROVE LinkOwned'
  BY <1>12 DEF Try, At, Go, RadioType, FlagType, PlaceType, Bound, Victims, LinkOwned, radio,
     locks
<1>13. ASSUME NEW k \in Tasks, Reconnect(k) PROVE LinkOwned'
  BY <1>13 DEF Reconnect, At, EnterConnect, Evicting, StartDisconnect, FirstWait, ConnectReturns,
     Connecting, Again, Finish, Go, Reset, Unregister, RadioType, FlagType, PlaceType, Bound,
     Victims, LinkOwned, radio, flags, locks
<1>14. ASSUME NEW k \in Tasks, WriteLands(k) PROVE LinkOwned'
  BY <1>14 DEF WriteLands, At, Release, Finish, RadioType, FlagType, PlaceType, Bound, Victims,
     LinkOwned, radio
<1>15. ASSUME NEW k \in Tasks, WriteFails(k) PROVE LinkOwned'
  BY <1>15 DEF WriteFails, At, Again, Finish, Release, RadioType, FlagType, PlaceType, Bound,
     Victims, LinkOwned, radio
<1>16. ASSUME NEW k \in Tasks, NEW t \in Transports, Ensure(k, t) \/ PushSlot(k, t) \/
             Send(k, t) \/ Close(k, t) \/ CloseDead(k, t)
      PROVE  LinkOwned'
  BY <1>16 DEF Ensure, Begin, At, PushSlot, Send, Close, FirstWait, Unregister, CloseDead, Reset,
     RadioType, FlagType, PlaceType, Bound, Victims, LinkOwned, radio, flags, locks, place
<1>17. ASSUME NEW t \in Transports, Drops(t) \/ Notices(t) \/ OnOsDisconnect(t)
      PROVE  LinkOwned'
  BY <1>17 DEF Drops, Notices, OnOsDisconnect, RadioType, FlagType, PlaceType, Bound, Victims,
     LinkOwned, flags, locks, place
<1>18. CASE UNCHANGED vars
  BY <1>18 DEF vars, RadioType, FlagType, PlaceType, Bound, Victims, LinkOwned,
     radio, flags, locks, place
<1> QED
  BY <1>1, <1>2, <1>3, <1>4, <1>5, <1>6, <1>7, <1>8, <1>9, <1>10, <1>11, <1>12, <1>13, <1>14,
     <1>15, <1>16, <1>17, <1>18 DEF Next, TaskStep, ConnectStep

-----------------------------------------------------------------------------
LEMMA InitTypes == Init => Types
  BY Constants DEF Init, Types, RadioType, FlagType, LockType, PlaceType, CountType, ForcedType,
                   Bound, Waits, Victims, WriterSends, Places, Ops

(* Each part is kept with the parts its lemma names.                        *)
LEMMA TypesStep == Types /\ [Next]_vars => Types'
  BY RadioStep, FlagStep, LockStep, PlaceStep, CountStep, ForcedStep, BoundStep, WaitsStep,
     VictimsStep, WriterStep DEF Types

LEMMA TypesTypeOK == Types => TypeOK
<1> SUFFICES ASSUME Types PROVE TypeOK
  OBVIOUS
<1>1. Cardinality(open) <= 1
  <2>1. CASE open = {}
    BY <2>1, FS_EmptySet
  <2>2. CASE open # {}
    <3>1. PICK t \in open : TRUE
      BY <2>2
    <3>2. open = {t}
      BY <3>1 DEF Types, RadioType
    <3>3. Cardinality({t}) = 1
      BY FS_Singleton
    <3> QED
      BY <3>2, <3>3
  <2> QED
    BY <2>1, <2>2
<1>2. \A t \in Transports : writer[t] # None => on[writer[t]] = t
  BY DEF Types, LockType, WriterSends
<1> QED
  BY <1>1, <1>2 DEF Types, RadioType, FlagType, LockType, PlaceType, CountType, ForcedType, Bound,
                    TypeOK

(* The radio has one connection at most, only live connections are           *)
(* subscribed, and a write lock is with a task that uses that transport: for *)
(* any number of transports.                                                *)
THEOREM TypeCorrect == Spec => []TypeOK
<1>1. Spec => []Types
  BY InitTypes, TypesStep, PTL DEF Spec
<1> QED
  BY <1>1, TypesTypeOK, PTL

(* An open connection of a panel's two transports is the one the registry    *)
(* names, or it is being closed, or its disconnect was given up: an eviction *)
(* finds it.                                                                *)
THEOREM ConnectionsOwned == ASSUME Two PROVE Spec => []LinkOwned
<1>1. Init => IInv
  BY InitTypes DEF IInv, Init, LinkOwned
<1>2. IInv /\ [Next]_vars => IInv'
  BY Two, TypesStep, OwnedStep DEF IInv, Types
<1>3. IInv => LinkOwned
  BY DEF IInv
<1> QED
  BY <1>1, <1>2, <1>3, PTL DEF Spec

-----------------------------------------------------------------------------
(* Who waits, and for whom.                                                 *)

\* What a task is where it is for.
Asks ==
    /\ \A k \in Tasks : at[k] \in {"wantLock", "locked", "pausing"} => Connecting(k)
    /\ \A k \in Tasks : at[k] \in {"wantWrite", "trying", "backoff", "writing"} => op[k] = "send"
    /\ \A k \in Tasks : op[k] = "close" => at[k] \in {"stopping", "hanging"}
    /\ \A k \in Tasks : op[k] = "none" => at[k] = "idle"

\* A sender has the write lock of its transport for the whole of that part.
SendsHold == \A k \in Tasks : op[k] = "send" /\ at[k] \in Sending => writer[on[k]] = k

\* The handshake of ensure_connected, up to the teardown of a failed attempt.
Handshaking(k) ==
    /\ Connecting(k)
    /\ \/ at[k] \in {"locked", "dialling", "subscribing", "settling"}
       \/ at[k] \in {"stopping", "hanging"} /\ victim[k] # on[k]
\* The connect lock covers it, and nothing else.
ConnectorHolds == \A k \in Tasks : connector = k <=> Handshaking(k)

Held == Asks /\ SendsHold /\ ConnectorHolds

(* Each step takes a task to a place its operation has.                     *)
LEMMA AsksStep ==
    PlaceType /\ Bound /\ Victims /\ Asks /\
    [Next]_vars => Asks'
<1> SUFFICES ASSUME PlaceType, Bound, Victims, Asks, [Next]_vars
             PROVE  Asks'
  OBVIOUS
<1> USE Constants DEF Places, Ops, Connecting
<1>1. ASSUME NEW k \in Tasks, StopNotify(k) PROVE Asks'
  BY <1>1 DEF StopNotify, At, Go, PlaceType, Bound, Victims, Asks, flags, locks
<1>2. ASSUME NEW k \in Tasks, HangUp(k) PROVE Asks'
  BY <1>2 DEF HangUp, At, Closes, GivesUp, Finish, Reset, Again, Unregister, Evicted, Register,
     NextWait, PlaceType, Bound, Victims, Asks, locks
<1>3. ASSUME NEW k \in Tasks, DialOpens(k) PROVE Asks'
  BY <1>3 DEF DialOpens, At, Go, Register, NextWait, PlaceType, Bound, Victims, Asks, locks
<1>4. ASSUME NEW k \in Tasks, DialFails(k) PROVE Asks'
  BY <1>4 DEF DialFails, ConnectRaises, Connecting, Again, Finish, StartDisconnect, Reset,
     Unregister, FirstWait, Release, PlaceType, Bound, Victims, Asks, radio, flags
<1>5. ASSUME NEW k \in Tasks, Subscribes(k) PROVE Asks'
  BY <1>5 DEF Subscribes, At, Go, PlaceType, Bound, Victims, Asks, locks
<1>6. ASSUME NEW k \in Tasks, Settles(k) PROVE Asks'
  BY <1>6 DEF Settles, At, ConnectReturns, Connecting, Again, Finish, Go, Reset, Unregister,
     PlaceType, Bound, Victims, Asks, radio, flags, locks
<1>7. ASSUME NEW k \in Tasks, TakeLock(k) PROVE Asks'
  BY <1>7 DEF TakeLock, At, Go, PlaceType, Bound, Victims, Asks, radio, flags
<1>8. ASSUME NEW k \in Tasks, Attempt(k) PROVE Asks'
  BY <1>8 DEF Attempt, At, EnterConnect, Evicting, StartDisconnect, FirstWait, ConnectReturns,
     Connecting, Again, Finish, Go, Reset, Unregister, PlaceType, Bound, Victims, Asks, radio,
     flags, locks
<1>9. ASSUME NEW k \in Tasks, QueueAgain(k) PROVE Asks'
  BY <1>9 DEF QueueAgain, At, Go, PlaceType, Bound, Victims, Asks, radio, flags, locks
<1>10. ASSUME NEW k \in Tasks, TimesOut(k) PROVE Asks'
  BY <1>10 DEF TimesOut, GivesUp, ConnectRaises, Connecting, Again, Finish, StartDisconnect,
     Reset, Unregister, FirstWait, Release, PlaceType, Bound, Victims, Asks, radio, flags
<1>11. ASSUME NEW k \in Tasks, TakeWrite(k) PROVE Asks'
  BY <1>11 DEF TakeWrite, At, Go, PlaceType, Bound, Victims, Asks, radio, flags
<1>12. ASSUME NEW k \in Tasks, Try(k) PROVE Asks'
  BY <1>12 DEF Try, At, Go, PlaceType, Bound, Victims, Asks, radio, locks
<1>13. ASSUME NEW k \in Tasks, Reconnect(k) PROVE Asks'
  BY <1>13 DEF Reconnect, At, EnterConnect, Evicting, StartDisconnect, FirstWait,
     ConnectReturns, Connecting, Again, Finish, Go, Reset, Unregister, PlaceType, Bound,
     Victims, Asks, radio, flags, locks
<1>14. ASSUME NEW k \in Tasks, WriteLands(k) PROVE Asks'
  BY <1>14 DEF WriteLands, At, Release, Finish, PlaceType, Bound, Victims, Asks, radio
<1>15. ASSUME NEW k \in Tasks, WriteFails(k) PROVE Asks'
  BY <1>15 DEF WriteFails, At, Again, Finish, Release, PlaceType, Bound, Victims, Asks, radio
<1>16. ASSUME NEW k \in Tasks, NEW t \in Transports, Ensure(k, t) \/ PushSlot(k, t) \/
             Send(k, t) \/ Close(k, t) \/ CloseDead(k, t)
      PROVE  Asks'
  BY <1>16 DEF Ensure, Begin, At, PushSlot, Send, Close, FirstWait, Unregister, CloseDead,
     Reset, PlaceType, Bound, Victims, Asks, radio, flags, locks, place
<1>17. ASSUME NEW t \in Transports, Drops(t) \/ Notices(t) \/ OnOsDisconnect(t)
      PROVE  Asks'
  BY <1>17 DEF Drops, Notices, OnOsDisconnect, PlaceType, Bound, Victims, Asks, flags, locks,
     place
<1>18. CASE UNCHANGED vars
  BY <1>18 DEF vars, PlaceType, Bound, Victims, Asks, radio, flags, locks, place
<1> QED
  BY <1>1, <1>2, <1>3, <1>4, <1>5, <1>6, <1>7, <1>8, <1>9, <1>10, <1>11, <1>12, <1>13, <1>14,
     <1>15, <1>16, <1>17, <1>18 DEF Next, TaskStep, ConnectStep

(* A write lock is taken before the first attempt and kept until the last.   *)
LEMMA SendsStep ==
    LockType /\ PlaceType /\ Bound /\ Victims /\ Asks /\ WriterSends /\ SendsHold /\
    [Next]_vars => SendsHold'
<1> SUFFICES ASSUME LockType, PlaceType, Bound, Victims, Asks, WriterSends, SendsHold, [Next]_vars
             PROVE  SendsHold'
  OBVIOUS
<1> USE Constants DEF Places, Ops, Sending, Connecting
<1>1. ASSUME NEW k \in Tasks, StopNotify(k) PROVE SendsHold'
  BY <1>1 DEF StopNotify, At, Go, LockType, PlaceType, Bound, Victims, Asks, WriterSends,
     SendsHold, flags, locks
<1>2. ASSUME NEW k \in Tasks, HangUp(k) PROVE SendsHold'
  BY <1>2 DEF HangUp, At, Closes, GivesUp, Finish, Reset, Again, Unregister, Evicted, Register,
     NextWait, LockType, PlaceType, Bound, Victims, Asks, WriterSends, SendsHold, locks
<1>3. ASSUME NEW k \in Tasks, DialOpens(k) PROVE SendsHold'
  BY <1>3 DEF DialOpens, At, Go, Register, NextWait, LockType, PlaceType, Bound, Victims, Asks,
     WriterSends, SendsHold, locks
<1>4. ASSUME NEW k \in Tasks, DialFails(k) PROVE SendsHold'
  BY <1>4 DEF DialFails, ConnectRaises, Connecting, Again, Finish, StartDisconnect, Reset,
     Unregister, FirstWait, Release, LockType, PlaceType, Bound, Victims, Asks, WriterSends,
     SendsHold, radio, flags
<1>5. ASSUME NEW k \in Tasks, Subscribes(k) PROVE SendsHold'
  BY <1>5 DEF Subscribes, At, Go, LockType, PlaceType, Bound, Victims, Asks, WriterSends,
     SendsHold, locks
<1>6. ASSUME NEW k \in Tasks, Settles(k) PROVE SendsHold'
  BY <1>6 DEF Settles, At, ConnectReturns, Connecting, Again, Finish, Go, Reset, Unregister,
     LockType, PlaceType, Bound, Victims, Asks, WriterSends, SendsHold, radio, flags, locks
<1>7. ASSUME NEW k \in Tasks, TakeLock(k) PROVE SendsHold'
  BY <1>7 DEF TakeLock, At, Go, LockType, PlaceType, Bound, Victims, Asks, WriterSends,
     SendsHold, radio, flags
<1>8. ASSUME NEW k \in Tasks, Attempt(k) PROVE SendsHold'
  BY <1>8 DEF Attempt, At, EnterConnect, Evicting, StartDisconnect, FirstWait, ConnectReturns,
     Connecting, Again, Finish, Go, Reset, Unregister, LockType, PlaceType, Bound, Victims,
     Asks, WriterSends, SendsHold, radio, flags, locks
<1>9. ASSUME NEW k \in Tasks, QueueAgain(k) PROVE SendsHold'
  BY <1>9 DEF QueueAgain, At, Go, LockType, PlaceType, Bound, Victims, Asks, WriterSends,
     SendsHold, radio, flags, locks
<1>10. ASSUME NEW k \in Tasks, TimesOut(k) PROVE SendsHold'
  BY <1>10 DEF TimesOut, GivesUp, ConnectRaises, Connecting, Again, Finish, StartDisconnect,
     Reset, Unregister, FirstWait, Release, LockType, PlaceType, Bound, Victims, Asks,
     WriterSends, SendsHold, radio, flags
<1>11. ASSUME NEW k \in Tasks, TakeWrite(k) PROVE SendsHold'
  <2>1. /\ on[k] \in Transports /\ at[k] = "wantWrite" /\ writer[on[k]] = None
        /\ writer' = [writer EXCEPT ![on[k]] = k]
        /\ at' = [at EXCEPT ![k] = "trying"] /\ UNCHANGED <<op, on>>
    BY <1>11 DEF TakeWrite, At, Go, PlaceType, Bound
  <2> QED
    BY <2>1 DEF SendsHold, LockType, PlaceType, Bound
<1>12. ASSUME NEW k \in Tasks, Try(k) PROVE SendsHold'
  BY <1>12 DEF Try, At, Go, LockType, PlaceType, Bound, Victims, Asks, WriterSends, SendsHold,
     radio, locks
<1>13. ASSUME NEW k \in Tasks, Reconnect(k) PROVE SendsHold'
  BY <1>13 DEF Reconnect, At, EnterConnect, Evicting, StartDisconnect, FirstWait,
     ConnectReturns, Connecting, Again, Finish, Go, Reset, Unregister, LockType, PlaceType,
     Bound, Victims, Asks, WriterSends, SendsHold, radio, flags, locks
<1>14. ASSUME NEW k \in Tasks, WriteLands(k) PROVE SendsHold'
  BY <1>14 DEF WriteLands, At, Release, Finish, LockType, PlaceType, Bound, Victims, Asks,
     WriterSends, SendsHold, radio
<1>15. ASSUME NEW k \in Tasks, WriteFails(k) PROVE SendsHold'
  BY <1>15 DEF WriteFails, At, Again, Finish, Release, LockType, PlaceType, Bound, Victims,
     Asks, WriterSends, SendsHold, radio
<1>16. ASSUME NEW k \in Tasks, NEW t \in Transports, Ensure(k, t) \/ PushSlot(k, t) \/
             Send(k, t) \/ Close(k, t) \/ CloseDead(k, t)
      PROVE  SendsHold'
  BY <1>16 DEF Ensure, Begin, At, PushSlot, Send, Close, FirstWait, Unregister, CloseDead,
     Reset, LockType, PlaceType, Bound, Victims, Asks, WriterSends, SendsHold, radio, flags,
     locks, place
<1>17. ASSUME NEW t \in Transports, Drops(t) \/ Notices(t) \/ OnOsDisconnect(t)
      PROVE  SendsHold'
  BY <1>17 DEF Drops, Notices, OnOsDisconnect, LockType, PlaceType, Bound, Victims, Asks,
     WriterSends, SendsHold, flags, locks, place
<1>18. CASE UNCHANGED vars
  BY <1>18 DEF vars, LockType, PlaceType, Bound, Victims, Asks, WriterSends, SendsHold, radio,
     flags, locks, place
<1> QED
  BY <1>1, <1>2, <1>3, <1>4, <1>5, <1>6, <1>7, <1>8, <1>9, <1>10, <1>11, <1>12, <1>13, <1>14,
     <1>15, <1>16, <1>17, <1>18 DEF Next, TaskStep, ConnectStep

(* The connect lock is taken for a handshake, and given up with it.         *)
LEMMA ConnectorStep ==
    LockType /\ PlaceType /\ Bound /\ Victims /\ Asks /\ ConnectorHolds /\
    [Next]_vars => ConnectorHolds'
<1> SUFFICES ASSUME LockType, PlaceType, Bound, Victims, Asks, ConnectorHolds, [Next]_vars
             PROVE  ConnectorHolds'
  OBVIOUS
<1> USE Constants DEF Places, Ops, Connecting, Handshaking
<1>1. ASSUME NEW k \in Tasks, StopNotify(k) PROVE ConnectorHolds'
  BY <1>1 DEF StopNotify, At, Go, LockType, PlaceType, Bound, Victims, Asks, ConnectorHolds,
     flags, locks
<1>2. ASSUME NEW k \in Tasks, HangUp(k) PROVE ConnectorHolds'
  BY <1>2 DEF HangUp, At, Closes, GivesUp, Finish, Reset, Again, Unregister, Evicted, Register,
     NextWait, LockType, PlaceType, Bound, Victims, Asks, ConnectorHolds, locks
<1>3. ASSUME NEW k \in Tasks, DialOpens(k) PROVE ConnectorHolds'
  BY <1>3 DEF DialOpens, At, Go, Register, NextWait, LockType, PlaceType, Bound, Victims, Asks,
     ConnectorHolds, locks
<1>4. ASSUME NEW k \in Tasks, DialFails(k) PROVE ConnectorHolds'
  BY <1>4 DEF DialFails, ConnectRaises, Connecting, Again, Finish, StartDisconnect, Reset,
     Unregister, FirstWait, Release, LockType, PlaceType, Bound, Victims, Asks, ConnectorHolds,
     radio, flags
<1>5. ASSUME NEW k \in Tasks, Subscribes(k) PROVE ConnectorHolds'
  BY <1>5 DEF Subscribes, At, Go, LockType, PlaceType, Bound, Victims, Asks, ConnectorHolds,
     locks
<1>6. ASSUME NEW k \in Tasks, Settles(k) PROVE ConnectorHolds'
  BY <1>6 DEF Settles, At, ConnectReturns, Connecting, Again, Finish, Go, Reset, Unregister,
     LockType, PlaceType, Bound, Victims, Asks, ConnectorHolds, radio, flags, locks
<1>7. ASSUME NEW k \in Tasks, TakeLock(k) PROVE ConnectorHolds'
  BY <1>7 DEF TakeLock, At, Go, LockType, PlaceType, Bound, Victims, Asks, ConnectorHolds,
     radio, flags
<1>8. ASSUME NEW k \in Tasks, Attempt(k) PROVE ConnectorHolds'
  BY <1>8 DEF Attempt, At, EnterConnect, Evicting, StartDisconnect, FirstWait, ConnectReturns,
     Connecting, Again, Finish, Go, Reset, Unregister, LockType, PlaceType, Bound, Victims,
     Asks, ConnectorHolds, radio, flags, locks
<1>9. ASSUME NEW k \in Tasks, QueueAgain(k) PROVE ConnectorHolds'
  BY <1>9 DEF QueueAgain, At, Go, LockType, PlaceType, Bound, Victims, Asks, ConnectorHolds,
     radio, flags, locks
<1>10. ASSUME NEW k \in Tasks, TimesOut(k) PROVE ConnectorHolds'
  BY <1>10 DEF TimesOut, GivesUp, ConnectRaises, Connecting, Again, Finish, StartDisconnect,
     Reset, Unregister, FirstWait, Release, LockType, PlaceType, Bound, Victims, Asks,
     ConnectorHolds, radio, flags
<1>11. ASSUME NEW k \in Tasks, TakeWrite(k) PROVE ConnectorHolds'
  BY <1>11 DEF TakeWrite, At, Go, LockType, PlaceType, Bound, Victims, Asks, ConnectorHolds,
     radio, flags
<1>12. ASSUME NEW k \in Tasks, Try(k) PROVE ConnectorHolds'
  BY <1>12 DEF Try, At, Go, LockType, PlaceType, Bound, Victims, Asks, ConnectorHolds, radio,
     locks
<1>13. ASSUME NEW k \in Tasks, Reconnect(k) PROVE ConnectorHolds'
  BY <1>13 DEF Reconnect, At, EnterConnect, Evicting, StartDisconnect, FirstWait,
     ConnectReturns, Connecting, Again, Finish, Go, Reset, Unregister, LockType, PlaceType,
     Bound, Victims, Asks, ConnectorHolds, radio, flags, locks
<1>14. ASSUME NEW k \in Tasks, WriteLands(k) PROVE ConnectorHolds'
  BY <1>14 DEF WriteLands, At, Release, Finish, LockType, PlaceType, Bound, Victims, Asks,
     ConnectorHolds, radio
<1>15. ASSUME NEW k \in Tasks, WriteFails(k) PROVE ConnectorHolds'
  BY <1>15 DEF WriteFails, At, Again, Finish, Release, LockType, PlaceType, Bound, Victims,
     Asks, ConnectorHolds, radio
<1>16. ASSUME NEW k \in Tasks, NEW t \in Transports, Ensure(k, t) \/ PushSlot(k, t) \/
             Send(k, t) \/ Close(k, t) \/ CloseDead(k, t)
      PROVE  ConnectorHolds'
  BY <1>16 DEF Ensure, Begin, At, PushSlot, Send, Close, FirstWait, Unregister, CloseDead,
     Reset, LockType, PlaceType, Bound, Victims, Asks, ConnectorHolds, radio, flags, locks,
     place
<1>17. ASSUME NEW t \in Transports, Drops(t) \/ Notices(t) \/ OnOsDisconnect(t)
      PROVE  ConnectorHolds'
  BY <1>17 DEF Drops, Notices, OnOsDisconnect, LockType, PlaceType, Bound, Victims, Asks,
     ConnectorHolds, flags, locks, place
<1>18. CASE UNCHANGED vars
  BY <1>18 DEF vars, LockType, PlaceType, Bound, Victims, Asks, ConnectorHolds, radio, flags,
     locks, place
<1> QED
  BY <1>1, <1>2, <1>3, <1>4, <1>5, <1>6, <1>7, <1>8, <1>9, <1>10, <1>11, <1>12, <1>13, <1>14,
     <1>15, <1>16, <1>17, <1>18 DEF Next, TaskStep, ConnectStep

LEMMA HeldStep == Types /\ Held /\ [Next]_vars => Held'
  BY AsksStep, SendsStep, ConnectorStep DEF Types, Held

LEMMA InitHeld == Init => Held
  BY Constants DEF Init, Held, Asks, SendsHold, ConnectorHolds, Handshaking, Connecting, Sending

(* One task at a time sends on a transport, over all its attempts and the   *)
(* reconnects in them, and one handshake is under way (ble_transport.py:260, *)
(* ble_connection.py:182).                                                  *)
OneAtATime ==
    \A j, k \in Tasks : j # k =>
        /\ ~(Handshaking(j) /\ Handshaking(k))
        /\ ~(/\ on[j] = on[k] /\ op[j] = "send" /\ op[k] = "send"
             /\ at[j] \in Sending /\ at[k] \in Sending)

THEOREM LocksExclude == Spec => []OneAtATime
<1>1. Types /\ Held => OneAtATime
  BY DEF Held, SendsHold, ConnectorHolds, OneAtATime
<1> QED
  BY <1>1, InitTypes, InitHeld, TypesStep, HeldStep, PTL DEF Spec

WaitsFor(k, h) ==
    \/ at[k] = "wantWrite" /\ writer[on[k]] = h
    \/ at[k] = "wantLock" /\ connector = h
Waiting(k) == \E h \in Tasks : WaitsFor(k, h)

(* Whoever a task waits for is at work and waits for no lock itself: there   *)
(* is no circle, and a task that is busy and not waiting is always found     *)
(* (ble_transport.py:260-270, ble_connection.py:182).                       *)
NoCircle ==
    /\ \A k, h \in Tasks : WaitsFor(k, h) => at[h] # "idle" /\ ~Waiting(h)
    /\ (\A k \in Tasks : at[k] = "idle") \/ \E k \in Tasks : at[k] # "idle" /\ ~Waiting(k)

THEOREM NobodyWaitsInACircle == Spec => []NoCircle
<1>1. Types /\ Held => NoCircle
  <2> SUFFICES ASSUME Types, Held PROVE NoCircle
    OBVIOUS
  <2>1. ASSUME NEW k \in Tasks, NEW h \in Tasks, WaitsFor(k, h)
        PROVE  at[h] # "idle" /\ ~Waiting(h)
    <3>1. CASE at[k] = "wantWrite" /\ writer[on[k]] = h
      <4>1. on[k] \in Transports
        BY <3>1 DEF Types, Bound, PlaceType
      <4>2. at[h] \in Sending
        BY <3>1, <4>1 DEF Types, WriterSends
      <4> QED
        BY <4>2 DEF Sending, Waiting, WaitsFor
    <3>2. CASE at[k] = "wantLock" /\ connector = h
      BY <3>2 DEF Held, ConnectorHolds, Handshaking, Waiting, WaitsFor
    <3> QED
      BY <2>1, <3>1, <3>2 DEF WaitsFor
  <2>2. ASSUME NEW k \in Tasks, at[k] # "idle"
        PROVE  \E h \in Tasks : at[h] # "idle" /\ ~Waiting(h)
    BY <2>1, <2>2 DEF Waiting
  <2> QED
    BY <2>1, <2>2 DEF NoCircle
<1> QED
  BY <1>1, InitTypes, InitHeld, TypesStep, HeldStep, PTL DEF Spec
==============================================================================
