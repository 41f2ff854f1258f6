--------------------------- MODULE ButtonsProofs ---------------------------
(***************************************************************************)
(* Proofs about the two buttons, for every number of polls, readings,      *)
(* silences, descriptors and datagrams: the types, that only a press held  *)
(* long enough resets the board, and that a report ends for a reason of    *)
(* its own.                                                                *)
(***************************************************************************)
EXTENDS Buttons, TLAPS

\* Every reading that counts has cost a descriptor.
PushesCost == pushed <= fds

\* A reading is part of a press as long as readings succeed and nobody moves the
\* clock: so many were down as the press is said to last, and one more.
HoldInv ==
  fds < MaxFds /\ ~ stepped =>
    /\ rpc = "held" => pushed > elapsed \/ pushed > HoldPolls
    /\ rpc \in {"blink", "reset"} => pushed > HoldPolls

\* While a report is on, interval_count is the number of its silences in a row;
\* and it is 0 while none is on.
CountInv ==
  /\ ipc \in {"send", "check"} => silent = interval_count
  /\ ipc = "key" => interval_count = 0

\* The socket holds no more than was sent.
BufferInv == rcvbuf \in Seq(Datagrams) /\ Len(rcvbuf) <= msgs

\* The types as far as no other invariant says them.
Ranges ==
  /\ rpc \in {"poll", "held", "blink", "reset"} /\ fds \in 0 .. MaxFds
  /\ elapsed \in 0 .. HoldPolls + 1 /\ pushed \in Nat /\ stepped \in BOOLEAN
  /\ ipc \in {"key", "send", "check", "exit"}
  /\ i \in 0 .. KEY_TIMES /\ key_times \in 0 .. i
  /\ interval_count \in 0 .. FOR_2MIM - 1 /\ silent \in 0 .. FOR_2MIM
  /\ socks \in 0 .. MaxSocks
  /\ down \in BOOLEAN /\ key \in BOOLEAN /\ steps \in 0 .. MaxSteps /\ msgs \in 0 .. MaxMsgs

ButtonsInv == Ranges /\ PushesCost /\ HoldInv /\ CountInv /\ BufferInv

\* The buffer of a socket that was just bound.
LEMMA NothingReceived == <<>> \in Seq(Datagrams) /\ Len(<<>>) = 0
OBVIOUS

\* Both programs start with the invariant.
LEMMA ButtonsInvInit == Init => ButtonsInv
<1> SUFFICES ASSUME Init PROVE ButtonsInv
  OBVIOUS
<1>0. stepped \in BOOLEAN /\ down \in BOOLEAN /\ key \in BOOLEAN
  BY DEF Init
<1>1. Ranges
  BY <1>0, SizeAssumption DEF Init, Ranges
<1>2. PushesCost /\ HoldInv /\ CountInv
  BY DEF Init, PushesCost, HoldInv, CountInv
<1>3. BufferInv
  BY NothingReceived DEF Init, BufferInv
<1> QED
  BY <1>1, <1>2, <1>3 DEF ButtonsInv

\* What monitor-recobtn does.
LEMMA RecobtnStep == ButtonsInv /\ Recobtn => ButtonsInv'
<1> SUFFICES ASSUME ButtonsInv, Recobtn
             PROVE  ButtonsInv'
  OBVIOUS
<1> USE SizeAssumption
    DEF ButtonsInv, Ranges, PushesCost, HoldInv, CountInv, BufferInv,
        ipsig, world, press, Leak, Count, get_gpio
<1>1. CASE PollDown
  <2>1. fds # MaxFds /\ fds' = fds + 1 /\ pushed' = 1 /\ elapsed' = 0 /\ rpc' = "held"
    BY <1>1 DEF PollDown
  <2>0. stepped' \in BOOLEAN
    BY <1>1 DEF PollDown
  <2>2. Ranges'
    BY <1>1, <2>0, <2>1 DEF PollDown
  <2>3. PushesCost' /\ CountInv' /\ BufferInv'
    BY <1>1, <2>1 DEF PollDown
  <2>4. HoldInv'
    BY <1>1, <2>1 DEF PollDown
  <2> QED
    BY <2>2, <2>3, <2>4
<1>2. CASE PollNotDown
  BY <1>2 DEF PollNotDown
<1>3. CASE HeldUp
  BY <1>3 DEF HeldUp
<1>4. CASE HeldOn
  BY <1>4 DEF HeldOn
<1>5. CASE HeldOver
  BY <1>5 DEF HeldOver
<1>6. CASE Blink
  BY <1>6 DEF Blink
<1>7. CASE BlinkOver
  BY <1>7 DEF BlinkOver
<1>8. CASE CannotReset
  BY <1>8 DEF CannotReset
<1>9. CASE FactoryReset
  <2>0. stepped' \in BOOLEAN
    BY <1>9 DEF FactoryReset
  <2>1. Ranges'
    BY <1>9, <2>0 DEF FactoryReset
  <2>2. PushesCost' /\ HoldInv' /\ CountInv'
    BY <1>9 DEF FactoryReset
  <2>3. BufferInv'
    BY <1>9, NothingReceived DEF FactoryReset
  <2> QED
    BY <2>1, <2>2, <2>3
<1> QED
  BY <1>1, <1>2, <1>3, <1>4, <1>5, <1>6, <1>7, <1>8, <1>9 DEF Recobtn

\* What monitor-ipsig does.
LEMMA IpsigStep == ButtonsInv /\ (KeyRead \/ KeyTested \/ Report) => ButtonsInv'
<1> SUFFICES ASSUME ButtonsInv, KeyRead \/ KeyTested \/ Report
             PROVE  ButtonsInv'
  OBVIOUS
<1> USE SizeAssumption
    DEF ButtonsInv, Ranges, PushesCost, HoldInv, CountInv, BufferInv,
        recobtn, world, press
<1>1. CASE KeyRead
  BY <1>1 DEF KeyRead
<1>2. CASE KeyTested
  BY <1>2 DEF KeyTested
<1>3. CASE SendIpMac
  BY <1>3 DEF SendIpMac
<1>4. ASSUME rcvbuf # <<>>
      PROVE  Tail(rcvbuf) \in Seq(Datagrams) /\ Len(Tail(rcvbuf)) = Len(rcvbuf) - 1
  BY <1>4
<1>5. CASE CheckSilent
  BY <1>4, <1>5 DEF CheckSilent, Silence
<1>6. CASE CheckMatches
  BY <1>4, <1>6 DEF CheckMatches
<1>7. CASE CheckFails
  BY <1>4, <1>7 DEF CheckFails
<1>8. CASE SelectFails
  BY <1>8 DEF SelectFails
<1> QED
  BY <1>1, <1>2, <1>3, <1>5, <1>6, <1>7, <1>8 DEF Report, Check

\* What the user, the clock and the network do.
LEMMA WorldStep ==
  ButtonsInv /\ (MoveRecovery \/ MoveKey \/ ClockSteps \/ Arrives) => ButtonsInv'
<1> SUFFICES ASSUME ButtonsInv, MoveRecovery \/ MoveKey \/ ClockSteps \/ Arrives
             PROVE  ButtonsInv'
  OBVIOUS
<1> USE SizeAssumption
    DEF ButtonsInv, Ranges, PushesCost, HoldInv, CountInv, BufferInv,
        recobtn, ipsig, press
<1>1. CASE MoveRecovery
  BY <1>1 DEF MoveRecovery
<1>2. CASE MoveKey
  BY <1>2 DEF MoveKey
<1>3. CASE ClockSteps
  BY <1>3 DEF ClockSteps
<1>4. CASE Arrives
  <2>1. PICK d \in Datagrams : rcvbuf' = Append(rcvbuf, d)
    BY <1>4 DEF Arrives
  <2>2. rcvbuf' \in Seq(Datagrams) /\ Len(rcvbuf') = Len(rcvbuf) + 1
    BY <2>1
  <2> QED
    BY <1>4, <2>2 DEF Arrives
<1> QED
  BY <1>1, <1>2, <1>3, <1>4

\* Every step keeps it.
LEMMA ButtonsInvStep == ButtonsInv /\ [Next]_vars => ButtonsInv'
<1>1. ButtonsInv /\ UNCHANGED vars => ButtonsInv'
  BY DEF ButtonsInv, Ranges, PushesCost, HoldInv, CountInv, BufferInv,
         vars, recobtn, ipsig, press, world
<1> QED
  BY <1>1, RecobtnStep, IpsigStep, WorldStep DEF Next

\* The types of both daemons, with the bounds of what they count: no press
\* counts more readings than there are descriptors, and interval_count never
\* passes the value that ends a report.
THEOREM ButtonTypes == Spec => []TypeOK
<1>1. ButtonsInv => TypeOK
  <2> SUFFICES ASSUME ButtonsInv PROVE TypeOK
    OBVIOUS
  <2>1. rcvbuf \in [1 .. Len(rcvbuf) -> Datagrams] /\ Len(rcvbuf) \in 0 .. MaxMsgs
    BY SizeAssumption DEF ButtonsInv, BufferInv, Ranges
  <2>2. rcvbuf \in BoundedSeq(Datagrams, MaxMsgs)
    BY <2>1 DEF BoundedSeq, SeqOf
  <2>3. pushed \in 0 .. MaxFds
    BY SizeAssumption DEF ButtonsInv, PushesCost, Ranges
  <2> QED
    BY <2>2, <2>3 DEF ButtonsInv, Ranges, TypeOK
<1> QED
  BY <1>1, ButtonsInvInit, ButtonsInvStep, PTL DEF Spec

\* Only a press of more than HoldPolls polls, or a step of the clock in it,
\* erases the configuration, even when descriptors run out in the middle of one.
THEOREM OnlyHeldResets == Spec => ResetMeansHeld
<1>1. ButtonsInv /\ [Next]_vars
        => [rpc = "reset" /\ rpc' = "poll" => pushed > HoldPolls \/ stepped]_vars
  <2> SUFFICES ASSUME ButtonsInv, [Next]_vars, rpc = "reset", rpc' = "poll"
               PROVE  pushed > HoldPolls \/ stepped
    OBVIOUS
  <2>1. FactoryReset
    <3> USE DEF world, press, recobtn, ipsig
    <3>1. Recobtn => FactoryReset
      BY DEF Recobtn, PollDown, PollNotDown, HeldUp, HeldOn, HeldOver, Blink, BlinkOver,
             CannotReset
    <3>2. ~ (KeyRead \/ KeyTested \/ Report)
      BY DEF KeyRead, KeyTested, Report, SendIpMac, Check, CheckSilent, CheckMatches, CheckFails,
             SelectFails
    <3>3. ~ (MoveRecovery \/ MoveKey \/ ClockSteps \/ Arrives)
      BY DEF MoveRecovery, MoveKey, ClockSteps, Arrives
    <3>4. ~ UNCHANGED vars
      BY DEF vars
    <3> QED
      BY <3>1, <3>2, <3>3, <3>4 DEF Next
  <2> QED
    BY <2>1 DEF FactoryReset, ButtonsInv, HoldInv
<1> QED
  BY <1>1, ButtonsInvInit, ButtonsInvStep, PTL DEF Spec, ResetMeansHeld

\* A report ends with a datagram for this board or after FOR_2MIM silences in a
\* row, all of them its own.
THEOREM ReportsEndForAReason == Spec => EndsForAReason
<1>1. ButtonsInv /\ [Next]_vars
        => [ipc = "check" /\ ipc' = "key" /\ rpc' = rpc
              => \/ rcvbuf # <<>> /\ Head(rcvbuf) = "mine"
                 \/ silent' = FOR_2MIM]_vars
  <2> SUFFICES ASSUME ButtonsInv, [Next]_vars, ipc = "check", ipc' = "key", rpc' = rpc
               PROVE  (rcvbuf # <<>> /\ Head(rcvbuf) = "mine") \/ silent' = FOR_2MIM
    OBVIOUS
  <2>1. CheckSilent \/ CheckMatches
    <3> USE DEF world, press, recobtn, ipsig
    <3>1. ~ Recobtn
      BY DEF Recobtn, PollDown, PollNotDown, HeldUp, HeldOn, HeldOver, Blink, BlinkOver,
             CannotReset, FactoryReset
    <3>2. ~ KeyRead /\ ~ KeyTested /\ ~ SendIpMac /\ ~ CheckFails /\ ~ SelectFails
      BY DEF KeyRead, KeyTested, SendIpMac, CheckFails, SelectFails
    <3>3. ~ (MoveRecovery \/ MoveKey \/ ClockSteps \/ Arrives)
      BY DEF MoveRecovery, MoveKey, ClockSteps, Arrives
    <3>4. ~ UNCHANGED vars
      BY DEF vars
    <3> QED
      BY <3>1, <3>2, <3>3, <3>4 DEF Next, Report, Check
  <2>2. CheckSilent => silent' = FOR_2MIM
    BY SizeAssumption DEF CheckSilent, Silence, ButtonsInv, CountInv, Ranges
  <2>3. CheckMatches => rcvbuf # <<>> /\ Head(rcvbuf) = "mine"
    BY DEF CheckMatches
  <2> QED
    BY <2>1, <2>2, <2>3
<1> QED
  BY <1>1, ButtonsInvInit, ButtonsInvStep, PTL DEF Spec, EndsForAReason
=============================================================================
