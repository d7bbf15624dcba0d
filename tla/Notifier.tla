------------------------------- MODULE Notifier -------------------------------
(***************************************************************************)
(* NotificationDispatcher of runner/notifier.py, and the loop of the       *)
(* worker that gives it the alerts of a committed bar, one after the other.*)
(* An alert that was sent is not sent again within the cooldown: when it   *)
(* was sent is remembered in memory, by the hash of title and message.     *)
(*                                                                         *)
(* A request may be delivered and its answer lost, may fail, and takes its *)
(* time; the clock of the host may be set back or ahead; the worker may    *)
(* die between any two steps.                                              *)
(***************************************************************************)
EXTENDS Integers, Sequences

CONSTANTS
    Alerts,
    NoAlert,
    Cooldown,        \* cooldown_seconds
    RequestTimeout,  \* bound on a request: the timeout of urlopen
    MaxWall,         \* bound on real time
    MaxSetBack,      \* bound on how far the clock is set back and ahead
    MaxSent          \* bound on the requests and the restarts

ASSUME NotifierAssumption ==
    /\ NoAlert \notin Alerts
    /\ Cooldown \in Nat /\ RequestTimeout \in Nat
    /\ MaxWall \in Nat /\ MaxSetBack \in Nat /\ MaxSent \in Nat

VARIABLES
    wall,               \* real time
    setBack, setAhead,  \* how far time.time was set back, and ahead, in all
    outbox,         \* pending_alerts of the bar that was committed
    sentAt,         \* _sent_hashes
    request,        \* the request under way: [alert, now, asked] or NoAlert
    outcome,        \* what the last call came to: [alert, result, at]
    life,           \* which process of the worker runs
    arrived         \* history: the deliveries, [alert, at, life, known]

notifyVars == <<wall, setBack, setAhead, outbox, sentAt, request, outcome, life,
                arrived>>

WallClock == wall - setBack + setAhead

\* _sent_hashes.get(h, 0.0): the epoch is longer ago than any cooldown.
NeverSent == -(Cooldown + MaxSetBack)

Idle == request = NoAlert

NoOutcome == [alert |-> NoAlert, result |-> "none", at |-> 0]

-----------------------------------------------------------------------------

NotifyInit ==
    /\ wall = 0 /\ setBack = 0 /\ setAhead = 0
    /\ outbox = <<>>
    /\ sentAt = [a \in Alerts |-> NeverSent]
    /\ request = NoAlert
    /\ outcome = NoOutcome
    /\ life = 0
    /\ arrived = <<>>

WallTicks ==
    /\ wall < MaxWall
    /\ ~Idle => wall - request.asked < RequestTimeout
    /\ wall' = wall + 1
    /\ UNCHANGED <<setBack, setAhead, outbox, sentAt, request, outcome, life, arrived>>

WallSetBack ==
    /\ setBack + setAhead < MaxSetBack
    /\ setBack' = setBack + 1
    /\ UNCHANGED <<wall, setAhead, outbox, sentAt, request, outcome, life, arrived>>

WallSetAhead ==
    /\ setBack + setAhead < MaxSetBack
    /\ setAhead' = setAhead + 1
    /\ UNCHANGED <<wall, setBack, outbox, sentAt, request, outcome, life, arrived>>

(* A bar was committed with these alerts; both accounts may say the same.   *)
BarCommitted(alerts) ==
    /\ outbox = <<>>
    /\ Idle
    /\ outbox' = alerts
    /\ UNCHANGED <<wall, setBack, setAhead, sentAt, request, outcome, life, arrived>>

\* Variant for mutation: the cooldown is one instant shorter.
CoolingShort(a) == WallClock - sentAt[a] < Cooldown - 1

Cooling(a) == WallClock - sentAt[a] < Cooldown

(* send_alert within the cooldown of its alert: nothing is sent. *)
Suppress ==
    /\ outbox # <<>> /\ Idle
    /\ Cooling(Head(outbox))
    /\ outcome' = [alert |-> Head(outbox), result |-> "suppressed", at |-> wall]
    /\ outbox' = Tail(outbox)
    /\ UNCHANGED <<wall, setBack, setAhead, sentAt, request, life, arrived>>

\* Variant for mutation: the alert is remembered before it is sent.
PostRemembered ==
    /\ outbox # <<>> /\ Idle
    /\ ~Cooling(Head(outbox))
    /\ Len(arrived) + life < MaxSent
    /\ request' = [alert |-> Head(outbox), now |-> WallClock, asked |-> wall]
    /\ sentAt' = [sentAt EXCEPT ![Head(outbox)] = WallClock]
    /\ outcome' = NoOutcome
    /\ outbox' = Tail(outbox)
    /\ UNCHANGED <<wall, setBack, setAhead, life, arrived>>

(* Otherwise the clock is read and then the request goes out. *)
Post ==
    /\ outbox # <<>> /\ Idle
    /\ ~Cooling(Head(outbox))
    /\ Len(arrived) + life < MaxSent
    /\ request' = [alert |-> Head(outbox), now |-> WallClock, asked |-> wall]
    /\ outcome' = NoOutcome
    /\ outbox' = Tail(outbox)
    /\ UNCHANGED <<wall, setBack, setAhead, sentAt, life, arrived>>

\* the request reaches the receivers of the topic
Delivered(known) ==
    arrived' = Append(arrived, [alert |-> request.alert, at |-> wall,
                                life |-> life, known |-> known])

Ended(result) ==
    /\ outcome' = [alert |-> request.alert, result |-> result, at |-> wall]
    /\ request' = NoAlert

(* A 2xx answer: the time read before the request is remembered. *)
Accepted ==
    /\ ~Idle
    /\ Delivered(TRUE)
    /\ sentAt' = [sentAt EXCEPT ![request.alert] = request.now]
    /\ Ended("sent")
    /\ UNCHANGED <<wall, setBack, setAhead, outbox, life>>

(* Another answer or an exception, though the alert was delivered, ... *)
AnswerLost ==
    /\ ~Idle
    /\ Delivered(FALSE)
    /\ Ended("failed")
    /\ UNCHANGED <<wall, setBack, setAhead, outbox, sentAt, life>>

(* ... or because it was not. *)
NotDelivered ==
    /\ ~Idle
    /\ Ended("failed")
    /\ UNCHANGED <<wall, setBack, setAhead, outbox, sentAt, life, arrived>>

(* The worker dies, with or without a request under way. *)
DispatcherRestarts ==
    /\ Len(arrived) + life < MaxSent
    /\ life' = life + 1
    /\ outbox' = <<>>
    /\ sentAt' = [a \in Alerts |-> NeverSent]
    /\ request' = NoAlert
    /\ outcome' = NoOutcome
    /\ UNCHANGED <<wall, setBack, setAhead, arrived>>

NotifyNext ==
    \/ WallTicks \/ WallSetBack \/ WallSetAhead
    \/ \E a, b \in Alerts : BarCommitted(<<a>>) \/ BarCommitted(<<a, b>>)
    \/ Suppress \/ Post
    \/ Accepted \/ AnswerLost \/ NotDelivered
    \/ DispatcherRestarts

NotifySpec == NotifyInit /\ [][NotifyNext]_notifyVars

-----------------------------------------------------------------------------
(* Properties *)

(* Types of the dispatcher's memory and of the requests. *)
NotifyTypeOK ==
    /\ wall \in 0..MaxWall
    /\ setBack \in 0..MaxSetBack /\ setAhead \in 0..MaxSetBack
    /\ outbox \in Seq(Alerts)
    /\ sentAt \in [Alerts -> NeverSent..(MaxWall + MaxSetBack)]
    /\ ~Idle => request.alert \in Alerts /\ request.asked \in 0..wall
    /\ outcome.result \in {"none", "suppressed", "sent", "failed"}
    /\ life \in Nat

(* An alert reaches the operator a second time before the cooldown (less    *)
(* the time a request takes, and what the clock was set ahead) is over only *)
(* after a restart, or when the answer to the first request was lost.       *)
NotTwiceInCooldown ==
    \A i, j \in DOMAIN arrived :
        /\ i < j
        /\ arrived[i].alert = arrived[j].alert
        /\ arrived[i].life = arrived[j].life
        /\ arrived[i].known
        => arrived[j].at - arrived[i].at >= Cooldown - RequestTimeout - setAhead

(* An alert is held back only if the operator has it: the same one was      *)
(* delivered, by this process, no longer ago than the cooldown and what the *)
(* clock was set back.  A request that failed holds nothing back.           *)
SuppressedWasDelivered ==
    outcome.result = "suppressed" =>
        \E i \in DOMAIN arrived :
            /\ arrived[i].alert = outcome.alert
            /\ arrived[i].life = life
            /\ outcome.at - arrived[i].at < Cooldown + setBack

(* The cooldown does what it is for, no more and no less.                   *)
CooldownIsRight == NotTwiceInCooldown /\ SuppressedWasDelivered

=============================================================================
