-------------------------- MODULE SyntheticPublisher --------------------------
(***************************************************************************)
(* The program that stands in for the firmware: it plans a run as a        *)
(* sequence of sessions, one boot id and one last will each, and walks it  *)
(* against a broker.  A drop ends a session: the socket is closed, the     *)
(* broker publishes the will, and the next session is connected by hand,   *)
(* one step at a time.  Any step may fail, a publication may stay          *)
(* unconfirmed, the link may be lost, and Ctrl-C may come between any two  *)
(* steps of the walk.                                                      *)
(*                                                                         *)
(* Boot ids are numbered in the order they are drawn.  Measurements are    *)
(* left out: the scenarios that differ in them alone are one.              *)
(***************************************************************************)
EXTENDS Integers, Sequences, FiniteSets, SequencesExt, FiniteSetsExt

CONSTANTS
    Invocations,   \* the command lines: a sequence of scenario names, a count
    Cap            \* MAX_MESSAGES

ASSUME PublisherAssumption ==
    /\ \A i \in Invocations : i.names \in Seq(STRING) /\ i.count \in Int
    /\ Cap \in Nat

VARIABLES
    invoked,     \* the command line
    plan,        \* the sessions of this run, in order
    pc,          \* where the walk is
    session,     \* index of the session being walked
    sent,        \* messages of that session already dealt with
    will,        \* boot id of the will set on the client
    link,        \* boot id of the will the broker holds, 0: no connection
    loop,        \* is a network loop running?
    wire,        \* history: what reached the broker, and under which will
    interrupt,   \* history: where Ctrl-C came, "none" before
    rc           \* the exit code, Running before; a traceback is 1

publisherVars == <<invoked, plan, pc, session, sent, will, link, loop, wire, interrupt, rc>>

Running == -1
FirstBoot == 1
FirstSeq == 1    \* --start-seq

-------------------------------------------------------------------------------
(* The plan *)

Message(kind, boot, seq) == [kind |-> kind, boot |-> boot, seq |-> seq]

Telemetry(boot, seq) == Message("telemetry", boot, seq)
Online(boot) == Message("online", boot, 0)
Offline(boot) == Message("offline", boot, 0)
Drop(boot) == Message("drop", boot, 0)

\* Broken JSON, three documents of this boot, and one with a boot id of no session.
Malformed(boot) ==
    LET body(of) == Message("malformed", of, 0)
    IN <<body(0), body(boot), body(boot), body(boot), body(-1)>>

Truncated(messages) == IF Len(messages) > Cap THEN SubSeq(messages, 1, Cap) ELSE messages

Run(boot, from, n) == [i \in 1 .. n |-> Telemetry(boot, from + i - 1)]

Duplicates(boot, n) ==
    FlattenSeq([i \in 1 .. n |->
        LET reading == Telemetry(boot, FirstSeq + i - 1)
        IN IF i % 2 = 0 THEN <<reading, reading>> ELSE <<reading>>])

\* MUTANT: the jump is an ordinary step.
WithoutGap(boot, n) == Run(boot, FirstSeq, n)

\* The sequence jumps by five after the sample in the middle.
WithGap(boot, n) ==
    [i \in 1 .. n |-> Telemetry(boot, FirstSeq + i - 1 + IF i - 1 > n \div 2 THEN 4 ELSE 0)]

\* At every third index a pair, the later one first.
OutOfOrder(boot, n) ==
    FlattenSeq([i \in 1 .. n |->
        LET seq == FirstSeq + (i - 1) + (i - 1) \div 3
        IN IF i % 3 = 0 THEN <<Telemetry(boot, seq + 1), Telemetry(boot, seq)>>
                        ELSE <<Telemetry(boot, seq)>>])

\* A drop halfway, then a new boot that counts from one again.
Reconnecting(boot, n) ==
    LET half == IF n > 1 THEN n \div 2 ELSE 1
    IN <<Online(boot)>> \o Run(boot, FirstSeq, half) \o <<Drop(boot), Online(boot + 1)>>
         \o Run(boot + 1, 1, n - half)

Scenario(name, boot, n) ==
    CASE name = "duplicate"    -> Duplicates(boot, n)
      [] name = "gap"          -> WithGap(boot, n)
      [] name = "out-of-order" -> OutOfOrder(boot, n)
      [] name = "malformed"    -> SubSeq(Malformed(boot), 1, IF n < 5 THEN n ELSE 5)
      [] name = "status"       -> <<Online(boot)>> \o Run(boot, FirstSeq, n) \o <<Offline(boot)>>
      [] name = "reconnect"    -> Reconnecting(boot, n)
      [] OTHER                 -> Run(boot, FirstSeq, n)   \* normal, spike, drift

\* MUTANT: the boot id a scenario started with is handed to the next one.
BootStays(name, boot) == boot

BootAfter(name, boot) == IF name = "reconnect" THEN boot + 1 ELSE boot

\* One scenario after the other, each under the boot id the last one left.
Messages(names, n) ==
    LET upTo[k \in 0 .. Len(names)] ==
            IF k = 0 THEN [messages |-> <<>>, boot |-> FirstBoot]
            ELSE LET before == upTo[k - 1]
                 IN [messages |-> before.messages \o Truncated(Scenario(names[k], before.boot, n)),
                     boot |-> BootAfter(names[k], before.boot)]
    IN Truncated(upTo[Len(names)].messages)

\* Drops before place i.
Drops(messages, i) == Cardinality({j \in 1 .. i - 1 : messages[j].kind = "drop"})

\* The places of session k: behind the drop of the one before, up to its own.
Places(messages, k) == {i \in DOMAIN messages : Drops(messages, i) = k - 1}

\* Cut after every drop; a session is known by the first boot id it carries.
Sessions(messages) ==
    LET part(k) == SubSeq(messages, Min(Places(messages, k)), Max(Places(messages, k)))
        bootOf(list) == list[Min({i \in DOMAIN list : list[i].boot # 0})].boot
    IN IF messages = <<>>
         THEN <<[boot |-> FirstBoot, messages |-> <<>>]>>
         ELSE [k \in 1 .. Drops(messages, Len(messages)) + 1 |->
                 [boot |-> IF k = 1 THEN FirstBoot ELSE bootOf(part(k)), messages |-> part(k)]]

-------------------------------------------------------------------------------
(* The walk *)

Kinds == {"telemetry", "online", "offline", "malformed", "will"}

\* A session has a boot id that no other one has, its messages carry it or the
\* id of no session, and the will is the broker's to publish.
WellPlanned ==
    /\ plan \in Seq([boot : Nat \ {0},
                     messages : Seq([kind : (Kinds \ {"will"}) \cup {"drop"}, boot : Int, seq : Int])])
    /\ plan # <<>> => plan[1].boot = FirstBoot
    /\ \A i, j \in DOMAIN plan : plan[i].boot = plan[j].boot => i = j
    /\ \A i \in DOMAIN plan : \A j \in DOMAIN plan[i].messages :
          plan[i].messages[j].boot \in {0, -1, plan[i].boot}

PublisherTypeOK ==
    /\ invoked \in Invocations
    /\ WellPlanned
    /\ pc \in {"connect", "start", "send", "dropped", "stopped", "set", "reconnected",
               "looped", "moved", "goodbye", "done"}
    /\ session \in Nat /\ sent \in Nat
    /\ will \in Nat /\ link \in Nat
    /\ loop \in BOOLEAN
    /\ \A i \in DOMAIN wire : wire[i].kind \in Kinds /\ wire[i].under \in Nat
    /\ interrupt \in {"none", "send", "dropped", "stopped", "set", "reconnected",
                      "looped", "moved"}
    /\ rc \in {Running, 0, 1, 2}

PublisherInit ==
    /\ invoked \in Invocations
    /\ plan = IF invoked.count < 1 THEN <<>>
              ELSE Sessions(Messages(invoked.names, invoked.count))
    /\ pc = "connect"
    /\ session = 1
    /\ sent = 0
    /\ will = FirstBoot
    /\ link = 0
    /\ loop = FALSE
    /\ wire = <<>>
    /\ interrupt = "none"
    /\ rc = Running

run == <<invoked, plan>>
walk == <<session, sent>>

Here == plan[session]
Remaining == Len(Here.messages) - sent
Next1 == Here.messages[sent + 1]

\* A message as the broker gets it, under the will it holds.
Received(m) == [kind |-> m.kind, boot |-> m.boot, seq |-> m.seq, under |-> link]

Reaching(m) == Append(wire, Received(m))

\* What the broker publishes for a connection that ended without a DISCONNECT.
WithWill == IF link = 0 THEN wire ELSE Reaching(Message("will", link, 0))

\* The process ends: no thread outlives it, and the broker sees the socket go.
Ends(code) == pc' = "done" /\ rc' = code /\ loop' = FALSE

\* _shutdown(connected=True): the DISCONNECT discards the will.
Leaves(code) == Ends(code) /\ link' = 0

\* A refused command line: no such scenario, a count below one, no password.
Refuse ==
    /\ pc = "connect"
    /\ Ends(2)
    /\ UNCHANGED <<run, walk, will, link, wire, interrupt>>

Connect ==
    /\ pc = "connect" /\ plan # <<>>
    /\ \/ link' = will /\ pc' = "start" /\ UNCHANGED <<loop, rc>>
       \/ Ends(1) /\ UNCHANGED link
    /\ UNCHANGED <<run, walk, will, wire, interrupt>>

StartLoop ==
    /\ pc = "start"
    /\ \/ loop' = TRUE /\ pc' = "send" /\ UNCHANGED rc
       \/ Ends(1)
    /\ UNCHANGED <<run, walk, will, link, wire, interrupt>>

\* MUTANT: the drop is published as a message of its own.
SendAnything ==
    /\ pc = "send" /\ Remaining > 0
    /\ link # 0
    /\ wire' = Reaching(Next1)
    /\ sent' = sent + 1
    /\ UNCHANGED <<run, pc, session, will, link, loop, interrupt, rc>>

\* One publication over a live link, confirmed; the message after it is next.
Send ==
    /\ pc = "send" /\ Remaining > 0 /\ Next1.kind # "drop"
    /\ link # 0
    /\ wire' = Reaching(Next1)
    /\ sent' = sent + 1
    /\ UNCHANGED <<run, pc, session, will, link, loop, interrupt, rc>>

\* A publication that is not confirmed in time.  It may have reached the broker
\* all the same, and the link may have been lost meanwhile.
Unconfirmed(m) ==
    /\ Leaves(1)
    /\ \E arrives \in BOOLEAN, lost \in BOOLEAN :
          LET reached == IF arrives THEN Reaching(m) ELSE wire
          IN wire' = IF lost THEN Append(reached, Received(Message("will", link, 0)))
                             ELSE reached

SendUnconfirmed ==
    /\ pc = "send" /\ Remaining > 0 /\ Next1.kind # "drop"
    /\ link # 0
    /\ Unconfirmed(Next1)
    /\ UNCHANGED <<run, walk, will, interrupt>>

\* publish() on a lost connection raises what no handler catches.
PublishRaises ==
    /\ pc = "goodbye" \/ (pc = "send" /\ Remaining > 0 /\ Next1.kind # "drop")
    /\ link = 0
    /\ Ends(1)
    /\ UNCHANGED <<run, walk, will, link, wire, interrupt>>

\* The socket is closed.  With no session to follow, as when the cap cut the
\* plan behind its drop, the walk ends with an IndexError.
DropConnection ==
    /\ pc = "send" /\ Remaining > 0 /\ Next1.kind = "drop"
    /\ wire' = WithWill
    /\ link' = 0
    /\ IF session < Len(plan)
         THEN pc' = "dropped" /\ sent' = sent + 1 /\ UNCHANGED <<loop, rc>>
         ELSE Ends(1) /\ UNCHANGED sent
    /\ UNCHANGED <<run, session, will, interrupt>>

StopLoop ==
    /\ pc = "dropped"
    /\ loop' = FALSE /\ pc' = "stopped"
    /\ UNCHANGED <<run, walk, will, link, wire, interrupt, rc>>

SetWill ==
    /\ pc = "stopped"
    /\ will' = plan[session + 1].boot /\ pc' = "set"
    /\ UNCHANGED <<run, walk, link, loop, wire, interrupt, rc>>

Reconnect ==
    /\ pc = "set"
    /\ \/ link' = will /\ pc' = "reconnected" /\ UNCHANGED <<loop, rc>>
       \/ Ends(1) /\ UNCHANGED link
    /\ UNCHANGED <<run, walk, will, wire, interrupt>>

RestartLoop ==
    /\ pc = "reconnected"
    /\ \/ loop' = TRUE /\ pc' = "looped" /\ UNCHANGED rc
       \/ Ends(1)
    /\ UNCHANGED <<run, walk, will, link, wire, interrupt>>

\* connected = True; the session walked is still the dead one.
Reconnected ==
    /\ pc = "looped"
    /\ pc' = "moved"
    /\ UNCHANGED <<run, walk, will, link, loop, wire, interrupt, rc>>

NextSession ==
    /\ pc = "moved"
    /\ session' = session + 1 /\ sent' = 0 /\ pc' = "send"
    /\ UNCHANGED <<run, will, link, loop, wire, interrupt, rc>>

Finish ==
    /\ pc = "send" /\ Remaining = 0
    /\ pc' = "goodbye"
    /\ UNCHANGED <<run, walk, will, link, loop, wire, interrupt, rc>>

\* Ctrl-C.  Connected as far as the program knows, it still says goodbye.
Interrupt ==
    /\ pc \in {"send", "dropped", "stopped", "set", "reconnected", "looped", "moved"}
    /\ interrupt' = pc
    /\ IF pc \in {"send", "moved"} THEN pc' = "goodbye" /\ UNCHANGED <<loop, rc>>
                                   ELSE Ends(0)
    /\ UNCHANGED <<run, walk, will, link, wire>>

\* Ctrl-C where nothing catches it.
Abort ==
    /\ pc \in {"connect", "start", "goodbye"}
    /\ Ends(1)
    /\ UNCHANGED <<run, walk, will, link, wire, interrupt>>

Goodbye ==
    /\ pc = "goodbye" /\ link # 0
    /\ wire' = Reaching(Offline(Here.boot))
    /\ Leaves(0)
    /\ UNCHANGED <<run, walk, will, interrupt>>

\* MUTANT: a goodbye nobody confirmed is taken for one.
GoodbyeAssumed ==
    /\ pc = "goodbye" /\ link # 0
    /\ Leaves(0)
    /\ UNCHANGED <<run, walk, will, wire, interrupt>>

GoodbyeUnconfirmed ==
    /\ pc = "goodbye" /\ link # 0
    /\ Unconfirmed(Offline(Here.boot))
    /\ UNCHANGED <<run, walk, will, interrupt>>

\* The connection is lost under the program, or left open by its exit; Paho's
\* own reconnect is off, so it stays lost.
LinkLost ==
    /\ link # 0
    /\ wire' = WithWill
    /\ link' = 0
    /\ UNCHANGED <<run, walk, pc, will, loop, interrupt, rc>>

PublisherNext ==
    \/ Refuse \/ Connect \/ StartLoop
    \/ Send \/ SendUnconfirmed \/ PublishRaises
    \/ DropConnection \/ StopLoop \/ SetWill \/ Reconnect \/ RestartLoop
    \/ Reconnected \/ NextSession \/ Finish
    \/ Interrupt \/ Abort \/ Goodbye \/ GoodbyeUnconfirmed
    \/ LinkLost

PublisherSpec == PublisherInit /\ [][PublisherNext]_publisherVars

-------------------------------------------------------------------------------
(* Properties *)

\* "Nothing from a finished session, least of all its boot id, is reused
\* afterwards" (publish_synthetic.py:32): whatever carries a boot id reaches
\* the broker under the will of that session and before that will is published.
\* The one exception is the goodbye of a Ctrl-C between `connected = True` and
\* `current = session` (publish_synthetic.py:703, 690).
DeadStaysDead ==
    \A j \in DOMAIN wire :
        \/ wire[j].boot \in {0, -1}
        \/ interrupt = "moved" /\ wire[j].kind = "offline"
        \/ /\ wire[j].boot = wire[j].under
           /\ \A i \in 1 .. j - 1 : wire[i].kind = "will" => wire[i].boot # wire[j].boot

\* What stands in a list at some of its places, in order.
Picked(list, places) ==
    [n \in 1 .. Cardinality(places) |->
        list[CHOOSE i \in places : Cardinality({j \in places : j <= i}) = n]]

\* Everything of the run that is for the broker, whatever session it is in.
Planned ==
    LET all == Messages(invoked.names, invoked.count)
    IN Picked(all, {i \in DOMAIN all : all[i].kind # "drop"})

FromDevice ==
    Picked([i \in DOMAIN wire |-> Message(wire[i].kind, wire[i].boot, wire[i].seq)],
           {i \in DOMAIN wire : wire[i].kind # "will"})

\* The last status of the device is not that it is online.
Quiet ==
    \E i \in DOMAIN wire :
        /\ wire[i].kind \in {"offline", "will"}
        /\ \A j \in i + 1 .. Len(wire) : wire[j].kind # "online"

\* Exit code 0 is not a guess.  The retained status of the device is offline
\* once the broker has noticed the exit, whatever was running when it came; a
\* run nobody interrupted has delivered its whole plan, in order, and the
\* goodbye of its last session; and no network loop outlives any exit.
\* (publish_synthetic.py:598 "the process could exit with the announcement
\* still in a local buffer", 740.)
ExitTellsTruth ==
    pc = "done" =>
        /\ ~loop
        /\ rc = 0 /\ link = 0 =>
             /\ Quiet
             /\ interrupt = "none" =>
                  FromDevice = Append(Planned, Offline(Last(plan).boot))

\* The readings of the same boot before place i.
SameBoot(list, i) ==
    {j \in 1 .. i - 1 : list[j].kind = "telemetry" /\ list[j].boot = list[i].boot}

\* The readings the backend counts a gap before (ingestion.py:294): more than
\* one ahead of every reading of the boot so far, as a known one never is.
Skipping(list) ==
    {<<list[i].boot, list[i].seq>> : i \in {k \in DOMAIN list :
        /\ list[k].kind = "telemetry" /\ SameBoot(list, k) # {}
        /\ \A j \in SameBoot(list, k) : list[j].seq + 1 < list[k].seq}}

Lone(name) == invoked.names = <<name>>

\* A run the cap does not cut short exercises what its scenario says and the
\* backend counts it so: a gap scenario "skips sequence numbers, so the backend
\* counts a gap" (publish_synthetic.py:92), one and never a second; readings in
\* pairs are one gap each.  A reboot, a repeat or a rejected document is none,
\* cut or not.  There are two exceptions to line 92, and in both the backend
\* need not count any: one or two samples, which leave no reading behind the
\* jump, and a gap scenario behind another under the same boot id, which repeats
\* its readings and skips nothing new once there are nine samples or more.
ScenarioGaps ==
    LET n == invoked.count
        gaps == Cardinality(Skipping(wire))
    IN rc = 0 /\ interrupt = "none" =>
         /\ Lone("gap") /\ n <= Cap => gaps <= 1 /\ (n >= 3 => gaps = 1)
         /\ Lone("out-of-order") /\ n + n \div 3 <= Cap => gaps = n \div 3
         /\ invoked.names \in {<<s>> : s \in {"normal", "duplicate", "status", "reconnect", "malformed"}}
              => gaps = 0
         /\ invoked.names = <<"normal", "gap">> /\ 2 * n <= Cap =>
              gaps <= 1 /\ (n \in 3 .. 8 => gaps = 1)
===============================================================================
