----------------------------- MODULE MCWorkbench -----------------------------
(***************************************************************************)
(* Four components around the backend that share no state with each other, *)
(* on small instances, one per behaviour: the online adapter of the model, *)
(* the release of a model, the publisher of synthetic readings and the     *)
(* walk over the history pages.                                            *)
(***************************************************************************)
EXTENDS FeatureWindow, ModelRelease, SyntheticPublisher, HistoryPages

VARIABLE part

-------------------------------------------------------------------------------
(* The adapter: a boot of four readings whose first and last carry a load, so *)
(* that high, low and high windows follow each other; a reboot, and another   *)
(* device; windows of two rows.                                               *)

Reading(device, boot, seq, heavy) == [device |-> device, boot |-> boot, seq |-> seq, load |-> heavy]

MCReadings ==
    {Reading("d", "b1", 1, 1), Reading("d", "b1", 2, 0), Reading("d", "b1", 3, 0),
     Reading("d", "b1", 4, 1), Reading("d", "b2", 3, 0), Reading("e", "b1", 2, 1)}

Heavy(rows) == \E i \in DOMAIN rows : rows[i].load = 1

-------------------------------------------------------------------------------
(* The release: a capture of seven rows over two power cycles, an export of   *)
(* another device with labels of its own, and the manifests an operator may   *)
(* write: two good ones (one with an event declared normal), the template,    *)
(* one the parser refuses, one that witnesses no boot, one of generated data. *)

Row(id, device, boot, seq, at, label) ==
    [id |-> id, device |-> device, boot |-> boot, seq |-> seq, at |-> at,
     label |-> label, regime |-> "none"]

Capture == {Row(i, "d", "b1", i, i, -1) : i \in 1 .. 6} \cup {Row(7, "d", "b2", 1, 7, -1)}
Labelled == {Row(i + 7, "e", "b1", i, i, IF i = 5 THEN 1 ELSE 0) : i \in 1 .. 5}

Interval(from, to, label) == [from |-> from, to |-> to, label |-> label]

Good ==
    [provenance |-> "hardware", complete |-> TRUE, filled |-> TRUE, device |-> "d",
     regime |-> "r1", boots |-> {"b1"}, approved |-> <<Interval(1, 5, 0)>>,
     events |-> <<Interval(6, 8, 1)>>]

MCManifests ==
    {Good,
     [Good EXCEPT !.boots = {"b1", "b2"}, !.events = <<Interval(5, 6, 0), Interval(6, 7, 1)>>],
     [Good EXCEPT !.provenance = "unknown", !.filled = FALSE, !.boots = {"b1", "b2"},
                  !.events = <<>>, !.approved = <<Interval(1, 8, 0)>>],
     [Good EXCEPT !.events = <<Interval(4, 6, 1)>>],
     [Good EXCEPT !.boots = {}, !.regime = "r2"],
     [Good EXCEPT !.provenance = "synthetic"]}

Configured(directory, regime, asked, require) ==
    [enabled |-> TRUE, directory |-> directory, device |-> "d", regime |-> regime,
     mode |-> asked, requireValidated |-> require]

MCSettings ==
    {Configured("d", "r1", "active", TRUE), Configured("d", "r1", "active", FALSE),
     Configured("e", "r1", "shadow", FALSE), Configured("d", "", "active", TRUE)}

MCExports == {Capture \cup Labelled}

-------------------------------------------------------------------------------
(* The publisher: every scenario alone, with counts on both sides of its      *)
(* middle, one cut by the cap right behind its drop, one after a reboot, a    *)
(* gap after a scenario that sent the same readings, and nothing at all.      *)

Alone == {<<name>> : name \in {"normal", "duplicate", "gap", "out-of-order", "malformed",
                              "status", "reconnect"}}

MCInvocations ==
    [names : Alone \cup {<<"reconnect", "status">>}, count : {0, 1, 3, 4}]
      \cup [names : {<<"normal", "gap">>}, count : {2, 3, 8, 9}]
      \cup {[names |-> <<"reconnect">>, count |-> 56], [names |-> <<>>, count |-> 1]}

-------------------------------------------------------------------------------
(* The pages: limits below, at and above the clamp, an open and a closed      *)
(* window, one the API refuses.                                               *)

Asking(endpoint, limit, since, until) ==
    [endpoint |-> endpoint, device |-> "d", limit |-> limit, since |-> since, until |-> until]

MCQueries ==
    {Asking("telemetry", 1, -1, -1), Asking("telemetry", 2, 2, -1),
     Asking("telemetry", 2, 2, 2), Asking("telemetry", 3, -1, -1),
     Asking("anomalies", 1, -1, 2)}

-------------------------------------------------------------------------------
(* The four side by side *)

\* The inputs of the components that do not run are fixed.
MCInit ==
    /\ part \in {"window", "release", "publisher", "pages"}
    /\ WindowInit /\ ReleaseInit /\ PublisherInit /\ PagesInit
    /\ part # "release" => settings = CHOOSE s \in MCSettings : TRUE
    /\ part # "publisher" => invoked = CHOOSE i \in MCInvocations : TRUE
    /\ part # "pages" => query = CHOOSE q \in MCQueries : TRUE

MCVars == <<part, windowVars, releaseVars, publisherVars, pageVars>>

MCNext ==
    \/ /\ part = "window" /\ WindowNext
       /\ UNCHANGED <<part, releaseVars, publisherVars, pageVars>>
    \/ /\ part = "release" /\ ReleaseNext
       /\ UNCHANGED <<part, windowVars, publisherVars, pageVars>>
    \/ /\ part = "publisher" /\ PublisherNext
       /\ UNCHANGED <<part, windowVars, releaseVars, pageVars>>
    \/ /\ part = "pages" /\ PagesNext
       /\ UNCHANGED <<part, windowVars, releaseVars, publisherVars>>

MCSpec == MCInit /\ [][MCNext]_MCVars

-------------------------------------------------------------------------------
(* Properties: all but this are the modules' own *)

\* Every variable of the four components has its type.
TypeOK == WindowTypeOK /\ ReleaseTypeOK /\ PublisherTypeOK /\ PagesTypeOK
===============================================================================
