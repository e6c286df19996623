--------------------------- MODULE UpgradeReports ---------------------------
(***************************************************************************)
(* What an upgrader promises the page that shows its progress, seen from   *)
(* what the page does, the starts it was granted and its resets, and from  *)
(* what it can observe: whether an upgrade is running                      *)
(* (OtaManager.isOtaUpgrading) and the completions that were notified      *)
(* (OTA_COMPLETE_STATUS) since the last start.                             *)
(*                                                                         *)
(* A start is granted only while no upgrade runs.  A success is notified   *)
(* by the step that ends a running upgrade, and by nothing else.  A        *)
(* failure may be notified more than once, and also after the upgrade has  *)
(* ended.  No upgrade ends unseen: a step that ends it without a           *)
(* notification is a reset, which the page makes itself.                   *)
(***************************************************************************)
EXTENDS Sequences, Naturals

VARIABLES
    running,    \* is an upgrade running
    reports,    \* the completions notified since the last start
    starts,     \* how many starts were granted
    resets      \* how often the page has reset the upgrader

vars == <<running, reports, starts, resets>>

Init == running = FALSE /\ reports = <<>> /\ starts = 0 /\ resets = 0

\* a start is granted: only while no upgrade runs
Request == /\ ~running
           /\ starts' = starts + 1
           /\ reports' = <<>>
           /\ UNCHANGED <<running, resets>>

\* the block of a start runs, some time after it was granted
Begin == /\ running' = TRUE
         /\ UNCHANGED <<reports, starts, resets>>

\* the end of an upgrade, or of one that was given up before
Succeed == /\ running
           /\ running' = FALSE
           /\ reports' = Append(reports, "success")
           /\ UNCHANGED <<starts, resets>>
Fail == /\ running' = FALSE
        /\ reports' \in {Append(reports, "failure"),
                         Append(Append(reports, "failure"), "failure")}
        /\ UNCHANGED <<starts, resets>>

\* the page is opened or left: the only end without a notification
Reset == /\ resets' = resets + 1
         /\ running' = FALSE
         /\ UNCHANGED <<reports, starts>>

Next == Request \/ Begin \/ Succeed \/ Fail \/ Reset

Spec == Init /\ [][Next]_vars
=============================================================================
