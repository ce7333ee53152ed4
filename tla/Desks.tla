-------------------------------- MODULE Desks --------------------------------
(***************************************************************************)
(* Seven services beside the ledger and identity: identity verification,   *)
(* support conversations, the support widget, wallet links, push devices,  *)
(* the console's transaction feed and announcements.  They share no table, *)
(* no lock and no message, so no state of one is touched by a step of      *)
(* another; `focus' names the service that runs in a behaviour, instead of *)
(* multiplying states that cannot meet.                                    *)
(***************************************************************************)
EXTENDS Verifications, Support, SupportWidget, WalletLink, PushDevices, TransactionFeed,
        Announcements

VARIABLE focus

desksVars == <<focus, verificationVars, supportVars, widgetVars, walletVars, pushVars, feedVars, announcementVars>>

Init ==
  /\ focus \in {"verifications", "support", "widget", "wallet", "push", "feed", "announcements"}
  /\ VerificationInit /\ SupportInit /\ WidgetInit /\ WalletInit /\ PushInit /\ FeedInit
  /\ AnnouncementInit

VerificationStep ==
  /\ focus = "verifications" /\ VerificationNext
  /\ UNCHANGED <<focus, supportVars, widgetVars, walletVars, pushVars, feedVars, announcementVars>>
SupportStep ==
  /\ focus = "support" /\ SupportNext
  /\ UNCHANGED <<focus, verificationVars, widgetVars, walletVars, pushVars, feedVars, announcementVars>>
WidgetStep ==
  /\ focus = "widget" /\ WidgetNext
  /\ UNCHANGED <<focus, verificationVars, supportVars, walletVars, pushVars, feedVars, announcementVars>>
WalletStep ==
  /\ focus = "wallet" /\ WalletNext
  /\ UNCHANGED <<focus, verificationVars, supportVars, widgetVars, pushVars, feedVars, announcementVars>>
PushStep ==
  /\ focus = "push" /\ PushNext
  /\ UNCHANGED <<focus, verificationVars, supportVars, widgetVars, walletVars, feedVars, announcementVars>>
FeedStep ==
  /\ focus = "feed" /\ FeedNext
  /\ UNCHANGED <<focus, verificationVars, supportVars, widgetVars, walletVars, pushVars, announcementVars>>
AnnouncementStep ==
  /\ focus = "announcements" /\ AnnouncementNext
  /\ UNCHANGED <<focus, verificationVars, supportVars, widgetVars, walletVars, pushVars, feedVars>>

Next == VerificationStep \/ SupportStep \/ WidgetStep \/ WalletStep \/ PushStep \/ FeedStep
        \/ AnnouncementStep

Spec == Init /\ [][Next]_desksVars

----------------------------------------------------------------------------
\* Each service's tables, requests and pages hold what they may hold.
DesksTypeOK ==
  /\ VerificationTypeOK /\ SupportTypeOK /\ WidgetTypeOK
  /\ WalletTypeOK /\ PushTypeOK /\ FeedTypeOK /\ AnnouncementTypeOK
=============================================================================
