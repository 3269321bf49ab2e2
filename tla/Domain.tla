------------------------------- MODULE Domain -------------------------------
(***************************************************************************)
(* internal/domain: what a notification is, for every other component.     *)
(***************************************************************************)
EXTENDS Naturals

CONSTANTS
    Notif,          \* notification ids, all of one channel
    Scheduled,      \* the ones created with a scheduled_at
    MaxAttempts,    \* Notification.MaxAttempts
    None            \* no notification

ASSUME DomainAssumption ==
    /\ Scheduled \subseteq Notif
    /\ MaxAttempts \in Nat \ {0}
    /\ None \notin Notif

Statuses == {"pending", "scheduled", "queued", "processing",
             "sent", "failed", "cancelled"}

\* The statuses NotificationHandler.Cancel accepts: nobody has claimed or
\* closed the notification.
Waiting == {"pending", "scheduled", "queued"}

Terminal == {"sent", "failed", "cancelled"}

\* buildNotification: the status of a request that passed its checks.
InitialStatus(n) == IF n \in Scheduled THEN "scheduled" ELSE "pending"
=============================================================================
