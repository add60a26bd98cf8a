------------------------- MODULE MCNotificationQueue -------------------------
(***************************************************************************)
(* NotificationQueue with one channel that reloads enable and disable, and *)
(* a queue smaller than the number of notes.                               *)
(***************************************************************************)
EXTENDS NotificationQueue

MCBackoff == <<1, 2>>
MCShortBackoff == <<1>>
=============================================================================
