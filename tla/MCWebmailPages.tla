--------------------------- MODULE MCWebmailPages ---------------------------
(***************************************************************************)
(* Two pages of the webmail, in small instances of Booking and             *)
(* MailFolders: the page others book a meeting on, and the page that shows *)
(* the folders of the mailbox.                                             *)
(*                                                                         *)
(* The two share no variable, so a step of one does the same whatever the  *)
(* other does: a behaviour moves one of them, picked at the start, and the *)
(* other stays as it began.                                                *)
(***************************************************************************)
EXTENDS Booking, MailFolders, TLC

CONSTANTS r1, r2, i1, i2, i3, f1, f2

VARIABLE part

\* Two windows that overlap, and one of them.
MCHours ==
  {{[opens |-> 0, closes |-> 2], [opens |-> 1, closes |-> 3]}, {[opens |-> 0, closes |-> 2]}}

PagesVars == <<vars, foldersVars, part>>

\* One beginning is enough for the part that waits.
PagesInit ==
  /\ part \in {"booking", "folders"}
  /\ Init /\ FoldersInit
  /\ part = "folders" => link.availability = {[opens |-> 0, closes |-> 2]} /\ link.durationMins = 1

BookingMoves == part = "booking" /\ Next /\ UNCHANGED <<foldersVars, part>>
\* Once ticks were carried along nothing is claimed of the folders any more; and
\* the last UID there is to give is kept for a bulk action.
FoldersMove ==
  /\ part = "folders" /\ ~carried /\ FoldersNext
  /\ next' # next /\ Cardinality(Given') = MaxGiven => bulk'.left # bulk.left
  /\ UNCHANGED <<vars, part>>

PagesSpec == PagesInit /\ [][BookingMoves \/ FoldersMove]_PagesVars

\* Requests (and messages, which have their names) are interchangeable, and
\* so are keys and the folders of the user.
Symmetry == Permutations(Req) \union Permutations(Id) \union Permutations(Custom)

=============================================================================
