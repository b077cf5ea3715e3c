----------------------------- MODULE MailImport -----------------------------
(***************************************************************************)
(* Copying the mail of another account into a mailbox over IMAP, folder by *)
(* folder: read which Message-IDs the destination has, then append every   *)
(* message of the source that is not among them.  A request that is        *)
(* repeated, or two at once, do this again.                                *)
(*                                                                         *)
(* A message of the source is a model value; its Message-ID is the message *)
(* itself or missing.  One destination folder stands for them all (they    *)
(* are read and filled one after the other), fed by the source folders     *)
(* that mapFolder() maps to it.  Flags, dates and the cap on a folder's    *)
(* size are left out.                                                      *)
(***************************************************************************)
EXTENDS Integers, FiniteSets, Sequences

CONSTANTS Run,       \* runs of importFromImap()
          Source,    \* messages of the source
          NoId,      \* those without a Message-ID
          Boxes      \* the source folders mapped to the destination

ASSUME MailImportAssumption == Boxes \in Seq(Seq(Source)) /\ NoId \subseteq Source

VARIABLES box,       \* per run: the source folder it works on, 0 before
          pos,       \* the message of it that is next, 0 before it is read
          existing,  \* Message-IDs the destination had
          appended,  \* copies in the destination
          met,       \* history: runs that overlapped another one
          blind,     \* history: how often the destination could not be read
          done       \* history: runs that ended

importVars == <<box, pos, existing, appended, met, blind, done>>

Busy == {r \in Run : box[r] > 0 /\ r \notin done}

ImportInit ==
  /\ box = [r \in Run |-> 0] /\ pos = [r \in Run |-> 0]
  /\ existing = [r \in Run |-> {}] /\ appended = [s \in Source |-> 0]
  /\ met = {} /\ blind = 0 /\ done = {}

\* Both accounts are connected, and the source's folders listed.
ImportStart(r) ==
  /\ box[r] = 0 /\ r \notin done
  /\ box' = [box EXCEPT ![r] = 1]
  /\ met' = IF Busy = {} THEN met ELSE met \union Busy \union {r}
  /\ UNCHANGED <<pos, existing, appended, blind, done>>

Identified == {s \in Source \ NoId : appended[s] > 0}

\* Mistake: the Message-IDs are read once, for the first folder.
Known_Once(r) == IF box[r] = 1 THEN Identified ELSE existing[r]

\* The Message-IDs a run reads before it copies a folder.
Known(r) == Identified

\* A destination that cannot be opened counts as empty.
ReadExisting(r) ==
  /\ r \in Busy /\ pos[r] = 0 /\ box[r] <= Len(Boxes)
  /\ \/ existing' = [existing EXCEPT ![r] = Known(r)] /\ UNCHANGED blind
     \/ existing' = [existing EXCEPT ![r] = {}] /\ blind' = blind + 1
  /\ pos' = [pos EXCEPT ![r] = 1]
  /\ UNCHANGED <<box, appended, met, done>>

Reading(r) == r \in Busy /\ pos[r] > 0
Current(r) == Boxes[box[r]][pos[r]]

\* The next message is skipped, when the destination had it or its source
\* cannot be read, or appended, which may fail.
CopyMessage(r) ==
  /\ Reading(r) /\ pos[r] <= Len(Boxes[box[r]])
  /\ \/ UNCHANGED appended
     \/ Current(r) \notin existing[r] /\ appended' = [appended EXCEPT ![Current(r)] = @ + 1]
  /\ pos' = [pos EXCEPT ![r] = @ + 1]
  /\ UNCHANGED <<box, existing, met, blind, done>>

\* The folder is done with, or could not be opened.
NextBox(r) ==
  /\ Reading(r) /\ (pos[r] = 1 \/ pos[r] > Len(Boxes[box[r]]))
  /\ box' = [box EXCEPT ![r] = @ + 1] /\ pos' = [pos EXCEPT ![r] = 0]
  /\ UNCHANGED <<existing, appended, met, blind, done>>

\* The report, or an error of either account at any point.
ImportEnd(r) ==
  /\ r \in Busy
  /\ done' = done \union {r}
  /\ UNCHANGED <<box, pos, existing, appended, met, blind>>

ImportNext ==
  \E r \in Run :
    ImportStart(r) \/ ReadExisting(r) \/ CopyMessage(r) \/ NextBox(r) \/ ImportEnd(r)

ImportSpec == ImportInit /\ [][ImportNext]_importVars

-----------------------------------------------------------------------------
(* Properties.                                                             *)

ImportType ==
  /\ box \in [Run -> Nat] /\ pos \in [Run -> Nat]
  /\ existing \in [Run -> SUBSET Source] /\ appended \in [Source -> Nat]
  /\ met \subseteq Run /\ blind \in Nat /\ done \subseteq Run

\* Where a source folder holds a message; how often one does, at most; and how
\* many runs may have read the destination before any of them wrote to it.
Held(b, s) == {i \in DOMAIN Boxes[b] : Boxes[b][i] = s}
Times(s) == Cardinality(UNION {1 .. Cardinality(Held(b, s)) : b \in DOMAIN Boxes})
Abreast == IF met = {} THEN 1 ELSE Cardinality(met)

\* "It's safe to re-run - already-imported messages are skipped": a message
\* with a Message-ID is copied once (or as often as one folder of the source
\* holds it), wherever earlier runs were broken off and however many folders
\* show it; a run that overlapped another adds one more at most, and so does a
\* time the destination could not be read.
CopiedOnce ==
  \A s \in Source \ NoId :
    appended[s] <= Times(s) * (Abreast + blind)

=============================================================================
