------------------------------ MODULE Composer ------------------------------
(***************************************************************************)
(* The webmail composer: one React component that stays mounted while the  *)
(* letters written in it come and go, the requests it has in flight, and   *)
(* what the server does with them.                                         *)
(*                                                                         *)
(* Abstractions: a text is the set of letters whose words it holds, and so *)
(* are the attachments; To, Cc and subject are one field that is filled or *)
(* not.  Bcc (which opening a letter does not empty), the 30 ms before a   *)
(* new editor is filled, fonts, templates and window sizes are left out.   *)
(* A step is an event of the browser, or the server's work on a request.   *)
(***************************************************************************)
EXTENDS Integers, Sequences

CONSTANTS Letter,     \* what is written in the composer, one after the other
          UndoSecs,   \* length of the countdown
          MaxCalls    \* requests the composer makes

ASSUME ComposerAssumption == UndoSecs \in Nat \ {0} /\ MaxCalls \in Nat

VARIABLES open,      \* the composer is shown
          letter,    \* the letter it was last opened for
          to,        \* To is filled
          text,      \* letters whose words the editor holds
          files,     \* letters whose attachments are attached
          mini,      \* the composer is minimised
          count,     \* seconds until the letter is sent, or Off
          prompt,    \* "Save this message to Drafts?" is shown
          sending,   \* the Send and Schedule buttons are disabled
          calls,     \* the requests, in the order they were made
          drafts,    \* letters with a copy in the Drafts folder
          asked,     \* history: presses of Send that were not withdrawn
          posted,    \* history: how often a letter was handed to the server
          begun,     \* history: letters that had words
          torn,      \* history: the letter was minimised or closed with its
                     \* words, or an answer to another one came into it
          gone       \* history: letters whose words were given up, or went on
                     \* in a draft that was resumed

written == <<to, text, files>>
shown == <<open, letter, mini, prompt>>
sends == <<count, sending, asked, posted>>
fate == <<begun, torn, gone>>
composerVars == <<written, shown, sends, calls, drafts, fate>>

Off == -1

\* A request, how far it is (under way, answered well or badly, done with or
\* failed for the composer too) and, when it sends a letter, what it sends
\* and what the letter had been through.
CallType ==
  [kind : {"send", "draft", "words", "file"}, of : Letter,
   at : {"way", "ok", "bad", "done", "failed"},
   text : SUBSET Letter, files : SUBSET Letter, worded : BOOLEAN, torn : BOOLEAN]

ComposerInit ==
  /\ to = FALSE /\ text = {} /\ files = {}
  /\ open = FALSE /\ letter = "none" /\ mini = FALSE /\ prompt = FALSE
  /\ count = Off /\ sending = FALSE
  /\ asked = [l \in Letter |-> 0] /\ posted = [l \in Letter |-> 0]
  /\ calls = << >> /\ drafts = {}
  /\ begun = {} /\ torn = FALSE /\ gone = {}

\* The parts of the composer below its header can be used.
Usable == open /\ ~mini /\ ~prompt

Called(kind) ==
  /\ Len(calls) < MaxCalls
  /\ calls' = Append(calls, [kind |-> kind, of |-> letter, at |-> "way",
                             text |-> {}, files |-> {},
                             worded |-> FALSE, torn |-> FALSE])

\* wmSend(), with what the page shows.
Posted ==
  /\ Len(calls) < MaxCalls
  /\ calls' = Append(calls, [kind |-> "send", of |-> letter, at |-> "way",
                             text |-> text, files |-> files,
                             worded |-> letter \in begun, torn |-> torn])
  /\ sending' = TRUE
  /\ posted' = [posted EXCEPT ![letter] = @ + 1]

Reached(i, at) == calls' = [calls EXCEPT ![i].at = at]

\* The server is done with a request of a kind, and the composer hears of it.
Served(i, kind) ==
  /\ calls[i].kind = kind /\ calls[i].at = "way"
  /\ \E at \in {"ok", "bad"} : Reached(i, at)

Heard(i, kind) ==
  /\ calls[i].kind = kind
  /\ \/ calls[i].at = "ok" /\ Reached(i, "done")
     \/ calls[i].at = "bad" /\ Reached(i, "failed")

\* The editor leaves the page, and what it held is not kept.
EditorGoes == text' = {} /\ torn' = (torn \/ text # {})

-----------------------------------------------------------------------------
(* Opening: the effect on `open`, and the page's buttons and shortcuts.    *)

\* Mistake: the attachments of the letter before stay.
Reset_KeepsFiles(l, head, body) ==
  /\ open' = TRUE /\ letter' = l /\ mini' = FALSE
  /\ to' = head /\ text' = body /\ files' = files
  /\ count' = Off
  /\ asked' = IF count = Off THEN asked ELSE [asked EXCEPT ![letter] = @ - 1]
  /\ begun' = begun \union body /\ torn' = FALSE
  /\ UNCHANGED <<prompt, sending, posted, calls>>

\* What the effect resets.  The prompt is not among it.
Reset(l, head, body) ==
  /\ open' = TRUE /\ letter' = l /\ mini' = FALSE
  /\ to' = head /\ text' = body /\ files' = {}
  /\ count' = Off
  /\ asked' = IF count = Off THEN asked ELSE [asked EXCEPT ![letter] = @ - 1]
  /\ begun' = begun \union body /\ torn' = FALSE
  /\ UNCHANGED <<prompt, sending, posted, calls>>

\* A new letter, a reply or a forwarded one.
Compose(l) ==
  /\ ~open /\ l \notin begun /\ l # letter
  /\ \E head \in BOOLEAN, body \in {{}, {l}} : Reset(l, head, body)
  /\ UNCHANGED <<drafts, gone>>

\* A draft is loaded into the composer, as letter l, and its stored copy is
\* put into the Trash, unless that fails; when the composer is open already
\* nothing is loaded.
EditDraft(d, l) ==
  /\ d \in drafts
  /\ drafts' \in {drafts \ {d}, drafts}
  /\ gone' = gone \union {d}
  /\ IF open
     THEN UNCHANGED <<written, shown, sends, calls, begun, torn>>
     ELSE l \notin begun /\ l # letter /\ \E head \in BOOLEAN : Reset(l, head, {l})

-----------------------------------------------------------------------------
(* Writing.                                                                *)

WriteWords ==
  /\ Usable
  /\ text' = text \union {letter} /\ begun' = begun \union {letter}
  /\ UNCHANGED <<to, files, shown, sends, calls, drafts, torn, gone>>

FillTo ==
  /\ Usable
  /\ to' = ~to
  /\ UNCHANGED <<text, files, shown, sends, calls, drafts, fate>>

\* fixGrammar() and runAi(): the answer will replace the editor's content.
AskAi ==
  /\ Usable /\ Called("words")
  /\ UNCHANGED <<written, shown, sends, drafts, fate>>

\* onFiles(): the files are read before they are attached.
Attach ==
  /\ Usable /\ Called("file")
  /\ UNCHANGED <<written, shown, sends, drafts, fate>>

\* The header's button: a minimised composer has no editor.
Minimize ==
  /\ open /\ ~prompt
  /\ mini' = ~mini
  /\ EditorGoes
  /\ gone' = IF text = {} THEN gone ELSE gone \union {letter}
  /\ UNCHANGED <<to, files, open, letter, prompt, sends, calls, drafts, begun>>

-----------------------------------------------------------------------------
(* Sending.                                                                *)

\* doSend(): without a recipient nothing is sent.
DoSend ==
  \/ to /\ Posted /\ UNCHANGED asked
  \/ /\ ~to
     /\ asked' = [asked EXCEPT ![letter] = @ - 1]
     /\ UNCHANGED <<calls, sending, posted>>

\* handleSend(): the countdown starts, or starts again.
PressSend ==
  /\ Usable /\ to /\ Len(calls) < MaxCalls
  /\ count' = UndoSecs
  /\ asked' = IF count = Off THEN [asked EXCEPT ![letter] = @ + 1] ELSE asked
  /\ UNCHANGED <<written, shown, sending, posted, calls, drafts, fate>>

\* confirmSchedule(): a scheduled letter is handed over at once, to wait at
\* the server; a countdown goes on.
Schedule ==
  /\ Usable /\ to /\ ~sending
  /\ Posted
  /\ asked' = [asked EXCEPT ![letter] = @ + 1]
  /\ UNCHANGED <<written, shown, count, drafts, fate>>

Undo ==
  /\ Usable /\ count # Off
  /\ count' = Off
  /\ asked' = [asked EXCEPT ![letter] = @ - 1]
  /\ UNCHANGED <<written, shown, sending, posted, calls, drafts, fate>>

\* Mistake: "Send now" leaves the countdown running.
SendNow_Twice ==
  /\ Usable /\ count # Off
  /\ DoSend
  /\ UNCHANGED <<written, shown, count, drafts, fate>>

SendNow ==
  /\ Usable /\ count # Off
  /\ count' = Off
  /\ DoSend
  /\ UNCHANGED <<written, shown, drafts, fate>>

\* The effect on `countdown` runs whether the composer is shown or not.
CountDown ==
  /\ count > 0
  /\ count' = count - 1
  /\ UNCHANGED <<written, shown, sending, asked, posted, calls, drafts, fate>>

CountdownEnds ==
  /\ count = 0
  /\ count' = Off
  /\ DoSend
  /\ UNCHANGED <<written, shown, drafts, fate>>

-----------------------------------------------------------------------------
(* Closing.                                                                *)

\* onClose(), of whatever letter is shown.  The fields keep their values.
CloseComposer == open' = FALSE /\ EditorGoes

\* isDirty(), of what is on the page.
Dirty == to \/ files # {} \/ text # {}

\* requestClose()
PressClose ==
  /\ open /\ ~prompt
  /\ IF Dirty THEN prompt' = TRUE /\ UNCHANGED <<open, text, torn>>
              ELSE CloseComposer /\ UNCHANGED prompt
  /\ UNCHANGED <<to, files, letter, mini, sends, calls, drafts, begun, gone>>

\* The bin, and "Discard" of the prompt, which stays.
Discard ==
  /\ open /\ (prompt \/ ~mini)
  /\ CloseComposer
  /\ gone' = gone \union {letter}
  /\ UNCHANGED <<to, files, letter, mini, prompt, sends, calls, drafts, begun>>

PromptCancel ==
  /\ open /\ prompt
  /\ prompt' = FALSE
  /\ UNCHANGED <<written, open, letter, mini, sends, calls, drafts, fate>>

\* saveAsDraft(), up to its await.
PressSave ==
  /\ open /\ prompt
  /\ prompt' = FALSE
  /\ Called("draft")
  /\ UNCHANGED <<written, open, letter, mini, sends, drafts, fate>>

-----------------------------------------------------------------------------
(* The server, and the answers.                                            *)

\* POST /messages: the letter is refused, or leaves, or is queued; whatever
\* fails after that, or an answer that is lost, is an error to the composer.
ServeSend(i) ==
  /\ Served(i, "send")
  /\ UNCHANGED <<written, shown, sends, drafts, fate>>

\* POST /messages/draft: an append that fails is not reported.
ServeDraft(i) ==
  /\ Served(i, "draft")
  /\ \/ drafts' = drafts \union {calls[i].of} /\ UNCHANGED gone
     \/ gone' = gone \union {calls[i].of} /\ UNCHANGED drafts
  /\ UNCHANGED <<written, shown, sends, begun, torn>>

\* POST /ai/draft and /ai/grammar.
ServeAi(i) ==
  /\ Served(i, "words")
  /\ UNCHANGED <<written, shown, sends, drafts, fate>>

\* An answer to letter l closes the composer, whoever is in it.
ClosedBy(l) ==
  /\ CloseComposer
  /\ gone' = IF open /\ letter # l THEN gone \union {letter} ELSE gone

\* Mistake: the composer is closed whatever the answer is.
SendAnswered_Closes(i) ==
  /\ Heard(i, "send")
  /\ sending' = FALSE
  /\ ClosedBy(calls[i].of)
  /\ UNCHANGED <<to, files, letter, mini, prompt, count, asked, posted, drafts, begun>>

SendAnswered(i) ==
  /\ Heard(i, "send")
  /\ sending' = FALSE
  /\ IF calls[i].at = "ok" THEN ClosedBy(calls[i].of)
                           ELSE UNCHANGED <<open, text, torn, gone>>
  /\ UNCHANGED <<to, files, letter, mini, prompt, count, asked, posted, drafts, begun>>

\* Saved or not, the composer is closed.
DraftAnswered(i) ==
  /\ Heard(i, "draft")
  /\ ClosedBy(calls[i].of)
  /\ UNCHANGED <<to, files, letter, mini, prompt, sends, drafts, begun>>

Mixed(l) == torn' = (torn \/ l # letter)

\* The words go to whatever editor there is.
AiAnswered(i) ==
  /\ Heard(i, "words")
  /\ IF calls[i].at = "ok" /\ open /\ ~mini
     THEN text' = {calls[i].of} /\ begun' = begun \union {letter} /\ Mixed(calls[i].of)
     ELSE UNCHANGED <<text, begun, torn>>
  /\ UNCHANGED <<to, files, shown, sends, drafts, gone>>

FilesRead(i) ==
  /\ calls[i].kind = "file" /\ calls[i].at = "way"
  /\ Reached(i, "done")
  /\ files' = files \union {calls[i].of}
  /\ Mixed(calls[i].of)
  /\ UNCHANGED <<to, text, shown, sends, drafts, begun, gone>>

ComposerNext ==
  \/ \E l \in Letter : Compose(l) \/ \E d \in Letter : EditDraft(d, l)
  \/ WriteWords \/ FillTo \/ AskAi \/ Attach \/ Minimize
  \/ PressSend \/ Schedule \/ Undo \/ SendNow \/ CountDown \/ CountdownEnds
  \/ PressClose \/ Discard \/ PromptCancel \/ PressSave
  \/ \E i \in DOMAIN calls :
       \/ ServeSend(i) \/ ServeDraft(i) \/ ServeAi(i)
       \/ SendAnswered(i) \/ DraftAnswered(i) \/ AiAnswered(i) \/ FilesRead(i)

ComposerSpec == ComposerInit /\ [][ComposerNext]_composerVars

-----------------------------------------------------------------------------
(* Properties.                                                             *)

ComposerType ==
  /\ open \in BOOLEAN /\ letter \in Letter \union {"none"}
  /\ (open \/ count # Off => letter \in Letter)
  /\ to \in BOOLEAN /\ text \subseteq Letter /\ files \subseteq Letter
  /\ (~open \/ mini => text = {})
  /\ mini \in BOOLEAN /\ prompt \in BOOLEAN /\ sending \in BOOLEAN
  /\ count \in {Off} \union 0 .. UndoSecs
  /\ calls \in Seq(CallType) /\ drafts \subseteq Letter
  /\ asked \in [Letter -> Int] /\ posted \in [Letter -> Nat]
  /\ begun \subseteq Letter /\ torn \in BOOLEAN /\ gone \subseteq Letter

\* A press of Send hands the letter to the server once, and not at all when
\* it was undone, when another letter was opened meanwhile or when there was
\* no recipient left: so many letters went out, or are counted down, as were
\* asked for.
SentAsAsked ==
  \A l \in Letter :
    posted[l] + (IF count # Off /\ letter = l THEN 1 ELSE 0) = asked[l]

\* A letter that had words goes out with them, and without anybody else's
\* words or attachments, unless its composer was minimised or closed before,
\* or an answer that was asked for another letter came into it.
LetterWhole ==
  \A i \in DOMAIN calls :
    LET c == calls[i] IN
    c.kind = "send" /\ ~c.torn =>
      c.text \union c.files \subseteq {c.of} /\ (c.worded => c.of \in c.text)

\* The words of a letter are in its composer, or were sent and the answer was
\* good, or are in Drafts, unless the user threw it away or minimised it, or the
\* draft was not stored, or the answer to another letter closed its composer.
NothingLost ==
  \A l \in begun :
    \/ open /\ letter = l
    \/ l \in drafts \union gone
    \/ \E i \in DOMAIN calls :
         calls[i].kind = "send" /\ calls[i].of = l /\ calls[i].at = "done"

=============================================================================
