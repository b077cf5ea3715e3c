---------------------------- MODULE SecurityPage ----------------------------
(***************************************************************************)
(* Signing in to the webmail and the Security page of its settings, in     *)
(* the browsers of one user: the profile a browser keeps, what the cards   *)
(* of the page ask for, and the factors the server has.                    *)
(*                                                                         *)
(* The recovery address and the email factor are two keys of one row of    *)
(* preferences (see Preferences), which a request reads and then writes    *)
(* back whole; so do the pages of the settings, of any browser, from the   *)
(* row they loaded, and whatever else the server keeps in the row: mail to *)
(* be sent, senders blocked, and the security events that most requests    *)
(* here record last.  These others are writers with a copy of the row.     *)
(*                                                                         *)
(* Other requests are served in one step, but for a passkey's, whose       *)
(* challenge comes first: how they interleave inside is in WebmailLogin    *)
(* and AccountAccess.  /auth/me reads its fields one after the other; as   *)
(* what is said below is said of each field, it is one step as well.  A    *)
(* second press of a button before the first was answered, wrong codes,    *)
(* the lists of sessions and events, and the end of sessions and           *)
(* challenges are left out.                                                *)
(***************************************************************************)
EXTENDS Integers, FiniteSets

CONSTANTS Browser,    \* browsers, with one tab at a time
          Contact,    \* addresses for the recovery email
          Writer,     \* those who write the row of preferences for another key
          NagEvery,   \* visits from one reminder to the next, 10 in the code
          MaxPresses, \* bound on the buttons pressed
          MaxWires    \* bound on the requests of a browser under way at once

ASSUME SecurityAssumption == NagEvery \in Nat \ {0} /\ {MaxPresses, MaxWires} \subseteq Nat

VARIABLES totp,      \* the authenticator: its secret, 0 for none, and totpEnabled
          contact,   \* recoveryEmail
          emailOn,   \* emailOtpEnabled
          copies,    \* the row as the other writers have it
          testCode,  \* the code of the email factor's set-up, in Redis
          keys,      \* the passkeys, by the challenge they answered
          ceremony,  \* the registration challenge, in Redis
          tab,       \* what a browser shows
          visits,    \* its localStorage "2faVisits"
          wires,     \* requests under way
          presses,   \* buttons pressed; it numbers secrets, codes and challenges
          unsure,    \* history: fields of a profile that may be old
          proved,    \* history: addresses a code came back from
          moved      \* history: the address changed under a code or the factor

passkeys == <<keys, ceremony>>
codeVars == <<testCode, proved, moved>>
browserVars == <<tab, visits, presses>>
prefsRow == <<contact, emailOn>>
securityVars == <<totp, prefsRow, copies, codeVars, passkeys, browserVars, wires, unsure>>

Number == 0 .. MaxPresses
NoCode == [n |-> 0, to |-> "none"]

\* What /auth/me says of a user, and the profile a login returns, which lacks it.
Fields == {"totp", "email", "contact"}
Known == [totp |-> totp.on, email |-> emailOn, contact |-> contact]
Bare == [totp |-> FALSE, email |-> FALSE, contact |-> "none"]

\* The row of preferences, and the one of a page that did not load it.
Row == [contact |-> contact, on |-> emailOn]
NoRow == [contact |-> "none", on |-> FALSE]

\* A tab: its page and profile; the secret and the address that the cards show;
\* the methods a login may use; and whether it was counted as a visit, and nags.
SignedOut == [at |-> "login", profile |-> Bare, secret |-> 0, sent |-> "none",
              methods |-> {}, counted |-> FALSE, nag |-> FALSE]
InApp(b) == tab[b].at \in {"mail", "security"}

\* A request of the button `kind`, with its number or address, and the row it read;
\* once its page was left, its answer goes back to the profile of then.
Wire(b, kind, n, to) ==
  [by |-> b, kind |-> kind, n |-> n, to |-> to, at |-> "asked", left |-> FALSE,
   base |-> Bare, row |-> NoRow]

\* The field of the profile that a button changes.
FieldOf(kind) ==
  CASE kind \in {"verify", "disable"} -> {"totp"}
    [] kind \in {"emailVerify", "emailOff"} -> {"email"}
    [] kind = "contact" -> {"contact"}
    [] OTHER -> {}
Touches(kind) == IF kind = "setup" THEN {"totp"} ELSE FieldOf(kind)

SecurityInit ==
  /\ totp = [secret |-> 0, on |-> FALSE] /\ contact = "none" /\ emailOn = FALSE
  /\ copies = [v \in Writer |-> NoRow]
  /\ testCode = NoCode /\ keys = {} /\ ceremony = 0
  /\ tab = [b \in Browser |-> SignedOut] /\ visits = [b \in Browser |-> 0]
  /\ wires = {} /\ presses = 0
  /\ unsure = [b \in Browser |-> {}] /\ proved = {} /\ moved = FALSE

-----------------------------------------------------------------------------
(* Signing in and out.                                                     *)

Methods ==
  {m \in {"passkey", "totp", "email"} :
     \/ m = "passkey" /\ keys # {}
     \/ m = "totp" /\ totp.on
     \/ m = "email" /\ emailOn}

\* The app with a profile: TwoFactorNag counts a load once, unless the profile
\* says that a factor is on.
Show(b, shown) ==
  LET counts == ~shown.counted /\ ~shown.profile.totp /\ ~shown.profile.email
      n == (visits[b] + 1) % NagEvery
  IN  IF counts
      THEN /\ tab' = [tab EXCEPT ![b] = [shown EXCEPT !.counted = TRUE, !.nag = @ \/ n = 0]]
           /\ visits' = [visits EXCEPT ![b] = n]
      ELSE tab' = [tab EXCEPT ![b] = shown] /\ UNCHANGED visits

\* done(): the app is shown with the profile of the login, and asks for more.
Enter(b) ==
  /\ Show(b, [tab[b] EXCEPT !.at = "mail", !.profile = Bare, !.methods = {}])
  /\ wires' = wires \union {Wire(b, "me", 0, "none")}
  /\ unsure' = [unsure EXCEPT ![b] = UNION {Touches(w.kind) : w \in {v \in wires : v.by = b}}]

\* onSubmit(), with the right password.
SignIn(b) ==
  /\ tab[b].at = "login"
  /\ IF Methods = {} THEN Enter(b)
     ELSE /\ tab' = [tab EXCEPT ![b].at = "factor", ![b].methods = Methods]
          /\ UNCHANGED <<visits, wires, unsure>>
  /\ UNCHANGED <<totp, prefsRow, copies, codeVars, passkeys, presses>>

\* verifyAuthentication(), with a passkey there is.
ByPasskey(b) == "passkey" \in tab[b].methods /\ keys # {}

\* A code of the secret there is, whether or not it is enabled, or one sent to the
\* address there is.
ByCode(b) == totp.secret # 0 \/ ("email" \in tab[b].methods /\ contact # "none")

\* onPasskey(), onMfa() and onSendEmail().
PassFactor(b) ==
  /\ tab[b].at = "factor"
  /\ ByPasskey(b) \/ ByCode(b)
  /\ Enter(b)
  /\ UNCHANGED <<totp, prefsRow, copies, codeVars, passkeys, presses>>

\* The answers to a page that is left come to the profile it had last.
Left(b) ==
  {IF w.by = b /\ w.kind # "me" /\ ~w.left THEN [w EXCEPT !.left = TRUE, !.base = tab[b].profile] ELSE w :
     w \in wires}

\* handleLogout(), and "cancelled" of the effect that asks for the profile.
SignOut(b) ==
  /\ InApp(b)
  /\ tab' = [tab EXCEPT ![b] = [SignedOut EXCEPT !.counted = tab[b].counted]]
  /\ wires' = {w \in Left(b) : w.by # b \/ w.kind # "me"}
  /\ UNCHANGED <<totp, prefsRow, copies, codeVars, passkeys, visits, presses, unsure>>

\* Another tab, later, when the session is over.
NewTab(b) ==
  /\ tab[b] # SignedOut /\ \A w \in wires : w.by # b
  /\ tab' = [tab EXCEPT ![b] = SignedOut]
  /\ UNCHANGED <<totp, prefsRow, copies, codeVars, passkeys, visits, presses, wires, unsure>>

OpenSecurity(b) ==
  /\ tab[b].at = "mail"
  /\ tab' = [tab EXCEPT ![b].at = "security", ![b].nag = FALSE]
  /\ UNCHANGED <<totp, prefsRow, copies, codeVars, passkeys, visits, presses, wires, unsure>>

LeaveSecurity(b) ==
  /\ tab[b].at = "security"
  /\ tab' = [tab EXCEPT ![b].at = "mail", ![b].secret = 0, ![b].sent = "none"]
  /\ wires' = Left(b)
  /\ UNCHANGED <<totp, prefsRow, copies, codeVars, passkeys, visits, presses, unsure>>

-----------------------------------------------------------------------------
(* The cards of the Security page.                                         *)

\* The buttons that each card shows: "setup", "emailSetup" and "options" ask for
\* a new number, the others send the one the user read.
Button(kind, n, to) == [kind |-> kind, n |-> n, to |-> to]

ContactCard(b) == {Button("contact", 0, a) : a \in Contact \ {tab[b].profile.contact}}

PasskeysCard(b) ==
  {Button("options", presses + 1, "none")} \union {Button("remove", k, "none") : k \in keys}

AuthenticatorCard(b) ==
  IF tab[b].profile.totp THEN {Button("disable", 0, "none")}
  ELSE IF tab[b].secret = 0 THEN {Button("setup", presses + 1, "none")}
  ELSE {Button("verify", tab[b].secret, "none")}

EmailCard(b) ==
  IF tab[b].profile.email THEN {Button("emailOff", 0, "none")}
  ELSE IF tab[b].profile.contact = "none" THEN {}
  ELSE IF tab[b].sent = "none" THEN {Button("emailSetup", presses + 1, "none")}
  ELSE {Button("emailVerify", testCode.n, "none")}

PressButton(b) ==
  /\ tab[b].at = "security" /\ presses < MaxPresses
  /\ \E button \in ContactCard(b) \union PasskeysCard(b) \union AuthenticatorCard(b) \union EmailCard(b) :
       LET mine == {w \in wires : w.by = b} IN
       /\ Cardinality(mine) < MaxWires /\ \A w \in mine : w.kind # button.kind
       /\ wires' = wires \union {Wire(b, button.kind, button.n, button.to)}
       /\ unsure' = [unsure EXCEPT ![b] = @ \union
                       UNION {IF w.kind = "me" THEN Touches(button.kind)
                              ELSE Touches(w.kind) \intersect Touches(button.kind) : w \in mine}]
  /\ presses' = presses + 1
  /\ UNCHANGED <<totp, prefsRow, copies, codeVars, passkeys, tab, visits>>

Becomes(w, at) == wires' = (wires \ {w}) \union {[w EXCEPT !.at = at]}

\* Done; other browsers are not told what changed, nor is this one of what its
\* request undid.
Turned == {f \in Fields : Known'[f] # Known[f]}

Did(w) ==
  /\ \E at \in {"ok", "lost"} : Becomes(w, at)
  /\ unsure' = [b \in Browser |-> unsure[b] \union
                  (Turned \ (IF b = w.by THEN Touches(w.kind) ELSE {}))]

\* setupTotp(), which turns the factor off.
ServeSetup(w) ==
  /\ w.kind = "setup" /\ w.at = "asked"
  /\ totp' = [secret |-> w.n, on |-> FALSE]
  /\ UNCHANGED <<prefsRow, copies, codeVars, passkeys, browserVars>>
  /\ Did(w)

\* verifyAndEnable()
ServeVerify(w) ==
  /\ w.kind = "verify" /\ w.at = "asked" /\ totp.secret = w.n
  /\ totp' = [totp EXCEPT !.on = TRUE]
  /\ UNCHANGED <<prefsRow, copies, codeVars, passkeys, browserVars>>
  /\ Did(w)

\* disableTotp()
ServeDisable(w) ==
  /\ w.kind = "disable" /\ w.at = "asked"
  /\ totp' = [secret |-> 0, on |-> FALSE]
  /\ UNCHANGED <<prefsRow, copies, codeVars, passkeys, browserVars>>
  /\ Did(w)

-----------------------------------------------------------------------------
(* The row of preferences.                                                 *)

\* The code was right, and the row is still to be written.
Proving == \E w \in wires : w.at = "proved"

\* The row is written back whole.  The address moves when it is set `under` a
\* factor that is on, or changes while a code is out or has just come back.
SetRow(now, under) ==
  /\ contact' = now.contact /\ emailOn' = now.on
  /\ moved' = (moved \/ under \/ (now.contact # contact /\ (testCode # NoCode \/ Proving)))

\* readPrefs(), before the row is written or a code sent.
ReadRow(w) ==
  /\ w.at = IF w.kind = "emailVerify" THEN "proved" ELSE "asked"
  /\ w.kind \in {"contact", "emailSetup", "emailVerify", "emailOff"}
  /\ wires' = (wires \ {w}) \union {[w EXCEPT !.at = "read", !.row = Row]}
  /\ UNCHANGED <<totp, prefsRow, copies, codeVars, passkeys, browserVars, unsure>>

\* setRecoveryEmail(): the address need not be proved, though the factor may be on.
ServeContact(w) ==
  /\ w.kind = "contact" /\ w.at = "read"
  /\ SetRow([contact |-> w.to, on |-> w.row.on], w.row.on /\ w.to # w.row.contact)
  /\ UNCHANGED <<totp, copies, testCode, proved, passkeys, browserVars>>
  /\ Did(w)

\* The code is sent to the address that was read.
ServeEmailSetup(w) ==
  /\ w.kind = "emailSetup" /\ w.at = "read" /\ w.row.contact # "none"
  /\ testCode' = [n |-> w.n, to |-> w.row.contact]
  /\ moved' = (moved \/ w.row.contact # contact)
  /\ UNCHANGED <<totp, prefsRow, copies, proved, passkeys, browserVars>>
  /\ Did(w)

\* Mistake: once the code is gone, any will do.
TakeCode_Gone(w) ==
  /\ w.kind = "emailVerify" /\ w.at = "asked" /\ testCode.n \in {0, w.n}
  /\ proved' = proved \union {testCode.to} /\ testCode' = NoCode
  /\ Becomes(w, "proved")
  /\ UNCHANGED <<totp, prefsRow, copies, moved, passkeys, browserVars, unsure>>

\* The code is right, and deleted.
TakeCode(w) ==
  /\ w.kind = "emailVerify" /\ w.at = "asked" /\ testCode # NoCode /\ testCode.n = w.n
  /\ proved' = proved \union {testCode.to} /\ testCode' = NoCode
  /\ Becomes(w, "proved")
  /\ UNCHANGED <<totp, prefsRow, copies, moved, passkeys, browserVars, unsure>>

\* setEmailOtpEnabled()
ServeEmail(w) ==
  /\ w.kind \in {"emailVerify", "emailOff"} /\ w.at = "read"
  /\ SetRow([contact |-> w.row.contact, on |-> w.kind = "emailVerify"], FALSE)
  /\ UNCHANGED <<totp, copies, testCode, proved, passkeys, browserVars>>
  /\ Did(w)

\* Another writer reads the row, or has none loaded.
OtherReads(v) ==
  /\ \E row \in {Row, NoRow} : copies' = [copies EXCEPT ![v] = row]
  /\ UNCHANGED <<totp, prefsRow, codeVars, passkeys, browserVars, wires, unsure>>

\* saveSettings(), writePrefs() and the like, for another key.
OtherWrites(v) ==
  /\ SetRow(copies[v], FALSE)
  /\ UNCHANGED <<totp, copies, testCode, proved, passkeys, browserVars, wires>>
  /\ unsure' = [b \in Browser |-> unsure[b] \union Turned]

-----------------------------------------------------------------------------
(* Passkeys, and what goes wrong.                                          *)

\* getRegistrationOptions() keeps one challenge; verifyRegistration() takes it;
\* and deletePasskey().
ServePasskey(w) ==
  /\ w.at = "asked"
  /\ \/ w.kind = "options" /\ ceremony' = w.n /\ UNCHANGED keys
     \/ w.kind = "register" /\ ceremony # 0 /\ ceremony = w.n
        /\ ceremony' = 0 /\ keys' = keys \union {w.n}
     \/ w.kind = "remove" /\ keys' = keys \ {w.n} /\ UNCHANGED ceremony
  /\ UNCHANGED <<totp, prefsRow, copies, codeVars, browserVars>>
  /\ Did(w)

\* A code or a challenge has five minutes.
CodeExpires ==
  /\ \/ testCode # NoCode /\ testCode' = NoCode /\ UNCHANGED ceremony
     \/ ceremony # 0 /\ ceremony' = 0 /\ UNCHANGED testCode
  /\ UNCHANGED <<totp, prefsRow, copies, proved, moved, keys, browserVars, wires, unsure>>

\* A request that is refused, does not come through, or fails before its write.
Refused(w) ==
  /\ w.at \in {"asked", "proved", "read"} /\ Becomes(w, "refused")
  /\ UNCHANGED <<totp, prefsRow, copies, codeVars, passkeys, browserVars, unsure>>

-----------------------------------------------------------------------------
(* Answers.                                                                *)

\* Mistake: the other fields are dropped.
Patched_Alone(profile, w) ==
  CASE w.kind = "contact" -> [Bare EXCEPT !.contact = w.to]
    [] w.kind \in {"verify", "disable"} -> [Bare EXCEPT !.totp = (w.kind = "verify")]
    [] w.kind \in {"emailVerify", "emailOff"} -> [Bare EXCEPT !.email = (w.kind = "emailVerify")]
    [] OTHER -> profile

\* patch()
Patched(profile, w) ==
  CASE w.kind = "contact" -> [profile EXCEPT !.contact = w.to]
    [] w.kind \in {"verify", "disable"} -> [profile EXCEPT !.totp = (w.kind = "verify")]
    [] w.kind \in {"emailVerify", "emailOff"} -> [profile EXCEPT !.email = (w.kind = "emailVerify")]
    [] OTHER -> profile

\* What is shown after the answer: the cards' own state is gone with their page.
After(b, w) ==
  LET profile == Patched(IF w.left THEN w.base ELSE tab[b].profile, w) IN
  [tab[b] EXCEPT !.profile = IF FieldOf(w.kind) = {} THEN @ ELSE profile,
                 !.secret = IF w.left THEN @ ELSE IF w.kind = "setup" THEN w.n
                            ELSE IF w.kind = "verify" THEN 0 ELSE @,
                 !.sent = IF w.left THEN @ ELSE IF w.kind = "emailSetup" THEN w.row.contact
                          ELSE IF w.kind = "emailVerify" THEN "none" ELSE @]

\* The options of a passkey are followed by its registration, on any page.
Answered(w) ==
  LET b == w.by
      next == IF w.kind = "options" THEN {Wire(b, "register", w.n, "none")} ELSE {}
  IN  /\ w.at = "ok" /\ w.kind # "me"
      /\ IF InApp(b) THEN Show(b, After(b, w))
         ELSE tab' = [tab EXCEPT ![b] = After(b, w)] /\ UNCHANGED visits
      /\ wires' = (wires \ {w}) \union next
      /\ unsure' = [unsure EXCEPT ![b] = @ \union
           (IF w.left THEN {f \in Fields \ FieldOf(w.kind) : tab'[b].profile[f] # tab[b].profile[f]}
            ELSE {})]
      /\ UNCHANGED <<totp, prefsRow, copies, codeVars, passkeys, presses>>

\* GET /auth/me, and its answer.
ServeMe(w) ==
  /\ w.kind = "me" /\ w.at = "asked"
  /\ wires' = (wires \ {w}) \union {[w EXCEPT !.at = "ok", !.base = Known]}
  /\ UNCHANGED <<totp, prefsRow, copies, codeVars, passkeys, browserVars, unsure>>

MeAnswered(w) ==
  /\ w.kind = "me" /\ w.at = "ok"
  /\ Show(w.by, [tab[w.by] EXCEPT !.profile = w.base])
  /\ wires' = wires \ {w}
  /\ UNCHANGED <<totp, prefsRow, copies, codeVars, passkeys, presses, unsure>>

\* An error is shown; without a profile the login page is.
Failed(w) ==
  LET b == w.by IN
  /\ w.at \in {"refused", "lost"}
  /\ IF w.kind = "me"
     THEN /\ tab' = [tab EXCEPT ![b] = [SignedOut EXCEPT !.counted = tab[b].counted]]
          /\ wires' = Left(b) \ {w}
     ELSE wires' = wires \ {w} /\ UNCHANGED tab
  /\ unsure' = [unsure EXCEPT ![b] = @ \union (IF w.at = "lost" THEN Touches(w.kind) ELSE {})]
  /\ UNCHANGED <<totp, prefsRow, copies, codeVars, passkeys, visits, presses>>

SecurityNext ==
  \/ \E b \in Browser : \/ SignIn(b) \/ PassFactor(b) \/ SignOut(b) \/ NewTab(b)
                        \/ OpenSecurity(b) \/ LeaveSecurity(b) \/ PressButton(b)
  \/ \E w \in wires : \/ ServeSetup(w) \/ ServeVerify(w) \/ ServeDisable(w)
                      \/ ReadRow(w) \/ ServeContact(w) \/ ServeEmailSetup(w) \/ TakeCode(w)
                      \/ ServeEmail(w) \/ ServePasskey(w) \/ Refused(w) \/ ServeMe(w)
                      \/ Answered(w) \/ MeAnswered(w) \/ Failed(w)
  \/ \E v \in Writer : OtherReads(v) \/ OtherWrites(v)
  \/ CodeExpires

SecuritySpec == SecurityInit /\ [][SecurityNext]_securityVars

-----------------------------------------------------------------------------
(* Properties.                                                             *)

SecurityType ==
  /\ totp \in [secret : Number, on : BOOLEAN] /\ contact \in Contact \union {"none"}
  /\ {emailOn, moved} \subseteq BOOLEAN /\ testCode \in [n : Number, to : Contact \union {"none"}]
  /\ keys \subseteq Number /\ ceremony \in Number /\ presses \in Number
  /\ visits \in [Browser -> 0 .. NagEvery - 1] /\ unsure \in [Browser -> SUBSET Fields]
  /\ \A b \in Browser : tab[b].at \in {"login", "factor", "mail", "security"}

\* A browser in the app with no answer to come shows the factors and the address
\* the server has, but for what another browser changed, what a writer of the whole
\* row took back with the other key (a request or a page that had read it before),
\* what was changed twice at once or while the profile was on its way, an answer
\* that was lost, and one that came to a page left before another was answered.
ShownAsIs ==
  \A b \in Browser :
    InApp(b) /\ (\A w \in wires : w.by # b) =>
      \A f \in Fields \ unsure[b] : tab[b].profile[f] = Known[f]

\* The email factor is on only with an address a code came back from, unless the
\* address was changed while the factor was on, or while a code was on its way or
\* had come back; a row written back from an old copy turns it on with the address
\* of that copy.
EmailWasProved == emailOn => contact \in proved \/ moved

\* "Once 2FA is on it never shows": the reminder.
NagsUnsecured ==
  [][\A b \in Browser : ~tab[b].nag /\ tab'[b].nag => Methods = {}]_securityVars

=============================================================================
