-------------------------- MODULE MCWebmailLetters --------------------------
(***************************************************************************)
(* The letters of the webmail, in small instances of Composer, Campaign    *)
(* and MailImport: the letter that is written on the page, the letters of  *)
(* a campaign, and those copied from another account.                      *)
(*                                                                         *)
(* The three share no variable, so a step of one does the same whatever    *)
(* the others do: a behaviour moves one of them, picked at the start, and  *)
(* the others stay as they began.                                          *)
(***************************************************************************)
EXTENDS Campaign, MailImport, Composer

CONSTANTS x1, x2, x3, h1, h2, n1, n2, s1, s2, l1, l2

\* The first source folder has a message with a Message-ID and one without;
\* the second shows the first message once more.
MCBoxes == <<<<s1, s2>>, <<s1>>>>

VARIABLE part

LettersVars == <<vars, importVars, composerVars, part>>

LettersInit == part \in {"campaign", "import", "composer"} /\ Init /\ ImportInit /\ ComposerInit

CampaignMoves == part = "campaign" /\ Next /\ UNCHANGED <<importVars, composerVars, part>>
ImportMoves == part = "import" /\ ImportNext /\ UNCHANGED <<vars, composerVars, part>>
ComposerMoves == part = "composer" /\ ComposerNext /\ UNCHANGED <<vars, importVars, part>>

\* The fairness of the campaign.  No send is under way as it begins, so that it
\* asks nothing of the behaviours in which the campaign waits.
LettersSpec ==
  /\ LettersInit /\ [][CampaignMoves \/ ImportMoves \/ ComposerMoves]_LettersVars
  /\ \A h \in Req : WF_vars(Continue(h))

=============================================================================
