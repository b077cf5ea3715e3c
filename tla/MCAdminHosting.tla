--------------------------- MODULE MCAdminHosting ---------------------------
(***************************************************************************)
(* The admin panel in small instances of MailboxQuota, RegistrarSync,      *)
(* Tenancy and AdminPages: the mailboxes of a domain, the list of hosts at *)
(* its registrar, whose customers and domains are whose, and what the      *)
(* pages show.                                                             *)
(*                                                                         *)
(* They share no variable, so a step of one does the same whatever the     *)
(* others do: a behaviour moves one of them, picked at the start, and the  *)
(* others stay as they began.                                              *)
(***************************************************************************)
EXTENDS MailboxQuota, RegistrarSync, Tenancy, AdminPages, TLC

CONSTANTS r1, r2, a1, a2, a3, n1, n2, k1, k2, k3, w1, w2, d1, s1

Good(a) == [addr |-> a, ok |-> TRUE]
Bad(a)  == [addr |-> a, ok |-> FALSE]

\* A file in either order, and one with an invalid row, a repeated address
\* and a good row after them.
MCFiles == {<<Good(a1), Good(a2)>>, <<Good(a2), Good(a1), Good(a3)>>,
            <<Bad(a1), Good(a1), Good(a3)>>}

MCSymmetry == Permutations({k1, k2, k3}) \cup Permutations({w1, w2})

VARIABLE part

HostingVars == <<vars, registrarVars, tenancyVars, pagesVars, part>>

\* One beginning is enough for the parts that wait.  The pages begin where there
\* are tabs, and open the others.
HostingInit ==
  /\ part \in {"mailboxes", "registrar", "accounts", "pages"}
  /\ Init /\ RegistrarInit /\ TenancyInit /\ PagesInit
  /\ part # "registrar" => hosts = {}
  /\ part # "mailboxes" => boxes = {} /\ peak = 1
  /\ IF part = "pages" THEN place \in {"dns", "pick", "customers"} ELSE place = "dashboard"

MailboxesMove ==
  part = "mailboxes" /\ Next /\ UNCHANGED <<registrarVars, tenancyVars, pagesVars, part>>
RegistrarMoves ==
  part = "registrar" /\ RegistrarNext /\ UNCHANGED <<vars, tenancyVars, pagesVars, part>>
AccountsMove ==
  part = "accounts" /\ TenancyNext /\ UNCHANGED <<vars, registrarVars, pagesVars, part>>
PagesMove ==
  part = "pages" /\ PagesNext /\ UNCHANGED <<vars, registrarVars, tenancyVars, part>>

HostingSpec ==
  HostingInit /\ [][MailboxesMove \/ RegistrarMoves \/ AccountsMove \/ PagesMove]_HostingVars

=============================================================================
