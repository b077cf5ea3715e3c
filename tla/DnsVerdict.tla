----------------------------- MODULE DnsVerdict -----------------------------
(***************************************************************************)
(* The DNS records of a mail domain, and what checkRecord() says of one    *)
(* when it is compared with what the resolver answers.                     *)
(*                                                                         *)
(* A published record is its kind and whether it carries the value the     *)
(* mail host expects ("ours") or some other ("theirs"); two records of one *)
(* kind differ in that.  SPF and DMARC records are told from the other TXT *)
(* records by their prefix and share the name of none, so a kind is what   *)
(* the resolver answers for the name of the record, filtered.              *)
(***************************************************************************)
EXTENDS Integers, FiniteSets

MailKind == {"MX", "SPF", "DKIM", "DMARC"}
Value    == {"ours", "theirs"}
Status   == {"unchecked", "valid", "missing", "incorrect", "propagating"}

\* What the zone answers for a kind of record.
Answers(zone, kind) == {h \in zone : h.kind = kind}
Ours(zone, kind)    == [kind |-> kind, value |-> "ours"] \in zone

\* checkRecord: any MX and any key may be the right one; a second SPF or DMARC
\* record is an error whatever it says; one DMARC record will do whatever it
\* says.
Verdict(kind, zone) ==
  LET found == Cardinality(Answers(zone, kind)) IN
  CASE found = 0                               -> "missing"
    [] found > 1 /\ kind \in {"SPF", "DMARC"}  -> "incorrect"
    [] kind = "DMARC" \/ Ours(zone, kind)      -> "valid"
    [] OTHER                                   -> "incorrect"

\* buildDnsRecords: a domain that receives its mail elsewhere needs no MX.
Needed(source) == IF source = "vps_hosted" THEN MailKind ELSE MailKind \ {"MX"}

=============================================================================
