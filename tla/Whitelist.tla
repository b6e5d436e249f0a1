----------------------------- MODULE Whitelist -----------------------------
(***************************************************************************)
(* The domain whitelist of bismark-passive (whitelist.c).  A domain name   *)
(* is a sequence of characters, as dn_expand prints it; Dot separates its  *)
(* labels.                                                                 *)
(***************************************************************************)
EXTENDS Integers, Sequences

CONSTANT Dot

(* Where listed has to begin in domain to be its end. *)
domain_offset(domain, listed) == Len(domain) - Len(listed)

IsTail(domain, listed) ==
  /\ domain_offset(domain, listed) >= 0
  /\ SubSeq(domain, domain_offset(domain, listed) + 1, Len(domain)) = listed

(* Mutant: a name may end in the middle of a label. *)
MatchesMidLabel(domain, listed) == IsTail(domain, listed)

(* The comparison in the loop of domain_whitelist_lookup. *)
Matches(domain, listed) ==
  /\ IsTail(domain, listed)
  /\ \/ domain_offset(domain, listed) = 0
     \/ domain[domain_offset(domain, listed)] = Dot

domain_whitelist_lookup(whitelist, domain) ==
  \E listed \in whitelist : Matches(domain, listed)
=============================================================================
