----------------------------- MODULE Governance -----------------------------
(***************************************************************************)
(* Texts of the chain's governance (crates/core/governance): improvement       *)
(* proposals with an author and a status, and the canon that authorities        *)
(* overwrite. OIPs and GIPs run the same code over separate maps, and so do     *)
(* canon and meta-canon; one of each is modelled. A text is a name and stands   *)
(* for its hash as well.                                                        *)
(***************************************************************************)
EXTENDS Integers, Sequences, FiniteSets, SequencesExt

CONSTANTS
  People,    \* accounts that call the contract
  Texts,     \* non-empty texts within MAX_TEXT_BYTES
  MaxTexts,  \* bound: how many proposals are submitted
  MaxCanon   \* bound: how many revisions the canon has

ASSUME GovernanceAssumption == MaxTexts \in Nat /\ MaxCanon \in Nat

VARIABLES
  oips,         \* the records, by id
  byStatus,     \* oip_by_status: the ids of each status, in set order
  byAuthor,     \* oip_author_ids
  authorities,
  canon,        \* canon_hash
  revisions     \* canon_revisions: hashes, by version

govVars == <<oips, byStatus, byAuthor, authorities, canon, revisions>>

TextStatuses == {"Draft", "Approved", "Rejected", "Rework", "Implemented"}

(* Genesis seeds the authorities and the first canon. *)
GovInit ==
  /\ oips = <<>>
  /\ byStatus = [s \in TextStatuses |-> <<>>]
  /\ byAuthor = [p \in People |-> <<>>]
  /\ authorities \in {{p} : p \in People}
  /\ canon \in Texts
  /\ revisions = <<canon>>

(* validate_transition *)
Permitted(from, to) ==
  <<from, to>> \in {<<"Draft", "Approved">>, <<"Draft", "Rejected">>, <<"Draft", "Rework">>,
                    <<"Rework", "Draft">>, <<"Approved", "Implemented">>}

(* Mutant: an approved text may be sent back. *)
TextEditableLater(s) == s \notin {"Rejected", "Implemented"}

(* text_editable *)
TextEditable(s) == s \in {"Draft", "Rework"}

(* The storage set removes by moving its last element into the gap. *)
SetRemove(seq, x) ==
  LET k == CHOOSE n \in DOMAIN seq : seq[n] = x IN
  IF x \notin ToSet(seq) THEN seq
  ELSE [n \in 1..(Len(seq) - 1) |-> IF n = k THEN seq[Len(seq)] ELSE seq[n]]

(* apply_status: the index move. *)
MoveBucket(b, id, from, to) ==
  [b EXCEPT ![from] = SetRemove(@, id), ![to] = Append(@, id)]

-----------------------------------------------------------------------------
Submitted(p, t, s) ==
  LET id == Len(oips) + 1 IN
  /\ id <= MaxTexts
  /\ oips' = Append(oips, [author |-> p, status |-> s, text |-> t])
  /\ byAuthor' = [byAuthor EXCEPT ![p] = Append(@, id)]
  /\ byStatus' = [byStatus EXCEPT ![s] = Append(@, id)]
  /\ UNCHANGED <<authorities, canon, revisions>>

(* submit_oip *)
Submit(p, t) == Submitted(p, t, "Draft")

(* create_approved_oip: a draft that is approved at once, for the Vote target. *)
CreateApproved(p, t) == Submitted(p, t, "Approved")

(* update_oip_text *)
UpdateText(p, id, t) ==
  /\ oips[id].author = p
  /\ TextEditable(oips[id].status)
  /\ oips' = [oips EXCEPT ![id].text = t]
  /\ UNCHANGED <<byStatus, byAuthor, authorities, canon, revisions>>

(* set_oip_status: authorities, or the author who resubmits after a rework. *)
SetStatus(p, id, s) ==
  LET old == oips[id].status IN
  /\ Permitted(old, s)
  /\ (old = "Rework" /\ s = "Draft" /\ oips[id].author = p) \/ p \in authorities
  /\ oips' = [oips EXCEPT ![id].status = s]
  /\ byStatus' = MoveBucket(byStatus, id, old, s)
  /\ UNCHANGED <<byAuthor, authorities, canon, revisions>>

(* add_authority *)
AddAuthority(p, q) ==
  /\ p \in authorities
  /\ authorities' = authorities \cup {q}
  /\ UNCHANGED <<oips, byStatus, byAuthor, canon, revisions>>

(* update_canon *)
UpdateCanon(p, t) ==
  /\ p \in authorities /\ Len(revisions) < MaxCanon
  /\ canon' = t
  /\ revisions' = Append(revisions, t)
  /\ UNCHANGED <<oips, byStatus, byAuthor, authorities>>

GovNext ==
  \/ \E p \in People, t \in Texts :
       Submit(p, t) \/ CreateApproved(p, t) \/ UpdateCanon(p, t)
  \/ \E p \in People, id \in DOMAIN oips :
       \/ \E t \in Texts : UpdateText(p, id, t)
       \/ \E s \in TextStatuses : SetStatus(p, id, s)
  \/ \E p, q \in People : AddAuthority(p, q)

GovSpec == GovInit /\ [][GovNext]_govVars

-----------------------------------------------------------------------------
(* The listings show every proposal once, under its status and its author,      *)
(* although a status move rewrites two sets and reorders one (runtime.rs,        *)
(* apply_status).                                                              *)
IndexesExact ==
  /\ \A s \in TextStatuses :
       /\ IsInjective(byStatus[s])
       /\ ToSet(byStatus[s]) = {i \in DOMAIN oips : oips[i].status = s}
  /\ \A p \in People :
       byAuthor[p] = SelectSeq([i \in DOMAIN oips |-> i], LAMBDA i : oips[i].author = p)

(* What was approved or rejected keeps the text it had at that moment and is    *)
(* never reopened, and a published revision of the canon is never rewritten.    *)
DecisionsFinal ==
  [][/\ \A i \in DOMAIN oips :
          oips[i].status \in {"Approved", "Rejected", "Implemented"} =>
            /\ oips'[i].text = oips[i].text
            /\ oips'[i].status \in {oips[i].status, "Implemented"}
            /\ oips[i].status = "Rejected" => oips'[i] = oips[i]
     /\ IsPrefix(revisions, revisions')
     /\ Last(revisions') = canon'
    ]_govVars
=============================================================================
