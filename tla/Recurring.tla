----------------------------- MODULE Recurring -----------------------------
(***************************************************************************)
(* services/recurring.py: expense templates, and the expenses the sweep    *)
(* generates from them every month.                                        *)
(*                                                                         *)
(* Amounts and strategies are left out: compute_splits is given the same   *)
(* arguments every month as when the template was made, and accepts them   *)
(* again.  What it gives may still be a negative share, for it lets        *)
(* negative percentages through; no expense is stored when a template is   *)
(* made, so the database first refuses such a share to the sweep.          *)
(***************************************************************************)
EXTENDS Flat, Sequences

CONSTANTS
  TemplateForms,  \* the templates that may be made: payer or None, participants,
                  \* whether the database takes the shares that result
  MaxRecurring    \* bound on the number of recurring expenses

ASSUME TemplatesAssumption ==
  /\ \A t \in TemplateForms : /\ t.payer \in Members \cup {None} /\ t.parts \subseteq Members
                               /\ t.storable \in BOOLEAN
  /\ MaxRecurring \in Nat

VARIABLES
  template,   \* the templates made so far
  recurring   \* each: its template, its status, the months with an expense

\* _require_tenants
AllTenants(t) == t.payer \in ActiveTenants \cup {None} /\ t.parts \subseteq ActiveTenants

LoadTemplate(r) ==
  \E t \in TemplateForms \ template :
    /\ t.parts # {}
    /\ AllTenants(t)
    /\ Load(r, "template", t)
    /\ UNCHANGED <<template, recurring>>

CommitTemplate(r) ==
  /\ Finish(r, "template")
  /\ template' = template \cup {req[r].what}
  /\ UNCHANGED <<people, recurring>>

\* One step: all it reads is that the template exists, and none is deleted.
CreateRecurring ==
  /\ "template" \in agenda
  /\ Len(recurring) < MaxRecurring
  /\ \E t \in template :
       recurring' = Append(recurring, [template |-> t, status |-> "active", months |-> {}])
  /\ UNCHANGED <<template, flat>>

-----------------------------------------------------------------------------
(* The sweep.                                                              *)

\* Mutant: nothing looks whether the month is already there.
NeverAsked(k) == FALSE

Generated(k) == Month \in recurring[k].months

\* A template without a payer is skipped in silence.
Due(k) ==
  /\ recurring[k].status = "active"
  /\ ~Generated(k)
  /\ recurring[k].template.payer # None

\* Mutant: a broken template is skipped in silence too.
SkipBroken(k) == recurring[k]

Pause(k) == [recurring[k] EXCEPT !.status = "paused"]

\* UNIQUE(recurring_id, month): a second expense rolls the whole pass back.
OneInstance ==
  \A k \in DOMAIN recurring :
    Due(k) /\ AllTenants(recurring[k].template) => Month \notin recurring[k].months

\* CHECK (owed_amount >= 0): the splits are inserted after the try has
\* ended, so a negative share rolls the whole pass back too, every time.
SharesStorable ==
  \A k \in DOMAIN recurring :
    Due(k) /\ AllTenants(recurring[k].template) => recurring[k].template.storable

GenerateDue ==
  /\ OneInstance
  /\ SharesStorable
  /\ recurring' = [k \in DOMAIN recurring |->
       IF ~Due(k) THEN recurring[k]
       ELSE IF AllTenants(recurring[k].template)
         THEN [recurring[k] EXCEPT !.months = @ \cup {Month}]
         ELSE Pause(k)]

TemplateRequest(r) == LoadTemplate(r) \/ CommitTemplate(r)
=============================================================================
