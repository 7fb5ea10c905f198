---------------------------- MODULE LaunchingProofs ----------------------------
(***************************************************************************)
(* What the two validations and the rewriting of a configuration ensure    *)
(* together, for any switches, fields and directories.                     *)
(***************************************************************************)
EXTENDS Launching, TLAPS

\* What is stored passed the rules on fields and modes, or was rewritten so that
\* it would.
StoredIsSound ==
  stored # NoDocument => stored \in Document /\ stored.fields = "good" /\ ModeFits(stored)

\* An activation raises only for a configuration that cannot be planned, and the
\* verdict is forgotten when the configuration or its directories change.
RaisedForCause == outcome = "raised" => stored # NoDocument /\ ~CanPlan(stored)

Inv ==
  /\ stored \in Document \cup {NoDocument}
  /\ StoredIsSound
  /\ RaisedForCause
  /\ OnlyBareIsUnreachable

LEMMA InitInv == Init => Inv
  BY DEF Init, Inv, StoredIsSound, RaisedForCause, OnlyBareIsUnreachable

LEMMA SubmitInv ==
  ASSUME Inv, NEW doc \in Document, NEW token \in BOOLEAN, Submit(doc, token)
  PROVE  Inv'
  <1>1. stored' = doc /\ doc.fields = "good" /\ ModeFits(doc)
    BY DEF Submit, Valid
  <1>2. outcome' = "none" /\ UNCHANGED running
    BY DEF Submit
  <1>3. OnlyBareIsUnreachable'
    BY <1>2 DEF Inv, OnlyBareIsUnreachable
  <1>4. QED
    BY <1>1, <1>2, <1>3 DEF Inv, StoredIsSound, RaisedForCause

\* What exchange() writes satisfies the rules about modes.
LEMMA RewrittenIsSound ==
  ASSUME NEW doc \in Document, doc.fields = "good", NEW new,
         new = [doc EXCEPT !.mode = "oauth-cache", !.on = @ \cup {"credentialsEnabled"}]
  PROVE  new \in Document /\ new.fields = "good" /\ ModeFits(new)
  BY LaunchingAssumption DEF Document, Modes, ModeFits

LEMMA AuthorizeInv == ASSUME Inv, Authorize PROVE Inv'
  <1>1. UNCHANGED running
    BY DEF Authorize
  <1>2. OnlyBareIsUnreachable'
    BY <1>1 DEF Inv, OnlyBareIsUnreachable
  <1>3. CASE UNCHANGED <<stored, outcome>>
    <2>1. UNCHANGED readable
      BY DEF Authorize
    <2>2. QED
      BY <1>2, <1>3, <2>1 DEF Inv, StoredIsSound, RaisedForCause, CanPlan, Valid
  <1>4. CASE stored' = [stored EXCEPT !.mode = "oauth-cache", !.on = @ \cup {"credentialsEnabled"}]
             /\ outcome' = "none"
    <2>1. stored \in Document /\ stored.fields = "good"
      BY DEF Authorize, Inv, StoredIsSound
    <2>2. stored' \in Document /\ stored'.fields = "good" /\ ModeFits(stored')
      BY <1>4, <2>1, RewrittenIsSound
    <2>3. QED
      BY <1>2, <1>4, <2>2 DEF Inv, StoredIsSound, RaisedForCause
  <1>5. QED
    BY <1>3, <1>4 DEF Authorize

\* A plan for a sound configuration: discovery mode announces it, access-token mode has
\* the token that activate() found, and oauth-cache mode has one if there was any to
\* use or to refresh; if not, it keeps its credentials.
LEMMA PlannedIsReachable ==
  ASSUME NEW doc \in Document, ModeFits(doc), NEW token \in BOOLEAN, NEW bare \in BOOLEAN,
         doc.mode = "access-token" => token,
         doc.mode = "oauth-cache" => token \/ bare
  PROVE  \/ "disable-discovery" \notin Options(doc)
         \/ token
         \/ doc.mode = "oauth-cache" /\ bare /\ "disable-credential-cache" \notin Options(doc)
  <1>1. "discovery" \in doc.on => "disable-discovery" \notin Options(doc)
    BY DEF Options, Enabling, Disabling
  <1>2. "credentialsEnabled" \in doc.on => "disable-credential-cache" \notin Options(doc)
    BY DEF Options, Enabling, Disabling
  <1>3. QED
    BY <1>1, <1>2 DEF Document, Modes, ModeFits

LEMMA ActivateInv == ASSUME Inv, Activate PROVE Inv'
  <1>1. stored # NoDocument /\ UNCHANGED <<stored, readable>>
    BY DEF Activate
  <1>2. StoredIsSound' /\ stored' \in Document \cup {NoDocument}
    BY <1>1 DEF Inv, StoredIsSound
  <1>3. PICK kept \in {running, NoPlan} : Unavailable(kept) \/ Plan(kept)
    BY DEF Activate
  <1>4. ASSUME running' = kept PROVE OnlyBareIsUnreachable'
    BY <1>3, <1>4 DEF Inv, OnlyBareIsUnreachable
  <1>5. CASE outcome' # "raised" /\ running' \in {kept, NoPlan}
    <2>1. OnlyBareIsUnreachable'
      BY <1>4, <1>5 DEF OnlyBareIsUnreachable
    <2>2. QED
      BY <1>2, <1>5, <2>1 DEF Inv, RaisedForCause
  <1>6. CASE outcome' = "raised" /\ running' = kept /\ ~CanPlan(stored)
    <2>1. RaisedForCause'
      BY <1>1, <1>6 DEF RaisedForCause, CanPlan, Valid
    <2>2. QED
      BY <1>2, <1>4, <1>6, <2>1 DEF Inv
  <1>7. CASE Plan(kept) /\ outcome' = "launched"
    <2>1. running' = [mode |-> stored.mode, options |-> Options(stored),
                   token |-> Token(access'), bare |-> ~access /\ ~refresh]
      BY <1>7 DEF Plan
    <2>2. stored \in Document /\ ModeFits(stored)
      BY <1>1 DEF Inv, StoredIsSound
    <2>3. /\ Token(access') \in BOOLEAN /\ (stored.mode = "access-token" => Token(access'))
          /\ stored.mode = "oauth-cache" => Token(access') \/ (~access /\ ~refresh)
      BY <1>7 DEF Plan, Token, TokenMissing, CanRefresh
    <2>4. OnlyBareIsUnreachable'
      BY <2>1, <2>2, <2>3, PlannedIsReachable DEF OnlyBareIsUnreachable
    <2>5. QED
      BY <1>2, <1>7, <2>4 DEF Inv, RaisedForCause
  <1>8. QED
    BY <1>3, <1>5, <1>6, <1>7 DEF Unavailable, Plan

LEMMA NextInv == Inv /\ [Next]_vars => Inv'
  <1> SUFFICES ASSUME Inv, [Next]_vars PROVE Inv'
    OBVIOUS
  <1>1. ASSUME UNCHANGED <<stored, readable>>, outcome' \in {outcome, "none"}, running' \in {running, NoPlan}
        PROVE  Inv'
    BY <1>1 DEF Inv, StoredIsSound, RaisedForCause, CanPlan, Valid, OnlyBareIsUnreachable
  <1>2. CASE Remount
    BY <1>2 DEF Remount, Inv, StoredIsSound, RaisedForCause, OnlyBareIsUnreachable
  <1>3. CASE SubmitRefused \/ RemoveToken \/ Deactivate
    BY <1>1, <1>3 DEF SubmitRefused, RemoveToken, Deactivate
  <1>4. CASE UNCHANGED vars
    BY <1>1, <1>4 DEF vars
  <1>5. QED
    BY <1>2, <1>3, <1>4, SubmitInv, AuthorizeInv, ActivateInv DEF Next

LEMMA InitType == Init => TypeOK
  BY DEF Init, TypeOK

LEMMA TypeStep == Inv /\ TypeOK /\ [Next]_vars => TypeOK'
  <1> SUFFICES ASSUME Inv, TypeOK, [Next]_vars PROVE TypeOK'
    OBVIOUS
  <1>1. ASSUME NEW doc \in Document, NEW token \in BOOLEAN, Submit(doc, token) PROVE TypeOK'
    BY <1>1 DEF TypeOK, Submit
  <1>2. CASE Authorize
    <2>1. stored \in Document
      BY <1>2 DEF Authorize, TypeOK
    <2>2. [stored EXCEPT !.mode = "oauth-cache", !.on = @ \cup {"credentialsEnabled"}] \in Document
      BY <2>1, LaunchingAssumption DEF Document, Modes
    <2>3. QED
      BY <1>2, <2>1, <2>2 DEF Authorize, TypeOK
  <1>3. CASE Activate
    <2>1. stored \in Document /\ UNCHANGED <<stored, refresh, readable>>
      BY <1>3 DEF Activate, TypeOK
    <2>2. stored.mode \in Modes
      BY <2>1 DEF Document
    <2>3. PICK kept \in {running, NoPlan} : Unavailable(kept) \/ Plan(kept)
      BY <1>3 DEF Activate
    <2>4. /\ running' \in {running, NoPlan} \/ running'.mode = stored.mode
          /\ outcome' \in {"unavailable", "failed", "raised", "launched"}
          /\ access' \in BOOLEAN
      BY <2>3 DEF Unavailable, Plan, CanRefresh, TypeOK
    <2>5. QED
      BY <2>1, <2>2, <2>4 DEF TypeOK
  <1>4. CASE SubmitRefused \/ RemoveToken \/ Remount \/ Deactivate
    BY <1>4 DEF TypeOK, SubmitRefused, RemoveToken, Remount, Deactivate
  <1>5. CASE UNCHANGED vars
    BY <1>5 DEF vars, TypeOK
  <1>6. QED
    BY <1>1, <1>2, <1>3, <1>4, <1>5 DEF Next

\* The invariant the properties follow from: the rewritten configuration, the one
\* that is launched and the group that runs agree.
THEOREM Soundness == Spec => []Inv
  BY InitInv, NextInv, PTL DEF Spec

\* Each variable keeps its type.
THEOREM TypeCorrect == Spec => []TypeOK
  BY InitInv, NextInv, InitType, TypeStep, PTL DEF Spec

\* A configuration with neither directories nor omitted fields is never refused
\* at activation.
THEOREM PlainLaunches == Spec => []PlainCanLaunch
  <1>1. Inv => PlainCanLaunch
    BY DEF Inv, StoredIsSound, RaisedForCause, PlainCanLaunch, CanPlan, Valid
  <1>2. QED
    BY <1>1, Soundness, PTL

\* Whatever runs is announced or was given a token, except in mode oauth-cache for a
\* source that had none.
THEOREM HiddenHoldsToken == Spec => []OnlyBareIsUnreachable
  <1>1. Inv => OnlyBareIsUnreachable
    BY DEF Inv
  <1>2. QED
    BY <1>1, Soundness, PTL
===============================================================================
