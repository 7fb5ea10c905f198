----------------------------- MODULE OAuthProofs -----------------------------
(***************************************************************************)
(* However requests overlap, the stored operation behaves like the one     *)
(* promised to the user, and succeeds by tokens of its own URL only.       *)
(***************************************************************************)
EXTENDS OAuth, TLAPS

-----------------------------------------------------------------------------
(* The inductive invariant.                                                *)

\* The request read or wrote the operation, and nobody has written it since.
Holding(t) == t \in current["operation"]

Secreting == {"access", "accessSet", "refresh", "refreshSet"}
Finishing == {"readInstance", "updateInstance", "succeed"}

\* The request exchanges a callback that the helper accepted.
Accepted(t) ==
  pc[t] \in {"redeem"} \cup Finishing \/ (pc[t] \in Secreting /\ mem[t].job = "exchange")

\* The request is between its two writes of the operation.
Exchanging(t) == pc[t] \in {"validated", "helper", "fail"} \/ Accepted(t)

\* Stages belong to jobs, and a job that stores tokens has some.
JobOf(t) ==
  /\ pc[t] \in {"validate", "validated", "helper", "redeem", "fail"} \cup Finishing => mem[t].job = "exchange"
  /\ pc[t] \in {"beginUnlink", "beginHelper", "beginPut"} => mem[t].job = "begin"
  /\ pc[t] \in Secreting =>
       \/ mem[t].job \in {"exchange", "refresh"} /\ mem[t].auth # Nothing
       \/ mem[t].job = "delete" /\ deleted
       \/ mem[t].job \in {"edit", "remove"}
  /\ mem[t].job = "edit" => pc[t] \in {"access", "accessSet", "edit"} /\ mem[t].auth = Supplied
  /\ mem[t].job = "remove" => pc[t] \in {"access", "accessSet"} /\ mem[t].auth = Nothing
  /\ pc[t] = "edit" => mem[t].job = "edit"
  /\ pc[t] = "redeem" => mem[t].auth # Nothing
  /\ pc[t] = "refreshing" => mem[t].job = "refresh" /\ mem[t].auth # Nothing
  /\ pc[t] = "deleteInstance" => mem[t].job = "delete"

\* What a request that holds the operation may still rely on.
Knows(t) ==
  Holding(t) =>
    /\ pc[t] = "expire" => state \in Active /\ due
    /\ pc[t] \in {"beginUnlink", "beginHelper", "beginPut"} => (state \in Active => due)
    /\ pc[t] = "validate" => state = "waiting-for-callback"
    /\ Exchanging(t) => state = "validating"
    /\ pc[t] = "cancel" => state \in Active
    /\ pc[t] = "clear" => state # "none"

Informed == \A t \in Requests : JobOf(t) /\ Knows(t)

\* The URL of the operation is the newest one that was shown, and the file is of
\* the authorization begun last.
Newest ==
  /\ shown \subseteq 1 .. begun
  /\ pending \in {Nothing, begun}
  /\ state # "none" => url # Nothing /\ \A a \in shown : a <= url
  /\ url \in 0 .. begun

\* A callback is of a URL that was shown, a begun authorization is newer than all
\* of those, and an accepted callback is of the operation's URL.
UrlOf(t) ==
  /\ mem[t].job = "exchange" => mem[t].auth \in shown \cup {Nothing}
  /\ pc[t] = "beginPut" => mem[t].auth \in 1 .. begun
  /\ pc[t] = "beginPut" /\ Holding(t) => \A a \in shown : a < mem[t].auth
  /\ Accepted(t) /\ Holding(t) => mem[t].auth = url

OwnUrls == Newest /\ SucceedsByItsOwnUrl /\ \A t \in Requests : UrlOf(t)

\* What an exchange has written when it comes to a stage.
StoredOf(t) ==
  /\ mem[t].job = "exchange" /\ pc[t] \in {"refresh", "refreshSet"} \cup Finishing => "access" \in mem[t].wrote
  /\ pc[t] = "succeed" => "instance" \in mem[t].wrote

Stored == SucceededIsStored /\ \A t \in Requests : StoredOf(t)

Inv == TypeOK /\ Informed /\ OwnUrls /\ Stored

LEMMA InitInv == Init => Inv
  <1> SUFFICES ASSUME Init PROVE Inv
    OBVIOUS
  <1>1. TypeOK
    <2>1. begun \in 0 .. MaxAttempts
      BY OAuthAssumption DEF Init
    <2>2. QED
      BY <2>1 DEF Init, TypeOK, Locals, NoLocals, Nothing, States, Stages, Jobs
  <1>2. Informed
    BY DEF Init, Informed, JobOf, Knows, Holding, Stores, Exchanging, Accepted, Secreting, Finishing, NoLocals
  <1>3. OwnUrls /\ Stored
    BY DEF Init, OwnUrls, Newest, UrlOf, SucceedsByItsOwnUrl, Accepted, Stored, StoredOf,
       SucceededIsStored, NoLocals, Nothing, Secreting, Finishing
  <1>4. QED
    BY <1>1, <1>2, <1>3 DEF Inv

-----------------------------------------------------------------------------
(* Every step preserves the invariant.                                     *)

LEMMA TypeInv == ASSUME Inv, Step, overlapped' \in BOOLEAN PROVE TypeOK'
  <1>0. TypeOK
    BY DEF Inv
  <1> USE <1>0, OAuthAssumption DEF TypeOK, Locals, Supplied, Nothing, Attempts, States, Active, Settled, Stages, Jobs, Stores,
          NoLocals, record, files, stores, locals
  <1>1. ASSUME NEW t \in Requests, Status(t) PROVE TypeOK'
    BY <1>1 DEF Status, Arrive, Read
  <1>2. ASSUME NEW t \in Requests, Begin(t) PROVE TypeOK'
    BY <1>2 DEF Begin, Arrive, Read, MayBegin
  <1>3. ASSUME NEW t \in Requests, Cancel(t) PROVE TypeOK'
    BY <1>3 DEF Cancel, Arrive, Read
  <1>4. ASSUME NEW t \in Requests, Delete(t) PROVE TypeOK'
    BY <1>4 DEF Delete, Arrive
  <1>5. ASSUME NEW t \in Requests, Refresh(t) PROVE TypeOK'
    BY <1>5 DEF Refresh, Arrive
  <1>6. ASSUME NEW t \in Requests, Unlink(t) PROVE TypeOK'
    BY <1>6 DEF Unlink, Goto
  <1>7. ASSUME NEW t \in Requests, Expire(t) PROVE TypeOK'
    BY <1>7 DEF Expire, Put, Wrote, IsCurrent, Goto
  <1>8. ASSUME NEW t \in Requests, ExpireRefused(t) PROVE TypeOK'
    BY <1>8 DEF ExpireRefused, Refused, Goto
  <1>9. ASSUME NEW t \in Requests, BeginUnlink(t) PROVE TypeOK'
    BY <1>9 DEF BeginUnlink, Goto
  <1>10. ASSUME NEW t \in Requests, BeginHelper(t) PROVE TypeOK'
    BY <1>10 DEF BeginHelper
  <1>11. ASSUME NEW t \in Requests, BeginHelperFails(t) PROVE TypeOK'
    BY <1>11 DEF BeginHelperFails, Goto
  <1>12. ASSUME NEW t \in Requests, BeginPut(t) PROVE TypeOK'
    <2>1. mem[t].auth \in 1 .. begun
      BY <1>12 DEF Inv, OwnUrls, UrlOf, BeginPut
    <2>2. mem[t].auth \in Attempts
      BY <2>1
    <2>3. /\ state' = "waiting-for-callback" /\ due' = FALSE /\ url' = mem[t].auth
          /\ shown' = shown \cup {mem[t].auth} /\ UNCHANGED <<grant, pending, begun, secret, deleted>>
      BY <1>12 DEF BeginPut, Put
    <2>4. current' \in [Stores -> SUBSET Requests]
      BY <1>12 DEF BeginPut, Put, Wrote
    <2>5. pc' \in [Requests -> Stages] /\ mem' \in [Requests -> Locals]
      BY <1>12 DEF BeginPut, Goto
    <2>6. QED
      BY <2>2, <2>3, <2>4, <2>5
  <1>13. ASSUME NEW t \in Requests, BeginRefused(t) PROVE TypeOK'
    BY <1>13 DEF BeginRefused, Refused, Goto
  <1>14. ASSUME NEW t \in Requests, Validate(t) PROVE TypeOK'
    BY <1>14 DEF Validate, Put, Wrote, IsCurrent, Goto
  <1>15. ASSUME NEW t \in Requests, ValidateRefused(t) PROVE TypeOK'
    BY <1>15 DEF ValidateRefused, Refused, Goto
  <1>16. ASSUME NEW t \in Requests, LoadHelper(t) PROVE TypeOK'
    <2>1. pc' \in [Requests -> Stages] /\ mem' \in [Requests -> Locals]
      <3>1. CASE Goto(t, "idle")
        BY <3>1 DEF Goto
      <3>2. CASE Goto(t, "helper")
        BY <3>2 DEF Goto
      <3>3. QED
        BY <1>16, <3>1, <3>2 DEF LoadHelper
    <2>2. QED
      BY <1>16, <2>1 DEF LoadHelper
  <1>17. ASSUME NEW t \in Requests, HelperAccepts(t) PROVE TypeOK'
    BY <1>17 DEF HelperAccepts, Goto, Accepts
  <1>18. ASSUME NEW t \in Requests, HelperRedeems(t) PROVE TypeOK'
    BY <1>18 DEF HelperRedeems, Goto
  <1>19. ASSUME NEW t \in Requests, HelperFails(t) PROVE TypeOK'
    BY <1>19 DEF HelperFails, Goto
  <1>20. ASSUME NEW t \in Requests, ReadSecret(t) PROVE TypeOK'
    BY <1>20 DEF ReadSecret, Read, Goto
  <1>21. ASSUME NEW t \in Requests, SkipSecret(t) PROVE TypeOK'
    BY <1>21 DEF SkipSecret, Goto, AfterSecret
  <1>22. ASSUME NEW t \in Requests, WriteSecret(t) PROVE TypeOK'
    BY <1>22 DEF WriteSecret, Wrote, GotoHaving, AfterSecret, Cell
  <1>23. ASSUME NEW t \in Requests, SecretRefused(t) PROVE TypeOK'
    BY <1>23 DEF SecretRefused, Refused, Goto
  <1>24. ASSUME NEW t \in Requests, Refreshed(t) PROVE TypeOK'
    <2>1. pc' \in [Requests -> Stages] /\ mem' \in [Requests -> Locals]
      <3>1. CASE Goto(t, "idle")
        BY <3>1 DEF Goto
      <3>2. CASE Goto(t, "access")
        BY <3>2 DEF Goto
      <3>3. QED
        BY <1>24, <3>1, <3>2 DEF Refreshed
    <2>2. QED
      BY <1>24, <2>1 DEF Refreshed
  <1>25. ASSUME NEW t \in Requests, UpdateInstance(t) PROVE TypeOK'
    <2>1. CASE pc[t] = "readInstance" /\ Read(t, "instance") /\ Goto(t, "updateInstance")
               /\ UNCHANGED <<record, files, secret, deleted>>
      BY <2>1 DEF Read, Goto
    <2>2. CASE pc[t] = "updateInstance" /\ Wrote(t, "instance") /\ GotoHaving(t, "succeed", "instance")
               /\ UNCHANGED <<record, files, secret, deleted>>
      BY <2>2 DEF Wrote, GotoHaving
    <2>3. QED
      BY <1>25, <2>1, <2>2 DEF UpdateInstance
  <1>26. ASSUME NEW t \in Requests, UpdateFails(t) PROVE TypeOK'
    BY <1>26 DEF UpdateFails, Goto
  <1>27. ASSUME NEW t \in Requests, Succeed(t) PROVE TypeOK'
    BY <1>27 DEF Succeed, Put, Wrote, IsCurrent, Goto
  <1>28. ASSUME NEW t \in Requests, SucceedRefused(t) PROVE TypeOK'
    BY <1>28 DEF SucceedRefused, Refused, Goto
  <1>29. ASSUME NEW t \in Requests, Fail(t) PROVE TypeOK'
    BY <1>29 DEF Fail, Put, Wrote, IsCurrent, Goto
  <1>30. ASSUME NEW t \in Requests, FailRefused(t) PROVE TypeOK'
    BY <1>30 DEF FailRefused, Refused, Goto
  <1>31. ASSUME NEW t \in Requests, CancelPut(t) PROVE TypeOK'
    BY <1>31 DEF CancelPut, Put, Wrote, IsCurrent, Goto
  <1>32. ASSUME NEW t \in Requests, CancelRefused(t) PROVE TypeOK'
    BY <1>32 DEF CancelRefused, Refused, Goto
  <1>33. ASSUME NEW t \in Requests, Clear(t) PROVE TypeOK'
    BY <1>33 DEF Clear, Put, Wrote, IsCurrent, Goto
  <1>34. ASSUME NEW t \in Requests, ClearRefused(t) PROVE TypeOK'
    BY <1>34 DEF ClearRefused, Refused, Goto
  <1>35. ASSUME NEW t \in Requests, DeleteInstance(t) PROVE TypeOK'
    BY <1>35 DEF DeleteInstance, Goto
  <1>36. ASSUME NEW t \in Requests, DeleteRefused(t) PROVE TypeOK'
    BY <1>36 DEF DeleteRefused, Refused, Goto
  <1>37. ASSUME NEW t \in Requests, NEW a \in shown \cup {Nothing}, Exchange(t, a) PROVE TypeOK'
    BY <1>37 DEF Exchange, Arrive, Read
  <1>38. CASE Age
    BY <1>38 DEF Age
  <1>39. CASE Edit
    BY <1>39 DEF Edit
  <1>40. ASSUME NEW t \in Requests, EditWithToken(t) PROVE TypeOK'
    BY <1>40 DEF EditWithToken, Arrive, Read
  <1>41. ASSUME NEW t \in Requests, RemoveToken(t) PROVE TypeOK'
    BY <1>41 DEF RemoveToken, Arrive
  <1>42. ASSUME NEW t \in Requests, EditInstance(t) PROVE TypeOK'
    BY <1>42 DEF EditInstance, Wrote, Goto
  <1>43. ASSUME NEW t \in Requests, EditRefused(t) PROVE TypeOK'
    BY <1>43 DEF EditRefused, Refused, Goto
  <1>44. QED
    BY <1>1, <1>2, <1>3, <1>4, <1>5, <1>6, <1>7, <1>8, <1>9, <1>10, <1>11, <1>12,
       <1>13, <1>14, <1>15, <1>16, <1>17, <1>18, <1>19, <1>20, <1>21, <1>22, <1>23, <1>24,
       <1>25, <1>26, <1>27, <1>28, <1>29, <1>30, <1>31, <1>32, <1>33, <1>34, <1>35, <1>36,
       <1>37, <1>38, <1>39, <1>40, <1>41, <1>42, <1>43 DEF Step, Request, Continue

\* A request learns the operation when it reads it, and no longer relies on it once
\* another one wrote it.
LEMMA InformedInv == ASSUME TypeOK, Informed, Step PROVE Informed'
  <1> USE DEF TypeOK, Informed, JobOf, Knows, Holding, Exchanging, Accepted, Secreting, Finishing, Active,
          Nothing, Supplied, NoLocals, Stores, record, files, stores, locals
  <1>1. ASSUME NEW t \in Requests, Status(t) PROVE Informed'
    BY <1>1 DEF Status, Arrive, Read
  <1>2. ASSUME NEW t \in Requests, Begin(t) PROVE Informed'
    BY <1>2 DEF Begin, Arrive, Read, MayBegin
  <1>3. ASSUME NEW t \in Requests, Cancel(t) PROVE Informed'
    BY <1>3 DEF Cancel, Arrive, Read
  <1>4. ASSUME NEW t \in Requests, Delete(t) PROVE Informed'
    BY <1>4 DEF Delete, Arrive
  <1>5. ASSUME NEW t \in Requests, Refresh(t) PROVE Informed'
    BY <1>5 DEF Refresh, Arrive
  <1>6. ASSUME NEW t \in Requests, Unlink(t) PROVE Informed'
    BY <1>6 DEF Unlink, Goto
  <1>7. ASSUME NEW t \in Requests, Expire(t) PROVE Informed'
    BY <1>7 DEF Expire, Put, Wrote, IsCurrent, Goto
  <1>8. ASSUME NEW t \in Requests, ExpireRefused(t) PROVE Informed'
    BY <1>8 DEF ExpireRefused, Refused, Goto
  <1>9. ASSUME NEW t \in Requests, BeginUnlink(t) PROVE Informed'
    BY <1>9 DEF BeginUnlink, Goto
  <1>10. ASSUME NEW t \in Requests, BeginHelper(t) PROVE Informed'
    BY <1>10 DEF BeginHelper
  <1>11. ASSUME NEW t \in Requests, BeginHelperFails(t) PROVE Informed'
    BY <1>11 DEF BeginHelperFails, Goto
  <1>12. ASSUME NEW t \in Requests, BeginPut(t) PROVE Informed'
    BY <1>12 DEF BeginPut, Put, Wrote, IsCurrent, Goto
  <1>13. ASSUME NEW t \in Requests, BeginRefused(t) PROVE Informed'
    BY <1>13 DEF BeginRefused, Refused, Goto
  <1>14. ASSUME NEW t \in Requests, Validate(t) PROVE Informed'
    BY <1>14 DEF Validate, Put, Wrote, IsCurrent, Goto
  <1>15. ASSUME NEW t \in Requests, ValidateRefused(t) PROVE Informed'
    BY <1>15 DEF ValidateRefused, Refused, Goto
  <1>16. ASSUME NEW t \in Requests, LoadHelper(t) PROVE Informed'
    BY <1>16 DEF LoadHelper, Goto
  <1>17. ASSUME NEW t \in Requests, HelperAccepts(t) PROVE Informed'
    BY <1>17 DEF HelperAccepts, Goto, Accepts
  <1>18. ASSUME NEW t \in Requests, HelperRedeems(t) PROVE Informed'
    BY <1>18 DEF HelperRedeems, Goto
  <1>19. ASSUME NEW t \in Requests, HelperFails(t) PROVE Informed'
    BY <1>19 DEF HelperFails, Goto
  <1>20. ASSUME NEW t \in Requests, ReadSecret(t) PROVE Informed'
    BY <1>20 DEF ReadSecret, Read, Goto
  <1>21. ASSUME NEW t \in Requests, SkipSecret(t) PROVE Informed'
    BY <1>21 DEF SkipSecret, Goto, AfterSecret
  <1>22. ASSUME NEW t \in Requests, WriteSecret(t) PROVE Informed'
    BY <1>22 DEF WriteSecret, Wrote, GotoHaving, AfterSecret, Cell
  <1>23. ASSUME NEW t \in Requests, SecretRefused(t) PROVE Informed'
    BY <1>23 DEF SecretRefused, Refused, Goto
  <1>24. ASSUME NEW t \in Requests, Refreshed(t) PROVE Informed'
    BY <1>24 DEF Refreshed, Goto
  <1>25. ASSUME NEW t \in Requests, UpdateInstance(t) PROVE Informed'
    <2>1. CASE pc[t] = "readInstance" /\ Read(t, "instance") /\ Goto(t, "updateInstance")
               /\ UNCHANGED <<record, files, secret, deleted>>
      BY <2>1 DEF Read, Goto
    <2>2. CASE pc[t] = "updateInstance" /\ Wrote(t, "instance") /\ GotoHaving(t, "succeed", "instance")
               /\ UNCHANGED <<record, files, secret, deleted>>
      BY <2>2 DEF Wrote, GotoHaving, Locals
    <2>3. QED
      BY <1>25, <2>1, <2>2 DEF UpdateInstance
  <1>26. ASSUME NEW t \in Requests, UpdateFails(t) PROVE Informed'
    BY <1>26 DEF UpdateFails, Goto
  <1>27. ASSUME NEW t \in Requests, Succeed(t) PROVE Informed'
    BY <1>27 DEF Succeed, Put, Wrote, IsCurrent, Goto
  <1>28. ASSUME NEW t \in Requests, SucceedRefused(t) PROVE Informed'
    BY <1>28 DEF SucceedRefused, Refused, Goto
  <1>29. ASSUME NEW t \in Requests, Fail(t) PROVE Informed'
    BY <1>29 DEF Fail, Put, Wrote, IsCurrent, Goto
  <1>30. ASSUME NEW t \in Requests, FailRefused(t) PROVE Informed'
    BY <1>30 DEF FailRefused, Refused, Goto
  <1>31. ASSUME NEW t \in Requests, CancelPut(t) PROVE Informed'
    BY <1>31 DEF CancelPut, Put, Wrote, IsCurrent, Goto
  <1>32. ASSUME NEW t \in Requests, CancelRefused(t) PROVE Informed'
    BY <1>32 DEF CancelRefused, Refused, Goto
  <1>33. ASSUME NEW t \in Requests, Clear(t) PROVE Informed'
    BY <1>33 DEF Clear, Put, Wrote, IsCurrent, Goto
  <1>34. ASSUME NEW t \in Requests, ClearRefused(t) PROVE Informed'
    BY <1>34 DEF ClearRefused, Refused, Goto
  <1>35. ASSUME NEW t \in Requests, DeleteInstance(t) PROVE Informed'
    BY <1>35 DEF DeleteInstance, Goto
  <1>36. ASSUME NEW t \in Requests, DeleteRefused(t) PROVE Informed'
    BY <1>36 DEF DeleteRefused, Refused, Goto
  <1>37. ASSUME NEW t \in Requests, NEW a \in shown \cup {Nothing}, Exchange(t, a) PROVE Informed'
    BY <1>37 DEF Exchange, Arrive, Read
  <1>38. CASE Age
    BY <1>38 DEF Age
  <1>39. CASE Edit
    BY <1>39 DEF Edit
  <1>40. ASSUME NEW t \in Requests, EditWithToken(t) PROVE Informed'
    BY <1>40 DEF EditWithToken, Arrive, Read
  <1>41. ASSUME NEW t \in Requests, RemoveToken(t) PROVE Informed'
    BY <1>41 DEF RemoveToken, Arrive
  <1>42. ASSUME NEW t \in Requests, EditInstance(t) PROVE Informed'
    BY <1>42 DEF EditInstance, Wrote, Goto
  <1>43. ASSUME NEW t \in Requests, EditRefused(t) PROVE Informed'
    BY <1>43 DEF EditRefused, Refused, Goto
  <1>44. QED
    BY <1>1, <1>2, <1>3, <1>4, <1>5, <1>6, <1>7, <1>8, <1>9, <1>10, <1>11, <1>12,
       <1>13, <1>14, <1>15, <1>16, <1>17, <1>18, <1>19, <1>20, <1>21, <1>22, <1>23, <1>24,
       <1>25, <1>26, <1>27, <1>28, <1>29, <1>30, <1>31, <1>32, <1>33, <1>34, <1>35, <1>36,
       <1>37, <1>38, <1>39, <1>40, <1>41, <1>42, <1>43 DEF Step, Request, Continue

\* The callback that the helper accepted is the newest one, and so is the URL of the
\* operation that is validated.
LEMMA UrlInv == ASSUME Inv, Step PROVE OwnUrls'
  <1> USE DEF Inv, TypeOK, Informed, JobOf, Knows, Holding, Exchanging, Accepted, Secreting, Finishing, Active,
          OwnUrls, Newest, UrlOf, SucceedsByItsOwnUrl, Nothing, Supplied, NoLocals, Stores, Attempts, record, files, stores, locals
  <1>1. ASSUME NEW t \in Requests, Status(t) PROVE OwnUrls'
    BY <1>1 DEF Status, Arrive, Read
  <1>2. ASSUME NEW t \in Requests, Begin(t) PROVE OwnUrls'
    BY <1>2 DEF Begin, Arrive, Read, MayBegin
  <1>3. ASSUME NEW t \in Requests, Cancel(t) PROVE OwnUrls'
    BY <1>3 DEF Cancel, Arrive, Read
  <1>4. ASSUME NEW t \in Requests, Delete(t) PROVE OwnUrls'
    BY <1>4 DEF Delete, Arrive
  <1>5. ASSUME NEW t \in Requests, Refresh(t) PROVE OwnUrls'
    BY <1>5 DEF Refresh, Arrive
  <1>6. ASSUME NEW t \in Requests, Unlink(t) PROVE OwnUrls'
    BY <1>6 DEF Unlink, Goto
  <1>7. ASSUME NEW t \in Requests, Expire(t) PROVE OwnUrls'
    BY <1>7 DEF Expire, Put, Wrote, IsCurrent, Goto
  <1>8. ASSUME NEW t \in Requests, ExpireRefused(t) PROVE OwnUrls'
    BY <1>8 DEF ExpireRefused, Refused, Goto
  <1>9. ASSUME NEW t \in Requests, BeginUnlink(t) PROVE OwnUrls'
    BY <1>9 DEF BeginUnlink, Goto
  <1>10. ASSUME NEW t \in Requests, BeginHelper(t) PROVE OwnUrls'
    <2> PICK n \in Nat : n = begun + 1
      OBVIOUS
    <2>1. /\ pc[t] = "beginHelper" /\ mem[t].job = "begin" /\ begun' = n /\ pending' = n
          /\ pc'[t] = "beginPut"
          /\ \A u \in Requests : u # t => pc'[u] = pc[u]
          /\ UNCHANGED <<state, due, url, grant, shown, secret, deleted, current>>
      BY <1>10 DEF BeginHelper
    <2>2. mem'[t].auth = n /\ mem'[t].job = "begin" /\ \A u \in Requests : u # t => mem'[u] = mem[u]
      BY <1>10, <2>1 DEF BeginHelper
    <2>3. /\ shown \subseteq 1 .. n /\ n \in 1 .. n /\ url \in 0 .. n
          /\ \A a \in 1 .. begun : a \in 1 .. n /\ a < n
      OBVIOUS
    <2>4. Newest' /\ SucceedsByItsOwnUrl'
      BY <2>1, <2>3
    <2>5. \A u \in Requests : u # t => UrlOf(u)'
      BY <2>1, <2>2, <2>3
    <2>6. UrlOf(t)'
      <3>1. \A a \in shown : a < n
        BY <2>3
      <3>2. QED
        BY <2>1, <2>2, <2>3, <3>1
    <2>7. QED
      BY <2>4, <2>5, <2>6
  <1>11. ASSUME NEW t \in Requests, BeginHelperFails(t) PROVE OwnUrls'
    BY <1>11 DEF BeginHelperFails, Goto
  <1>12. ASSUME NEW t \in Requests, BeginPut(t) PROVE OwnUrls'
    <2> PICK a \in 1 .. begun : a = mem[t].auth
      BY <1>12 DEF BeginPut
    <2>1. /\ pc[t] = "beginPut" /\ Holding(t) /\ state' = "waiting-for-callback"
          /\ url' = a /\ shown' = shown \cup {a}
          /\ pc'[t] = "idle" /\ mem'[t].job = "none"
          /\ UNCHANGED <<grant, pending, begun>>
      BY <1>12 DEF BeginPut, Put, IsCurrent, Goto
    <2>2. \A u \in Requests : u # t => mem'[u] = mem[u] /\ pc'[u] = pc[u] /\ ~Holding(u)'
      BY <1>12 DEF BeginPut, Put, Wrote, Goto
    <2>3. \A b \in shown : b < a
      BY <2>1
    <2>4. Newest'
      <3>1. a <= a /\ a \in 0 .. begun /\ \A b \in shown : b <= a
        BY <2>3
      <3>2. shown \cup {a} \subseteq 1 .. begun /\ \A b \in shown \cup {a} : b <= a
        BY <3>1
      <3>3. QED
        BY <2>1, <3>1, <3>2
    <2>5. \A u \in Requests : UrlOf(u)'
      BY <2>1, <2>2
    <2>6. QED
      BY <2>1, <2>4, <2>5
  <1>13. ASSUME NEW t \in Requests, BeginRefused(t) PROVE OwnUrls'
    BY <1>13 DEF BeginRefused, Refused, Goto
  <1>14. ASSUME NEW t \in Requests, Validate(t) PROVE OwnUrls'
    BY <1>14 DEF Validate, Put, Wrote, IsCurrent, Goto
  <1>15. ASSUME NEW t \in Requests, ValidateRefused(t) PROVE OwnUrls'
    BY <1>15 DEF ValidateRefused, Refused, Goto
  <1>16. ASSUME NEW t \in Requests, LoadHelper(t) PROVE OwnUrls'
    BY <1>16 DEF LoadHelper, Goto
  <1>17. ASSUME NEW t \in Requests, HelperAccepts(t) PROVE OwnUrls'
    <2>1. /\ pc[t] = "helper" /\ pending # Nothing /\ mem[t].auth = pending
          /\ pc'[t] = "redeem" /\ mem' = mem
          /\ \A u \in Requests : u # t => pc'[u] = pc[u]
          /\ UNCHANGED <<state, url, grant, pending, begun, shown, current>>
      BY <1>17 DEF HelperAccepts, Accepts, Goto
    <2>2. Holding(t) => mem[t].auth = url
      <3>1. mem[t].auth = begun /\ begun \in shown
        BY <2>1
      <3>2. CASE Holding(t)
        <4>1. state = "validating"
          BY <2>1, <3>2
        <4>2. begun <= url /\ url <= begun
          BY <3>1, <4>1
        <4>3. QED
          BY <3>1, <4>2
      <3>3. QED
        BY <3>2
    <2>3. Newest' /\ SucceedsByItsOwnUrl'
      BY <2>1
    <2>4. UrlOf(t)'
      BY <2>1, <2>2
    <2>5. \A u \in Requests : u # t => UrlOf(u)'
      BY <2>1
    <2>6. QED
      BY <2>3, <2>4, <2>5
  <1>18. ASSUME NEW t \in Requests, HelperRedeems(t) PROVE OwnUrls'
    BY <1>18 DEF HelperRedeems, Goto
  <1>19. ASSUME NEW t \in Requests, HelperFails(t) PROVE OwnUrls'
    BY <1>19 DEF HelperFails, Goto
  <1>20. ASSUME NEW t \in Requests, ReadSecret(t) PROVE OwnUrls'
    BY <1>20 DEF ReadSecret, Read, Goto
  <1>21. ASSUME NEW t \in Requests, SkipSecret(t) PROVE OwnUrls'
    BY <1>21 DEF SkipSecret, Goto, AfterSecret
  <1>22. ASSUME NEW t \in Requests, WriteSecret(t) PROVE OwnUrls'
    BY <1>22 DEF WriteSecret, Wrote, GotoHaving, AfterSecret, Cell
  <1>23. ASSUME NEW t \in Requests, SecretRefused(t) PROVE OwnUrls'
    BY <1>23 DEF SecretRefused, Refused, Goto
  <1>24. ASSUME NEW t \in Requests, Refreshed(t) PROVE OwnUrls'
    BY <1>24 DEF Refreshed, Goto
  <1>25. ASSUME NEW t \in Requests, UpdateInstance(t) PROVE OwnUrls'
    <2>1. CASE pc[t] = "readInstance" /\ Read(t, "instance") /\ Goto(t, "updateInstance")
               /\ UNCHANGED <<record, files, secret, deleted>>
      BY <2>1 DEF Read, Goto
    <2>2. CASE pc[t] = "updateInstance" /\ Wrote(t, "instance") /\ GotoHaving(t, "succeed", "instance")
               /\ UNCHANGED <<record, files, secret, deleted>>
      BY <2>2 DEF Wrote, GotoHaving
    <2>3. QED
      BY <1>25, <2>1, <2>2 DEF UpdateInstance
  <1>26. ASSUME NEW t \in Requests, UpdateFails(t) PROVE OwnUrls'
    BY <1>26 DEF UpdateFails, Goto
  <1>27. ASSUME NEW t \in Requests, Succeed(t) PROVE OwnUrls'
    BY <1>27 DEF Succeed, Put, Wrote, IsCurrent, Goto
  <1>28. ASSUME NEW t \in Requests, SucceedRefused(t) PROVE OwnUrls'
    BY <1>28 DEF SucceedRefused, Refused, Goto
  <1>29. ASSUME NEW t \in Requests, Fail(t) PROVE OwnUrls'
    BY <1>29 DEF Fail, Put, Wrote, IsCurrent, Goto
  <1>30. ASSUME NEW t \in Requests, FailRefused(t) PROVE OwnUrls'
    BY <1>30 DEF FailRefused, Refused, Goto
  <1>31. ASSUME NEW t \in Requests, CancelPut(t) PROVE OwnUrls'
    BY <1>31 DEF CancelPut, Put, Wrote, IsCurrent, Goto
  <1>32. ASSUME NEW t \in Requests, CancelRefused(t) PROVE OwnUrls'
    BY <1>32 DEF CancelRefused, Refused, Goto
  <1>33. ASSUME NEW t \in Requests, Clear(t) PROVE OwnUrls'
    BY <1>33 DEF Clear, Put, Wrote, IsCurrent, Goto
  <1>34. ASSUME NEW t \in Requests, ClearRefused(t) PROVE OwnUrls'
    BY <1>34 DEF ClearRefused, Refused, Goto
  <1>35. ASSUME NEW t \in Requests, DeleteInstance(t) PROVE OwnUrls'
    BY <1>35 DEF DeleteInstance, Goto
  <1>36. ASSUME NEW t \in Requests, DeleteRefused(t) PROVE OwnUrls'
    BY <1>36 DEF DeleteRefused, Refused, Goto
  <1>37. ASSUME NEW t \in Requests, NEW a \in shown \cup {Nothing}, Exchange(t, a) PROVE OwnUrls'
    BY <1>37 DEF Exchange, Arrive, Read
  <1>38. CASE Age
    BY <1>38 DEF Age
  <1>39. CASE Edit
    BY <1>39 DEF Edit
  <1>40. ASSUME NEW t \in Requests, EditWithToken(t) PROVE OwnUrls'
    BY <1>40 DEF EditWithToken, Arrive, Read
  <1>41. ASSUME NEW t \in Requests, RemoveToken(t) PROVE OwnUrls'
    BY <1>41 DEF RemoveToken, Arrive
  <1>42. ASSUME NEW t \in Requests, EditInstance(t) PROVE OwnUrls'
    BY <1>42 DEF EditInstance, Wrote, Goto
  <1>43. ASSUME NEW t \in Requests, EditRefused(t) PROVE OwnUrls'
    BY <1>43 DEF EditRefused, Refused, Goto
  <1>44. QED
    BY <1>1, <1>2, <1>3, <1>4, <1>5, <1>6, <1>7, <1>8, <1>9, <1>10, <1>11, <1>12,
       <1>13, <1>14, <1>15, <1>16, <1>17, <1>18, <1>19, <1>20, <1>21, <1>22, <1>23, <1>24,
       <1>25, <1>26, <1>27, <1>28, <1>29, <1>30, <1>31, <1>32, <1>33, <1>34, <1>35, <1>36,
       <1>37, <1>38, <1>39, <1>40, <1>41, <1>42, <1>43 DEF Step, Request, Continue

\* Tokens are removed after the deletion only.
LEMMA StoredInv == ASSUME Inv, Step PROVE Stored'
  <1> USE DEF Inv, TypeOK, Informed, JobOf, Secreting, Finishing,
          Stored, StoredOf, SucceededIsStored, Nothing, Supplied, NoLocals, record, files, stores, locals
  <1>1. ASSUME NEW t \in Requests, Status(t) PROVE Stored'
    BY <1>1 DEF Status, Arrive, Read
  <1>2. ASSUME NEW t \in Requests, Begin(t) PROVE Stored'
    BY <1>2 DEF Begin, Arrive, Read, MayBegin
  <1>3. ASSUME NEW t \in Requests, Cancel(t) PROVE Stored'
    BY <1>3 DEF Cancel, Arrive, Read
  <1>4. ASSUME NEW t \in Requests, Delete(t) PROVE Stored'
    BY <1>4 DEF Delete, Arrive
  <1>5. ASSUME NEW t \in Requests, Refresh(t) PROVE Stored'
    BY <1>5 DEF Refresh, Arrive
  <1>6. ASSUME NEW t \in Requests, Unlink(t) PROVE Stored'
    BY <1>6 DEF Unlink, Goto
  <1>7. ASSUME NEW t \in Requests, Expire(t) PROVE Stored'
    BY <1>7 DEF Expire, Put, Wrote, IsCurrent, Goto
  <1>8. ASSUME NEW t \in Requests, ExpireRefused(t) PROVE Stored'
    BY <1>8 DEF ExpireRefused, Refused, Goto
  <1>9. ASSUME NEW t \in Requests, BeginUnlink(t) PROVE Stored'
    BY <1>9 DEF BeginUnlink, Goto
  <1>10. ASSUME NEW t \in Requests, BeginHelper(t) PROVE Stored'
    BY <1>10 DEF BeginHelper
  <1>11. ASSUME NEW t \in Requests, BeginHelperFails(t) PROVE Stored'
    BY <1>11 DEF BeginHelperFails, Goto
  <1>12. ASSUME NEW t \in Requests, BeginPut(t) PROVE Stored'
    BY <1>12 DEF BeginPut, Put, Wrote, IsCurrent, Goto
  <1>13. ASSUME NEW t \in Requests, BeginRefused(t) PROVE Stored'
    BY <1>13 DEF BeginRefused, Refused, Goto
  <1>14. ASSUME NEW t \in Requests, Validate(t) PROVE Stored'
    BY <1>14 DEF Validate, Put, Wrote, IsCurrent, Goto
  <1>15. ASSUME NEW t \in Requests, ValidateRefused(t) PROVE Stored'
    BY <1>15 DEF ValidateRefused, Refused, Goto
  <1>16. ASSUME NEW t \in Requests, LoadHelper(t) PROVE Stored'
    BY <1>16 DEF LoadHelper, Goto
  <1>17. ASSUME NEW t \in Requests, HelperAccepts(t) PROVE Stored'
    BY <1>17 DEF HelperAccepts, Goto, Accepts
  <1>18. ASSUME NEW t \in Requests, HelperRedeems(t) PROVE Stored'
    BY <1>18 DEF HelperRedeems, Goto
  <1>19. ASSUME NEW t \in Requests, HelperFails(t) PROVE Stored'
    BY <1>19 DEF HelperFails, Goto
  <1>20. ASSUME NEW t \in Requests, ReadSecret(t) PROVE Stored'
    BY <1>20 DEF ReadSecret, Read, Goto
  <1>21. ASSUME NEW t \in Requests, SkipSecret(t) PROVE Stored'
    BY <1>21 DEF SkipSecret, Goto, AfterSecret
  <1>22. ASSUME NEW t \in Requests, WriteSecret(t) PROVE Stored'
    BY <1>22 DEF WriteSecret, Wrote, GotoHaving, AfterSecret, Cell
  <1>23. ASSUME NEW t \in Requests, SecretRefused(t) PROVE Stored'
    BY <1>23 DEF SecretRefused, Refused, Goto
  <1>24. ASSUME NEW t \in Requests, Refreshed(t) PROVE Stored'
    BY <1>24 DEF Refreshed, Goto
  <1>25. ASSUME NEW t \in Requests, UpdateInstance(t) PROVE Stored'
    <2>1. CASE pc[t] = "readInstance" /\ Read(t, "instance") /\ Goto(t, "updateInstance")
               /\ UNCHANGED <<record, files, secret, deleted>>
      BY <2>1 DEF Read, Goto
    <2>2. CASE pc[t] = "updateInstance" /\ Wrote(t, "instance") /\ GotoHaving(t, "succeed", "instance")
               /\ UNCHANGED <<record, files, secret, deleted>>
      BY <2>2 DEF Wrote, GotoHaving, Locals
    <2>3. QED
      BY <1>25, <2>1, <2>2 DEF UpdateInstance
  <1>26. ASSUME NEW t \in Requests, UpdateFails(t) PROVE Stored'
    BY <1>26 DEF UpdateFails, Goto
  <1>27. ASSUME NEW t \in Requests, Succeed(t) PROVE Stored'
    BY <1>27 DEF Succeed, Put, Wrote, IsCurrent, Goto
  <1>28. ASSUME NEW t \in Requests, SucceedRefused(t) PROVE Stored'
    BY <1>28 DEF SucceedRefused, Refused, Goto
  <1>29. ASSUME NEW t \in Requests, Fail(t) PROVE Stored'
    BY <1>29 DEF Fail, Put, Wrote, IsCurrent, Goto
  <1>30. ASSUME NEW t \in Requests, FailRefused(t) PROVE Stored'
    BY <1>30 DEF FailRefused, Refused, Goto
  <1>31. ASSUME NEW t \in Requests, CancelPut(t) PROVE Stored'
    BY <1>31 DEF CancelPut, Put, Wrote, IsCurrent, Goto
  <1>32. ASSUME NEW t \in Requests, CancelRefused(t) PROVE Stored'
    BY <1>32 DEF CancelRefused, Refused, Goto
  <1>33. ASSUME NEW t \in Requests, Clear(t) PROVE Stored'
    BY <1>33 DEF Clear, Put, Wrote, IsCurrent, Goto
  <1>34. ASSUME NEW t \in Requests, ClearRefused(t) PROVE Stored'
    BY <1>34 DEF ClearRefused, Refused, Goto
  <1>35. ASSUME NEW t \in Requests, DeleteInstance(t) PROVE Stored'
    BY <1>35 DEF DeleteInstance, Goto
  <1>36. ASSUME NEW t \in Requests, DeleteRefused(t) PROVE Stored'
    BY <1>36 DEF DeleteRefused, Refused, Goto
  <1>37. ASSUME NEW t \in Requests, NEW a \in shown \cup {Nothing}, Exchange(t, a) PROVE Stored'
    BY <1>37 DEF Exchange, Arrive, Read
  <1>38. CASE Age
    BY <1>38 DEF Age
  <1>39. CASE Edit
    BY <1>39 DEF Edit
  <1>40. ASSUME NEW t \in Requests, EditWithToken(t) PROVE Stored'
    BY <1>40 DEF EditWithToken, Arrive, Read
  <1>41. ASSUME NEW t \in Requests, RemoveToken(t) PROVE Stored'
    BY <1>41 DEF RemoveToken, Arrive
  <1>42. ASSUME NEW t \in Requests, EditInstance(t) PROVE Stored'
    BY <1>42 DEF EditInstance, Wrote, Goto
  <1>43. ASSUME NEW t \in Requests, EditRefused(t) PROVE Stored'
    BY <1>43 DEF EditRefused, Refused, Goto
  <1>44. QED
    BY <1>1, <1>2, <1>3, <1>4, <1>5, <1>6, <1>7, <1>8, <1>9, <1>10, <1>11, <1>12,
       <1>13, <1>14, <1>15, <1>16, <1>17, <1>18, <1>19, <1>20, <1>21, <1>22, <1>23, <1>24,
       <1>25, <1>26, <1>27, <1>28, <1>29, <1>30, <1>31, <1>32, <1>33, <1>34, <1>35, <1>36,
       <1>37, <1>38, <1>39, <1>40, <1>41, <1>42, <1>43 DEF Step, Request, Continue

LEMMA NextInv == Inv /\ [Next]_vars => Inv'
  <1> SUFFICES ASSUME Inv, [Next]_vars PROVE Inv'
    OBVIOUS
  <1>1. CASE Next
    <2>1. Step /\ overlapped' \in BOOLEAN
      BY <1>1 DEF Next, Inv, TypeOK, Overlapping
    <2>2. QED
      BY <2>1, TypeInv, InformedInv, UrlInv, StoredInv DEF Inv
  <1>2. CASE UNCHANGED vars
    BY <1>2 DEF vars, record, files, stores, locals, Inv, TypeOK, Informed, JobOf, Knows, Holding,
       Exchanging, Accepted, OwnUrls, Newest, UrlOf, SucceedsByItsOwnUrl, Stored, StoredOf,
       SucceededIsStored
  <1>3. QED
    BY <1>1, <1>2

THEOREM Invariance == Spec => []Inv
  BY InitInv, NextInv, PTL DEF Spec

-----------------------------------------------------------------------------
\* Every variable of the authorization keeps its type.
THEOREM TypeCorrect == Spec => []TypeOK
  <1>1. Inv => TypeOK
    BY DEF Inv
  <1>2. QED
    BY <1>1, Invariance, PTL

\* An operation never succeeds with tokens of another URL than its own, for any
\* number of overlapping requests and of authorizations.
THEOREM OwnUrl == Spec => []SucceedsByItsOwnUrl
  <1>1. Inv => SucceedsByItsOwnUrl
    BY DEF Inv, OwnUrls
  <1>2. QED
    BY <1>1, Invariance, PTL

\* An operation is shown as succeeded only by an exchange that had stored its access token
\* and switched the source to it.
THEOREM StoredFirst == Spec => []SucceededIsStored
  <1>1. Inv => SucceededIsStored
    BY DEF Inv, Stored
  <1>2. QED
    BY <1>1, Invariance, PTL

\* A write of a request that holds the operation is a step of the promise.
LEMMA StepImplements == Inv /\ [Next]_vars => [Operation!Next]_<<state, due>>
  <1> SUFFICES ASSUME Inv, [Next]_vars PROVE [Operation!Next]_<<state, due>>
    OBVIOUS
  <1> USE DEF Inv, Informed, JobOf, Knows, Holding, Exchanging, record
  <1>1. ASSUME NEW t \in Requests, Request(t) PROVE UNCHANGED <<state, due>>
    BY <1>1 DEF Request, Status, Begin, Cancel, Delete, Refresh, Exchange, EditWithToken, RemoveToken
  <1>2. ASSUME NEW t \in Requests, Expire(t) PROVE Operation!Expire
    BY <1>2 DEF Expire, Put, IsCurrent, Operation!Expire, Active, Operation!Active
  <1>3. ASSUME NEW t \in Requests, BeginPut(t) PROVE Operation!Begin
    BY <1>3 DEF BeginPut, Put, IsCurrent, Operation!Begin, Active, Operation!Active
  <1>4. ASSUME NEW t \in Requests, Validate(t) PROVE Operation!Validate
    BY <1>4 DEF Validate, Put, IsCurrent, Operation!Validate
  <1>5. ASSUME NEW t \in Requests, Succeed(t) PROVE Operation!Settle
    BY <1>5 DEF Succeed, Put, IsCurrent, Accepted, Finishing, Operation!Settle
  <1>6. ASSUME NEW t \in Requests, Fail(t) PROVE Operation!Settle
    BY <1>6 DEF Fail, Put, IsCurrent, Operation!Settle
  <1>7. ASSUME NEW t \in Requests, CancelPut(t) PROVE Operation!Cancel
    BY <1>7 DEF CancelPut, Put, IsCurrent, Operation!Cancel, Active, Operation!Active
  <1>8. ASSUME NEW t \in Requests, Clear(t) PROVE Operation!Delete
    BY <1>8 DEF Clear, Put, IsCurrent, Operation!Delete
  <1>9. CASE Age
    <2>1. Operation!Age
      BY <1>9 DEF Age, Operation!Age, Active, Operation!Active
    <2>2. QED
      BY <2>1 DEF Operation!Next
  <1>10. CASE Edit \/ UNCHANGED vars
    BY <1>10 DEF Edit, vars
  <1>11. ASSUME NEW t \in Requests, Continue(t)
         PROVE  \/ Expire(t) \/ BeginPut(t) \/ Validate(t) \/ Succeed(t) \/ Fail(t) \/ CancelPut(t) \/ Clear(t)
                \/ UNCHANGED <<state, due>>
    BY <1>11 DEF Continue, Unlink, ExpireRefused, BeginUnlink, BeginHelper, BeginHelperFails,
       BeginRefused, ValidateRefused, LoadHelper, HelperAccepts, HelperRedeems, HelperFails,
       ReadSecret, SkipSecret, WriteSecret, SecretRefused, Refreshed, UpdateInstance, UpdateFails,
       SucceedRefused, FailRefused, CancelRefused, ClearRefused, DeleteInstance, DeleteRefused,
       EditInstance, EditRefused, Refused
  <1>12. ASSUME NEW t \in Requests, Continue(t) PROVE Operation!Next \/ UNCHANGED <<state, due>>
    BY <1>2, <1>3, <1>4, <1>5, <1>6, <1>7, <1>8, <1>11, <1>12 DEF Operation!Next
  <1>13. QED
    BY <1>1, <1>9, <1>10, <1>12 DEF Next, Step, Operation!Next

\* The operation implements the promise to its user, for any number of requests:
\* what was settled, cancelled or expired is never revived by a late write.
THEOREM OAuthImplementsOperation == Spec => ImplementsOperation
  <1>1. Init => Operation!Init
    BY DEF Init, Operation!Init
  <1>2. QED
    BY <1>1, StepImplements, Invariance, PTL DEF Spec, ImplementsOperation, Operation!Spec, Operation!vars
-----------------------------------------------------------------------------
(* Requests that take turns.                                               *)

\* What is stored as a secret was shown to a user as a URL before, or a user supplied
\* it, and a deletion stores nothing.  It holds for every schedule.
Origins ==
  /\ secret["access"] \in shown \cup {Nothing, Supplied}
  /\ secret["refresh"] \in shown \cup {Nothing}
  /\ \A t \in Requests :
       /\ mem[t].job = "refresh" => mem[t].auth \in shown \cup {Nothing}
       /\ mem[t].job = "delete" => mem[t].auth = Nothing

\* No stored token comes from the operation's own URL.
Unused == secret["access"] # url /\ secret["refresh"] # url

Abandoned == Active \cup {"cancelled"}

\* Between two requests: a waiting operation has its file, a settled one none of its own and
\* stored tokens only if it did not end by a cancel, and a deleted source has nothing.
Rest ==
  /\ state = "waiting-for-callback" /\ ~due => pending = url
  /\ state \in Settled => pending \notin shown
  /\ state \in Abandoned => Unused
  /\ deleted =>
       /\ state = "none" /\ pending = Nothing
       /\ \A s \in {"access", "refresh"} : secret[s] = Nothing

\* The stages of a token refresh and of a deletion.
StageOf(t) ==
  /\ mem[t].job = "refresh" => pc[t] \in {"refreshing"} \cup Secreting
  /\ mem[t].job = "delete" => pc[t] \in {"clear", "unlink", "deleteInstance"} \cup Secreting

\* Within the only request: what it read is current.
Versions(t) ==
  /\ mem[t].job \in {"refresh", "edit", "remove"} \/ Holding(t)
  /\ pc[t] \in {"accessSet", "refreshSet"} => IsCurrent(t, Cell(pc[t]))

\* The file is that of the URL, or the request has still to remove it or to store
\* the URL that it is of.
Files(t) ==
  /\ state = "waiting-for-callback" /\ ~due => pending = url
  /\ state \in Settled => pending \notin shown \/ pc[t] = "unlink"
  /\ pc[t] = "unlink" => state \notin Active /\ (mem[t].job = "delete" => state = "none")
  /\ pc[t] = "deleteInstance" => state = "none" /\ pending = Nothing
  /\ pc[t] = "beginHelper" => pending = Nothing
  /\ pc[t] = "beginPut" => pending = mem[t].auth
  /\ mem[t].job = "exchange" /\ pc[t] \in Secreting \cup Finishing => pending = Nothing

\* The exchange has stored a token: it will succeed or fail, and not be cancelled.
Storing(t) ==
  mem[t].job = "exchange" /\ pc[t] \in {"refresh", "refreshSet", "fail"} \cup Finishing

Tokens(t) ==
  /\ state \in Abandoned => Unused \/ Storing(t)
  /\ state \in Abandoned /\ mem[t].job = "refresh" => mem[t].auth # url

\* Only the deletion itself goes on once the source is deleted.
Removing(t) ==
  deleted =>
    /\ mem[t].job = "delete" /\ pc[t] \in Secreting
    /\ state = "none" /\ pending = Nothing
    /\ pc[t] \in {"refresh", "refreshSet"} => secret["access"] = Nothing

Tidy(t) == StageOf(t) /\ Versions(t) /\ Files(t) /\ Tokens(t) /\ Removing(t)

Calm ==
  /\ ~Overlapping
  /\ Idle => Rest
  /\ \A t \in Requests : pc[t] # "idle" => Tidy(t)

TurnsInv == Inv /\ Origins /\ (~overlapped => Calm)

LEMMA InitTurnsInv == Init => TurnsInv
  <1> SUFFICES ASSUME Init PROVE TurnsInv
    OBVIOUS
  <1>1. Origins
    BY DEF Init, Origins, NoLocals
  <1>2. Calm
    BY DEF Init, Calm, Overlapping, Rest, Settled, Abandoned, Active
  <1>3. QED
    BY <1>1, <1>2, InitInv DEF TurnsInv

\* A secret is written by a request that holds a shown authorization, or none.
LEMMA OriginsStep == ASSUME Inv, Origins, Step PROVE Origins'
  <1> USE DEF Inv, TypeOK, Informed, JobOf, OwnUrls, UrlOf, Secreting, Finishing,
          Origins, Nothing, Supplied, NoLocals, record, files, stores, locals
  <1>1. ASSUME NEW t \in Requests, Status(t) PROVE Origins'
    BY <1>1 DEF Status, Arrive, Read
  <1>2. ASSUME NEW t \in Requests, Begin(t) PROVE Origins'
    BY <1>2 DEF Begin, Arrive, Read, MayBegin
  <1>3. ASSUME NEW t \in Requests, Cancel(t) PROVE Origins'
    BY <1>3 DEF Cancel, Arrive, Read
  <1>4. ASSUME NEW t \in Requests, Delete(t) PROVE Origins'
    BY <1>4 DEF Delete, Arrive
  <1>5. ASSUME NEW t \in Requests, Refresh(t) PROVE Origins'
    BY <1>5 DEF Refresh, Arrive
  <1>6. ASSUME NEW t \in Requests, Unlink(t) PROVE Origins'
    BY <1>6 DEF Unlink, Goto
  <1>7. ASSUME NEW t \in Requests, Expire(t) PROVE Origins'
    BY <1>7 DEF Expire, Put, Wrote, Goto
  <1>8. ASSUME NEW t \in Requests, ExpireRefused(t) PROVE Origins'
    BY <1>8 DEF ExpireRefused, Refused, Goto
  <1>9. ASSUME NEW t \in Requests, BeginUnlink(t) PROVE Origins'
    BY <1>9 DEF BeginUnlink, Goto
  <1>10. ASSUME NEW t \in Requests, BeginHelper(t) PROVE Origins'
    BY <1>10 DEF BeginHelper
  <1>11. ASSUME NEW t \in Requests, BeginHelperFails(t) PROVE Origins'
    BY <1>11 DEF BeginHelperFails, Goto
  <1>12. ASSUME NEW t \in Requests, BeginPut(t) PROVE Origins'
    BY <1>12 DEF BeginPut, Put, Wrote, Goto
  <1>13. ASSUME NEW t \in Requests, BeginRefused(t) PROVE Origins'
    BY <1>13 DEF BeginRefused, Refused, Goto
  <1>14. ASSUME NEW t \in Requests, Validate(t) PROVE Origins'
    BY <1>14 DEF Validate, Put, Wrote, Goto
  <1>15. ASSUME NEW t \in Requests, ValidateRefused(t) PROVE Origins'
    BY <1>15 DEF ValidateRefused, Refused, Goto
  <1>16. ASSUME NEW t \in Requests, LoadHelper(t) PROVE Origins'
    BY <1>16 DEF LoadHelper, Goto
  <1>17. ASSUME NEW t \in Requests, HelperAccepts(t) PROVE Origins'
    BY <1>17 DEF HelperAccepts, Goto, Accepts
  <1>18. ASSUME NEW t \in Requests, HelperRedeems(t) PROVE Origins'
    BY <1>18 DEF HelperRedeems, Goto
  <1>19. ASSUME NEW t \in Requests, HelperFails(t) PROVE Origins'
    BY <1>19 DEF HelperFails, Goto
  <1>20. ASSUME NEW t \in Requests, ReadSecret(t) PROVE Origins'
    BY <1>20 DEF ReadSecret, Read, Goto, Cell, IsCurrent
  <1>21. ASSUME NEW t \in Requests, SkipSecret(t) PROVE Origins'
    BY <1>21 DEF SkipSecret, Goto, AfterSecret
  <1>22. ASSUME NEW t \in Requests, WriteSecret(t) PROVE Origins'
    BY <1>22 DEF WriteSecret, Wrote, GotoHaving, AfterSecret, Cell
  <1>23. ASSUME NEW t \in Requests, SecretRefused(t) PROVE Origins'
    BY <1>23 DEF SecretRefused, Refused, Goto
  <1>24. ASSUME NEW t \in Requests, Refreshed(t) PROVE Origins'
    BY <1>24 DEF Refreshed, Goto
  <1>25. ASSUME NEW t \in Requests, UpdateInstance(t) PROVE Origins'
    <2>1. CASE pc[t] = "readInstance" /\ Read(t, "instance") /\ Goto(t, "updateInstance")
               /\ UNCHANGED <<record, files, secret, deleted>>
      BY <2>1 DEF Read, Goto
    <2>2. CASE pc[t] = "updateInstance" /\ Wrote(t, "instance") /\ GotoHaving(t, "succeed", "instance")
               /\ UNCHANGED <<record, files, secret, deleted>>
      BY <2>2 DEF Wrote, GotoHaving, Locals
    <2>3. QED
      BY <1>25, <2>1, <2>2 DEF UpdateInstance
  <1>26. ASSUME NEW t \in Requests, UpdateFails(t) PROVE Origins'
    BY <1>26 DEF UpdateFails, Goto
  <1>27. ASSUME NEW t \in Requests, Succeed(t) PROVE Origins'
    BY <1>27 DEF Succeed, Put, Wrote, Goto
  <1>28. ASSUME NEW t \in Requests, SucceedRefused(t) PROVE Origins'
    BY <1>28 DEF SucceedRefused, Refused, Goto
  <1>29. ASSUME NEW t \in Requests, Fail(t) PROVE Origins'
    BY <1>29 DEF Fail, Put, Wrote, Goto
  <1>30. ASSUME NEW t \in Requests, FailRefused(t) PROVE Origins'
    BY <1>30 DEF FailRefused, Refused, Goto
  <1>31. ASSUME NEW t \in Requests, CancelPut(t) PROVE Origins'
    BY <1>31 DEF CancelPut, Put, Wrote, Goto
  <1>32. ASSUME NEW t \in Requests, CancelRefused(t) PROVE Origins'
    BY <1>32 DEF CancelRefused, Refused, Goto
  <1>33. ASSUME NEW t \in Requests, Clear(t) PROVE Origins'
    BY <1>33 DEF Clear, Put, Wrote, Goto
  <1>34. ASSUME NEW t \in Requests, ClearRefused(t) PROVE Origins'
    BY <1>34 DEF ClearRefused, Refused, Goto
  <1>35. ASSUME NEW t \in Requests, DeleteInstance(t) PROVE Origins'
    BY <1>35 DEF DeleteInstance, Goto
  <1>36. ASSUME NEW t \in Requests, DeleteRefused(t) PROVE Origins'
    BY <1>36 DEF DeleteRefused, Refused, Goto
  <1>37. ASSUME NEW t \in Requests, NEW a \in shown \cup {Nothing}, Exchange(t, a) PROVE Origins'
    BY <1>37 DEF Exchange, Arrive, Read
  <1>38. CASE Age
    BY <1>38 DEF Age
  <1>39. CASE Edit
    BY <1>39 DEF Edit
  <1>40. ASSUME NEW t \in Requests, EditWithToken(t) PROVE Origins'
    BY <1>40 DEF EditWithToken, Arrive, Read
  <1>41. ASSUME NEW t \in Requests, RemoveToken(t) PROVE Origins'
    BY <1>41 DEF RemoveToken, Arrive
  <1>42. ASSUME NEW t \in Requests, EditInstance(t) PROVE Origins'
    BY <1>42 DEF EditInstance, Wrote, Goto
  <1>43. ASSUME NEW t \in Requests, EditRefused(t) PROVE Origins'
    BY <1>43 DEF EditRefused, Refused, Goto
  <1>44. QED
    BY <1>1, <1>2, <1>3, <1>4, <1>5, <1>6, <1>7, <1>8, <1>9, <1>10, <1>11, <1>12, <1>13, <1>14,
       <1>15, <1>16, <1>17, <1>18, <1>19, <1>20, <1>21, <1>22, <1>23, <1>24, <1>25, <1>26,
       <1>27, <1>28, <1>29, <1>30, <1>31, <1>32, <1>33, <1>34, <1>35, <1>36, <1>37, <1>38, <1>39, <1>40, <1>41, <1>42, <1>43 DEF Step, Request, Continue

\* A request that arrives while no other is served starts from a state of rest.
LEMMA ArrivalIsTidy ==
  ASSUME Inv, Origins, Idle, Rest, NEW t \in Requests, Request(t)
  PROVE  Tidy(t)'
  <1>0. pc[t] = "idle"
    BY DEF Idle
  <1> USE <1>0 DEF Inv, TypeOK, Informed, JobOf, Knows, Holding, Secreting, Finishing, Active,
          Settled, Abandoned, Unused, Storing, Rest, Tidy, StageOf, Versions, Files, Tokens, Removing,
          Origins, Nothing, Stores, record, files, stores, locals
  <1>1. CASE Status(t)
    BY <1>1 DEF Status, Arrive, Read
  <1>2. CASE Begin(t)
    BY <1>2 DEF Begin, Arrive, Read, MayBegin
  <1>3. CASE Cancel(t)
    BY <1>3 DEF Cancel, Arrive, Read
  <1>4. CASE Delete(t)
    BY <1>4 DEF Delete, Arrive
  <1>5. CASE Refresh(t)
    BY <1>5 DEF Refresh, Arrive
  <1>6. ASSUME NEW a \in shown \cup {Nothing}, Exchange(t, a) PROVE Tidy(t)'
    BY <1>6 DEF Exchange, Arrive, Read
  <1>7. CASE EditWithToken(t)
    BY <1>7 DEF EditWithToken, Arrive, Read
  <1>8. CASE RemoveToken(t)
    BY <1>8 DEF RemoveToken, Arrive
  <1>9. QED
    BY <1>1, <1>2, <1>3, <1>4, <1>5, <1>6, <1>7, <1>8 DEF Request

\* The only request goes on in order, or returns to a state of rest.
Orderly(t) == IF pc'[t] = "idle" THEN Rest' ELSE Tidy(t)'

LEMMA StepIsTidy ==
  ASSUME Inv, Origins, NEW t \in Requests, Tidy(t), Continue(t)
  PROVE  Orderly(t)
  <1>0. Nothing \notin shown /\ begun + 1 \notin shown
    BY DEF Inv, TypeOK, OwnUrls, Newest, Attempts, Nothing
  <1> USE <1>0 DEF Inv, TypeOK, Informed, JobOf, Knows, Holding, Exchanging, Accepted, OwnUrls, UrlOf,
          Secreting, Finishing, Active, Settled, Abandoned, Unused, Storing, Rest, Tidy, StageOf, Versions,
          Files, Tokens, Removing, Orderly, Origins, Nothing, Stores, record, files, stores, locals
  <1>1. CASE Unlink(t)
    BY <1>1 DEF Unlink, Goto
  <1>2. CASE Expire(t)
    BY <1>2 DEF Expire, Put, Wrote, IsCurrent, Goto
  <1>3. CASE ExpireRefused(t)
    BY <1>3 DEF ExpireRefused, Refused, IsCurrent, Goto
  <1>4. CASE BeginUnlink(t)
    BY <1>4 DEF BeginUnlink, Goto
  <1>5. CASE BeginHelper(t)
    BY <1>5 DEF BeginHelper
  <1>6. CASE BeginHelperFails(t)
    BY <1>6 DEF BeginHelperFails, Goto
  <1>7. CASE BeginPut(t)
    BY <1>7 DEF BeginPut, Put, Wrote, IsCurrent, Goto, Newest, Attempts, Supplied
  <1>8. CASE BeginRefused(t)
    BY <1>8 DEF BeginRefused, Refused, IsCurrent, Goto
  <1>9. CASE Validate(t)
    BY <1>9 DEF Validate, Put, Wrote, IsCurrent, Goto
  <1>10. CASE ValidateRefused(t)
    BY <1>10 DEF ValidateRefused, Refused, IsCurrent, Goto
  <1>11. CASE LoadHelper(t)
    BY <1>11 DEF LoadHelper, Goto
  <1>12. CASE HelperAccepts(t)
    BY <1>12 DEF HelperAccepts, Goto, Accepts
  <1>13. CASE HelperRedeems(t)
    BY <1>13 DEF HelperRedeems, Goto
  <1>14. CASE HelperFails(t)
    BY <1>14 DEF HelperFails, Goto
  <1>15. CASE ReadSecret(t)
    BY <1>15 DEF ReadSecret, Read, Goto, Cell, IsCurrent
  <1>16. CASE SkipSecret(t)
    BY <1>16 DEF SkipSecret, Goto, AfterSecret
  <1>17. CASE WriteSecret(t)
    BY <1>17 DEF WriteSecret, IsCurrent, Wrote, GotoHaving, AfterSecret, Cell, Locals, Newest, Supplied, Attempts
  <1>18. CASE SecretRefused(t)
    BY <1>18 DEF SecretRefused, Refused, IsCurrent, Goto
  <1>19. CASE Refreshed(t)
    BY <1>19 DEF Refreshed, Goto
  <1>20. CASE UpdateInstance(t)
    <2>1. CASE pc[t] = "readInstance" /\ Read(t, "instance") /\ Goto(t, "updateInstance")
               /\ UNCHANGED <<record, files, secret, deleted>>
      BY <2>1 DEF Read, Goto
    <2>2. CASE pc[t] = "updateInstance" /\ Wrote(t, "instance") /\ GotoHaving(t, "succeed", "instance")
               /\ UNCHANGED <<record, files, secret, deleted>>
      BY <2>2 DEF Wrote, GotoHaving, Locals
    <2>3. QED
      BY <1>20, <2>1, <2>2 DEF UpdateInstance
  <1>21. CASE UpdateFails(t)
    BY <1>21 DEF UpdateFails, Goto
  <1>22. CASE Succeed(t)
    BY <1>22 DEF Succeed, Put, Wrote, IsCurrent, Goto
  <1>23. CASE SucceedRefused(t)
    BY <1>23 DEF SucceedRefused, Refused, IsCurrent, Goto
  <1>24. CASE Fail(t)
    BY <1>24 DEF Fail, Put, Wrote, IsCurrent, Goto
  <1>25. CASE FailRefused(t)
    BY <1>25 DEF FailRefused, Refused, IsCurrent, Goto
  <1>26. CASE CancelPut(t)
    BY <1>26 DEF CancelPut, Put, Wrote, IsCurrent, Goto
  <1>27. CASE CancelRefused(t)
    BY <1>27 DEF CancelRefused, Refused, IsCurrent, Goto
  <1>28. CASE Clear(t)
    BY <1>28 DEF Clear, Put, Wrote, IsCurrent, Goto
  <1>29. CASE ClearRefused(t)
    BY <1>29 DEF ClearRefused, Refused, IsCurrent, Goto
  <1>30. CASE DeleteInstance(t)
    BY <1>30 DEF DeleteInstance, Goto
  <1>31. CASE DeleteRefused(t)
    BY <1>31 DEF DeleteRefused, Refused, IsCurrent, Goto
  <1>32. CASE EditInstance(t)
    BY <1>32 DEF EditInstance, Wrote, Goto
  <1>33. CASE EditRefused(t)
    BY <1>33 DEF EditRefused, Refused, IsCurrent, Goto
  <1>34. QED
    BY <1>1, <1>2, <1>3, <1>4, <1>5, <1>6, <1>7, <1>8, <1>9, <1>10, <1>11, <1>12, <1>13, <1>14,
       <1>15, <1>16, <1>17, <1>18, <1>19, <1>20, <1>21, <1>22, <1>23, <1>24, <1>25, <1>26,
       <1>27, <1>28, <1>29, <1>30, <1>31, <1>32, <1>33 DEF Continue

\* A step of one request leaves the others where they are.  A request arrives from
\* idle, and was not idle if it goes on.
LEMMA OnlyOneMoves ==
  ASSUME TypeOK, NEW t \in Requests, Request(t) \/ Continue(t)
  PROVE  /\ \A u \in Requests : u # t => pc'[u] = pc[u] /\ mem'[u] = mem[u]
         /\ Request(t) => pc[t] = "idle" /\ pc'[t] # "idle"
         /\ Continue(t) => pc[t] # "idle"
  <1> USE DEF TypeOK
  <1>1. Request(t) => \E job, auth, stage : stage # "idle" /\ Arrive(t, job, auth, stage)
    <2>1. ASSUME NEW a \in shown \cup {Nothing}, Exchange(t, a)
          PROVE  \E job, auth, stage : stage # "idle" /\ Arrive(t, job, auth, stage)
      BY <2>1 DEF Exchange
    <2>2. ASSUME \/ Status(t) \/ Begin(t) \/ Cancel(t) \/ Refresh(t)
                 \/ EditWithToken(t) \/ RemoveToken(t)
          PROVE  \E job, auth, stage : stage # "idle" /\ Arrive(t, job, auth, stage)
      BY <2>2 DEF Status, Begin, Cancel, Refresh, EditWithToken, RemoveToken
    <2>3. ASSUME Delete(t)
          PROVE  \E job, auth, stage : stage # "idle" /\ Arrive(t, job, auth, stage)
      <3> DEFINE stage == IF state = "none" THEN "unlink" ELSE "clear"
      <3>1. stage # "idle" /\ Arrive(t, "delete", Nothing, stage)
        BY <2>3 DEF Delete
      <3>2. QED
        BY <3>1
    <2>4. QED
      BY <2>1, <2>2, <2>3 DEF Request
  <1>2. Continue(t) => BeginHelper(t) \/ (\E stage : Goto(t, stage))
                        \/ (\E stage, s : GotoHaving(t, stage, s))
    BY Zenon DEF Continue, Unlink, Expire, ExpireRefused, BeginUnlink, BeginHelperFails, BeginPut,
       BeginRefused, Validate, ValidateRefused, LoadHelper, HelperAccepts, HelperRedeems, HelperFails,
       ReadSecret, SkipSecret, WriteSecret, SecretRefused, Refreshed, UpdateInstance, UpdateFails,
       Succeed, SucceedRefused, Fail, FailRefused, CancelPut, CancelRefused, Clear, ClearRefused,
       DeleteInstance, DeleteRefused, EditInstance, EditRefused, Refused
  <1>3. Continue(t) => pc[t] # "idle"
    BY DEF Continue, Unlink, Expire, ExpireRefused, BeginUnlink, BeginHelper, BeginHelperFails,
       BeginPut, BeginRefused, Validate, ValidateRefused, LoadHelper, HelperAccepts, HelperRedeems,
       HelperFails, ReadSecret, SkipSecret, WriteSecret, SecretRefused, Refreshed, UpdateInstance,
       UpdateFails, Succeed, SucceedRefused, Fail, FailRefused, CancelPut, CancelRefused, Clear,
       ClearRefused, DeleteInstance, DeleteRefused, EditInstance, EditRefused
  <1>4. Request(t) => pc[t] = "idle" /\ pc'[t] # "idle"
    BY <1>1 DEF Arrive
  <1>5. \A u \in Requests : u # t => pc'[u] = pc[u] /\ mem'[u] = mem[u]
    <2>1. ASSUME NEW job, NEW auth, NEW stage, Arrive(t, job, auth, stage)
          PROVE  \A u \in Requests : u # t => pc'[u] = pc[u] /\ mem'[u] = mem[u]
      BY <2>1 DEF Arrive
    <2>2. ASSUME NEW stage, Goto(t, stage)
          PROVE  \A u \in Requests : u # t => pc'[u] = pc[u] /\ mem'[u] = mem[u]
      BY <2>2 DEF Goto
    <2>3. ASSUME BeginHelper(t)
          PROVE  \A u \in Requests : u # t => pc'[u] = pc[u] /\ mem'[u] = mem[u]
      BY <2>3 DEF BeginHelper
    <2>4. ASSUME NEW stage, NEW s, GotoHaving(t, stage, s)
          PROVE  \A u \in Requests : u # t => pc'[u] = pc[u] /\ mem'[u] = mem[u]
      BY <2>4 DEF GotoHaving
    <2>5. QED
      BY <1>1, <1>2, <2>1, <2>2, <2>3, <2>4
  <1>6. QED
    BY <1>3, <1>4, <1>5

\* While requests take turns, each finds a state of rest and leaves one.
LEMMA CalmStep == ASSUME Inv, Origins, Calm, Step, ~Overlapping' PROVE Calm'
  <1> USE DEF Calm, Overlapping, Idle
  <1>1. ASSUME NEW t \in Requests, Request(t) PROVE Calm'
    <2>1. /\ pc[t] = "idle" /\ pc'[t] # "idle"
          /\ \A u \in Requests : u # t => pc'[u] = pc[u] /\ mem'[u] = mem[u]
      BY <1>1, OnlyOneMoves DEF Inv
    <2>2. \A u \in Requests : u # t => pc'[u] = "idle"
      BY <2>1
    <2>3. Idle
      BY <2>1, <2>2
    <2>4. Tidy(t)'
      BY <1>1, <2>3, ArrivalIsTidy
    <2>5. QED
      BY <2>1, <2>2, <2>4
  <1>2. ASSUME NEW t \in Requests, Continue(t) PROVE Calm'
    <2>1. /\ pc[t] # "idle"
          /\ \A u \in Requests : u # t => pc'[u] = pc[u] /\ mem'[u] = mem[u]
      BY <1>2, OnlyOneMoves DEF Inv
    <2>2. \A u \in Requests : u # t => pc'[u] = "idle"
      BY <2>1
    <2>3. Orderly(t)
      BY <1>2, <2>1, StepIsTidy
    <2>4. QED
      BY <2>2, <2>3 DEF Orderly
  <1>3. CASE Age
    <2>1. /\ due' = TRUE /\ state \in Active
          /\ UNCHANGED <<state, url, grant, pending, begun, shown, secret, deleted, current, pc, mem>>
      BY <1>3 DEF Age, files, stores, locals
    <2>2. Rest => Rest'
      BY <2>1 DEF Rest, Settled, Unused, Nothing
    <2>3. \A t \in Requests : Tidy(t) => Tidy(t)'
      BY <2>1 DEF Tidy, StageOf, Versions, Files, Tokens, Removing, Storing, Unused, Holding,
         IsCurrent, Cell, Nothing, Settled, Secreting, Finishing
    <2>4. QED
      BY <2>1, <2>2, <2>3
  <1>4. CASE Edit
    <2>1. /\ \A s \in {"operation", "access", "refresh"} : current'[s] = current[s]
          /\ UNCHANGED <<state, due, url, grant, pending, begun, shown, secret, deleted, pc, mem>>
      BY <1>4 DEF Edit, record, files, locals, Inv, TypeOK, Stores
    <2>2. Rest => Rest'
      BY <2>1 DEF Rest, Settled, Unused, Nothing
    <2>3. \A t \in Requests : Tidy(t) => Tidy(t)'
      BY <2>1 DEF Tidy, StageOf, Versions, Files, Tokens, Removing, Storing, Unused, Holding,
         IsCurrent, Cell, Nothing, Settled, Secreting, Finishing
    <2>4. QED
      BY <2>1, <2>2, <2>3
  <1>5. QED
    BY <1>1, <1>2, <1>3, <1>4 DEF Step

LEMMA NextTurnsInv == TurnsInv /\ [Next]_vars => TurnsInv'
  <1> SUFFICES ASSUME TurnsInv, [Next]_vars PROVE TurnsInv'
    OBVIOUS
  <1>0. Inv'
    BY NextInv DEF TurnsInv
  <1>1. CASE Next
    <2>1. Origins'
      BY <1>1, OriginsStep DEF Next, TurnsInv
    <2>2. ~overlapped' => ~overlapped /\ ~Overlapping'
      BY <1>1 DEF Next, TurnsInv, Inv, TypeOK
    <2>3. ~overlapped' => Calm'
      BY <1>1, <2>2, CalmStep DEF Next, TurnsInv
    <2>4. QED
      BY <1>0, <2>1, <2>3 DEF TurnsInv
  <1>2. CASE UNCHANGED vars
    <2>1. UNCHANGED <<state, due, url, grant, pending, begun, shown, secret, deleted, current, pc, mem, overlapped>>
      BY <1>2 DEF vars, record, files, stores, locals
    <2>2. Origins'
      BY <2>1 DEF TurnsInv, Origins
    <2>3. Calm => Calm'
      BY <2>1 DEF Calm, Overlapping, Idle, Rest, Unused, Tidy, StageOf, Versions, Files, Tokens,
         Removing, Storing, Holding, IsCurrent, Cell, Settled, Nothing
    <2>4. QED
      BY <1>0, <2>1, <2>2, <2>3 DEF TurnsInv
  <1>3. QED
    BY <1>1, <1>2

\* As long as requests take turns, each finds the source at rest and leaves it so.
THEOREM TurnsInvariance == Spec => []TurnsInv
  BY InitTurnsInv, NextTurnsInv, PTL DEF Spec

\* While requests take turns, cancel() leaves no token of the cancelled URL behind,
\* however many requests and authorizations there are.
THEOREM CancelIsFinal == Spec => []CancelHolds
  <1>1. TurnsInv => CancelHolds
    BY DEF TurnsInv, Calm, Rest, Abandoned, Unused, CancelHolds
  <1>2. QED
    BY <1>1, TurnsInvariance, PTL

\* While requests take turns, the pending.json of an operation that waits for its
\* callback is the one its URL was made with.
THEOREM WaitingCompletes == Spec => []WaitingCanComplete
  <1>1. TurnsInv => WaitingCanComplete
    BY DEF TurnsInv, Calm, Rest, WaitingCanComplete
  <1>2. QED
    BY <1>1, TurnsInvariance, PTL

\* While requests take turns, a deleted source keeps no operation, no file and no
\* secret.
THEOREM NothingPrivateIsLeft == Spec => []DeletionIsComplete
  <1>1. TurnsInv => DeletionIsComplete
    BY DEF TurnsInv, Calm, Rest, DeletionIsComplete
  <1>2. QED
    BY <1>1, TurnsInvariance, PTL

\* While requests take turns, a settled operation leaves no verifier on disk of a URL
\* that a user was shown.
THEOREM NoVerifierIsLeft == Spec => []VerifierGone
  <1>1. TurnsInv => VerifierGone
    BY DEF TurnsInv, Calm, Rest, VerifierGone
  <1>2. QED
    BY <1>1, TurnsInvariance, PTL
===============================================================================
