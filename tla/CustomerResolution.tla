------------------------- MODULE CustomerResolution -------------------------
(***************************************************************************)
(* customer-resolution.service.ts: who a payment's customer is.  Given an  *)
(* email it asks the merchant service for the merchant, then for the first *)
(* customer the email finds, and creates one when there is none.  Every    *)
(* call is given up after a timeout and made again up to three times, a    *)
(* creation too: the merchant service may have carried out a call whose    *)
(* answer came too late.  A lookup that fails is answered like one that    *)
(* finds nobody.                                                           *)
(***************************************************************************)
EXTENDS Integers, FiniteSets

CONSTANTS Resolvers, Emails, MaxRetries, MaxCustomers

ASSUME CustomersAssumption == IsFiniteSet(Resolvers) /\ MaxCustomers \in Nat

VARIABLES customers,  \* the merchant service's customers: [id, email]
          resolving,  \* resolving[s]: where resolution s is
          excuses     \* excuses[e]: how often something happened that may cost a duplicate of e

customerVars == <<customers, resolving, excuses>>

Resting == [at |-> "idle"]
Resolved(c)   == [at |-> "done", customer |-> c]
NoCustomer    == [id |-> 0]
Unresolved    == [at |-> "done", customer |-> NoCustomer]
Owned(e)      == {c \in customers : c.email = e}
Go(s, r)      == resolving' = [resolving EXCEPT ![s] = r]
\* Excuses beyond MaxCustomers excuse nothing more.
Excuse(e)     == excuses' = [excuses EXCEPT ![e] = IF @ < MaxCustomers THEN @ + 1 ELSE @]

CustomersInit ==
  /\ customers = {}
  /\ resolving = [s \in Resolvers |-> Resting]
  /\ excuses = [e \in Emails |-> 0]

\* Another resolution of the email is past its lookup and has not created yet.
Overlapping(s, e) == \E o \in Resolvers \ {s} : resolving[o].at \in {"list", "create"} /\ resolving[o].email = e

\* resolveCustomer: payments allow a creation, fraud screening does not.
ResolveBegin(s, e, create) ==
  /\ resolving[s].at \in {"idle", "done"}
  /\ Go(s, [at |-> "list", email |-> e, create |-> create])
  /\ IF Overlapping(s, e) THEN Excuse(e) ELSE UNCHANGED excuses
  /\ UNCHANGED customers

\* What lookupCustomerByEmail's answer leads to when it is no customer.
Missing(r) == IF r.create THEN [at |-> "create", email |-> r.email, tries |-> 0] ELSE Unresolved

\* lookupCustomerByEmail: one of the customers found, or nobody.
\* Variant: only a lookup that fails leads to a creation.
LookUpTrusting(s) ==
  /\ resolving[s].at = "list"
  /\ Go(s, Missing(resolving[s]))
  /\ UNCHANGED <<customers, excuses>>
LookUp(s) ==
  /\ resolving[s].at = "list"
  /\ IF Owned(resolving[s].email) = {} THEN Go(s, Missing(resolving[s]))
     ELSE \E c \in Owned(resolving[s].email) : Go(s, Resolved(c))
  /\ UNCHANGED <<customers, excuses>>

\* GetMerchant or ListCustomers fails, all its retries too: answered as not found.
LookUpFails(s) ==
  /\ resolving[s].at = "list"
  /\ Go(s, Missing(resolving[s]))
  /\ Excuse(resolving[s].email)
  /\ UNCHANGED customers

\* createCustomerFromDetails: the merchant service creates, and its answer arrives.
Insert(s, e) == [id |-> Cardinality(customers) + 1, email |-> e]
Create(s) ==
  /\ resolving[s].at = "create"
  /\ Cardinality(customers) < MaxCustomers
  /\ LET c == Insert(s, resolving[s].email) IN customers' = customers \cup {c} /\ Go(s, Resolved(c))
  /\ UNCHANGED excuses

\* A try is given up; whether the service has created the customer is unknown.
\* Variant: the count starts over after the last try.
AgainAnyway(r) == [r EXCEPT !.tries = (@ + 1) % (MaxRetries + 1)]
Again(r) == IF r.tries < MaxRetries THEN [r EXCEPT !.tries = @ + 1] ELSE Unresolved
CreateTimesOut(s) ==
  /\ resolving[s].at = "create"
  /\ LET e == resolving[s].email IN
       \/ UNCHANGED <<customers, excuses>>
       \/ /\ Cardinality(customers) < MaxCustomers
          /\ customers' = customers \cup {Insert(s, e)}
          /\ Excuse(e)
  /\ Go(s, Again(resolving[s]))

\* The merchant is not found any more, or the service refuses the customer: no retry.
CreateRefused(s) ==
  /\ resolving[s].at = "create"
  /\ Go(s, Unresolved)
  /\ UNCHANGED <<customers, excuses>>

ResolveStep(s) == LookUp(s) \/ LookUpFails(s) \/ Create(s) \/ CreateTimesOut(s) \/ CreateRefused(s)
CustomersNext ==
  \/ \E s \in Resolvers, e \in Emails, create \in BOOLEAN : ResolveBegin(s, e, create)
  \/ \E s \in Resolvers : ResolveStep(s)
CustomersSpec == CustomersInit /\ [][CustomersNext]_customerVars
\* Every call is answered or times out.
CustomersFairness == \A s \in Resolvers : WF_customerVars(ResolveStep(s))

----------------------------------------------------------------------------
\* Every customer beyond the first of an
\* email has its own excuse: two resolutions that overlapped, a lookup that failed, or a creation whose
\* answer was lost (resolveCustomer looks up and creates in two calls, and retries the creation).
DuplicatesExcused == \A e \in Emails : Cardinality(Owned(e)) <= 1 + excuses[e]

\* Whatever the merchant service does, a resolution comes to its end (timeout and retry of every call).
ResolutionEnds == \A s \in Resolvers : (resolving[s].at = "create") ~> (resolving[s].at # "create")
=============================================================================
