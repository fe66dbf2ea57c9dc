----------------------------- MODULE AddressBook -----------------------------
(***************************************************************************)
(* The address store of src/network/AddressBook.cpp.  An entry's next_try  *)
(* is kept as the time still to wait, in units that Elapse counts down.    *)
(***************************************************************************)
EXTENDS Integers, Sequences, FiniteSets, FiniteSetsExt

CONSTANTS
  Endpoint,      \* host and port pairs, with a port
  Routable,      \* the ones is_routable accepts
  MAX_ENTRIES, MAX_FAILURES, BASE_BACKOFF, MAX_BACKOFF

ASSUME AddressAssumption ==
  /\ Routable \subseteq Endpoint
  /\ {MAX_ENTRIES, MAX_FAILURES, BASE_BACKOFF, MAX_BACKOFF} \subseteq Nat \ {0}

Entry(e) ==
  [address |-> e, wait |-> 0, failures |-> 0, succeeded |-> FALSE, in_progress |-> FALSE]

is_routable(e) == e \in Routable

(* The index of the entry for e, as a set of at most one element.          *)
find(book, e) == {i \in DOMAIN book : book[i].address = e}

add(book, e, trusted) ==
  IF (trusted \/ is_routable(e)) /\ Len(book) < MAX_ENTRIES /\ find(book, e) = {}
  THEN Append(book, Entry(e)) ELSE book

Due(book) ==
  {i \in DOMAIN book :
     ~book[i].in_progress /\ book[i].failures < MAX_FAILURES /\ book[i].wait = 0}

(* select_candidate takes the first entry that is due.                     *)
Candidate(book) == book[Min(Due(book))].address
Selected(book) == [book EXCEPT ![Min(Due(book))].in_progress = TRUE]

SuccessWithoutWait(book, e) ==   \* faulty: the entry is due again at once
  [i \in DOMAIN book |->
     IF i \in find(book, e)
     THEN [book[i] EXCEPT !.in_progress = FALSE, !.succeeded = TRUE, !.failures = 0]
     ELSE book[i]]

mark_success(book, e) ==
  [i \in DOMAIN book |->
     IF i \in find(book, e)
     THEN [book[i] EXCEPT !.in_progress = FALSE, !.succeeded = TRUE, !.failures = 0,
                          !.wait = BASE_BACKOFF]
     ELSE book[i]]

FailureNotCounted(book, e) ==   \* faulty: addresses are never given up
  [i \in DOMAIN book |->
     IF i \in find(book, e)
     THEN [book[i] EXCEPT !.in_progress = FALSE, !.wait = BASE_BACKOFF] ELSE book[i]]

(* The wait doubles with every failure, up to MAX_BACKOFF.                 *)
mark_failure(book, e) ==
  LET backoff(n) == Min({BASE_BACKOFF * 2^Min({n - 1, 7}), MAX_BACKOFF})
  IN  [i \in DOMAIN book |->
         IF i \in find(book, e)
         THEN [book[i] EXCEPT !.in_progress = FALSE, !.failures = @ + 1,
                              !.wait = backoff(book[i].failures + 1)]
         ELSE book[i]]

ReachableUnverified(book, include_local) ==   \* faulty: hearsay is passed on
  {book[i].address : i \in {j \in DOMAIN book : include_local \/ is_routable(book[j].address)}}

reachable(book, include_local) ==
  {book[i].address : i \in {j \in DOMAIN book :
     book[j].succeeded /\ (include_local \/ is_routable(book[j].address))}}

(* One unit of time passes.                                                *)
Elapse(book) == [i \in DOMAIN book |-> [book[i] EXCEPT !.wait = Max({@ - 1, 0})]]
=============================================================================
