------------------------------- MODULE Library -------------------------------
(***************************************************************************)
(* A title of the school library: loan and returnLoan keep a row per loan  *)
(* and, by a statement of its own, the number of copies available.         *)
(***************************************************************************)
EXTENDS Integers, FiniteSets

CONSTANTS Copies,    \* of the title
          Loans,     \* loan requests, each with the row it inserts
          Returns,   \* requests to return a loan
          NoLoanRow

ASSUME LibraryAssumption ==
    /\ Copies \in Nat \ {0} /\ NoLoanRow \notin Loans
    /\ IsFiniteSet(Loans) /\ IsFiniteSet(Returns)

VARIABLES
    available,  \* library_items.available
    row,        \* library_loans
    borrowing,  \* where each loan request is
    returning,  \* where each return request is, and of which loan
    miscounted, \* ghost: has a request been cut short between its statements, or
                \* the return of one loan been let in twice?
    crowded     \* ghost: was a loan let in while another was under way?

libraryVars == <<available, row, borrowing, returning, miscounted, crowded>>

NewReturn == [pc |-> "new", of |-> NoLoanRow]
Borrowing(l) == borrowing[l] \in {"insert", "take"}
Returning(u) == returning[u].pc \in {"mark", "shelve"}

-----------------------------------------------------------------------------
(* Mutations of definitions below; not part of the specification.          *)

\* A loan that has been returned can be returned again.
MutReturnable(l) == row[l] # "none"

-----------------------------------------------------------------------------
LibraryInit ==
    /\ available = Copies
    /\ row = [l \in Loans |-> "none"]
    /\ borrowing = [l \in Loans |-> "new"]
    /\ returning = [u \in Returns |-> NewReturn]
    /\ miscounted = FALSE /\ crowded = FALSE

BeginLoan(l) ==
    /\ borrowing[l] = "new" /\ available >= 1
    /\ borrowing' = [borrowing EXCEPT ![l] = "insert"]
    /\ crowded' = (crowded \/ \E k \in Loans : Borrowing(k))
    /\ UNCHANGED <<available, row, returning, miscounted>>

InsertLoan(l) ==
    /\ borrowing[l] = "insert"
    /\ row' = [row EXCEPT ![l] = "out"]
    /\ borrowing' = [borrowing EXCEPT ![l] = "take"]
    /\ UNCHANGED <<available, returning, miscounted, crowded>>

TakeCopy(l) ==
    /\ borrowing[l] = "take"
    /\ available' = available - 1
    /\ borrowing' = [borrowing EXCEPT ![l] = "done"]
    /\ UNCHANGED <<row, returning, miscounted, crowded>>

-----------------------------------------------------------------------------
\* A loan that has been returned is left as it is.
Returnable(l) == row[l] = "out"

BeginReturn(u, l) ==
    /\ returning[u].pc = "new" /\ Returnable(l)
    /\ returning' = [returning EXCEPT ![u] = [pc |-> "mark", of |-> l]]
    /\ miscounted' = (miscounted \/ \E v \in Returns : Returning(v) /\ returning[v].of = l)
    /\ UNCHANGED <<available, row, borrowing, crowded>>

MarkReturned(u) ==
    /\ returning[u].pc = "mark"
    /\ row' = [row EXCEPT ![returning[u].of] = "returned"]
    /\ returning' = [returning EXCEPT ![u].pc = "shelve"]
    /\ UNCHANGED <<available, borrowing, miscounted, crowded>>

ShelveCopy(u) ==
    /\ returning[u].pc = "shelve"
    /\ available' = available + 1
    /\ returning' = [returning EXCEPT ![u].pc = "done"]
    /\ UNCHANGED <<row, borrowing, miscounted, crowded>>

-----------------------------------------------------------------------------
\* The second statement of a request fails, or is never run.
CutLoan(l) ==
    /\ Borrowing(l)
    /\ borrowing' = [borrowing EXCEPT ![l] = "done"]
    /\ miscounted' = (miscounted \/ borrowing[l] = "take")
    /\ UNCHANGED <<available, row, returning, crowded>>

CutReturn(u) ==
    /\ Returning(u)
    /\ returning' = [returning EXCEPT ![u].pc = "done"]
    /\ miscounted' = (miscounted \/ returning[u].pc = "shelve")
    /\ UNCHANGED <<available, row, borrowing, crowded>>

LibraryNext ==
    \/ \E l \in Loans : BeginLoan(l) \/ InsertLoan(l) \/ TakeCopy(l) \/ CutLoan(l)
    \/ \E u \in Returns :
          \/ MarkReturned(u) \/ ShelveCopy(u) \/ CutReturn(u)
          \/ \E l \in Loans : BeginReturn(u, l)

LibrarySpec == LibraryInit /\ [][LibraryNext]_libraryVars

LibraryTypeOK ==
    /\ available \in Int
    /\ row \in [Loans -> {"none", "out", "returned"}]
    /\ borrowing \in [Loans -> {"new", "insert", "take", "done"}]
    /\ returning \in [Returns -> [pc : {"new", "mark", "shelve", "done"},
                                  of : Loans \cup {NoLoanRow}]]
    /\ miscounted \in BOOLEAN /\ crowded \in BOOLEAN

(***************************************************************************)
(* The copies on the shelf and the loans that are out add up to the copies *)
(* of the title, but for the requests that are between their statements,   *)
(* unless a request was cut short there or two returns of one loan were    *)
(* let in together; and no more copies are lent than there are, unless     *)
(* loans were let in together.  (library.service.ts, loan and returnLoan.) *)
(***************************************************************************)
ShelfCount ==
    ~miscounted =>
       /\ available + Cardinality({l \in Loans : row[l] = "out"})
            = Copies + Cardinality({l \in Loans : borrowing[l] = "take"})
                     - Cardinality({u \in Returns : returning[u].pc = "shelve"})
       /\ ~crowded => available >= 0
=============================================================================
