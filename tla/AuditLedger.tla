----------------------------- MODULE AuditLedger -----------------------------
(***************************************************************************)
(* What the audit trail of a request is, whoever writes it and whatever    *)
(* saves fail: a ledger of pages.  The first page begins with the metadata *)
(* of the request; chunks are noted on the last page, each once and in the *)
(* order the client got them; pages are turned, never torn out or written  *)
(* to again, and none is turned while it is blank.                         *)
(***************************************************************************)
EXTENDS Naturals, Sequences

CONSTANT Requests   \* request ids

VARIABLES
  pages,   \* per request, what is on each page; the last one is being written
  noted    \* per request, how many chunks were noted

Blank == [base |-> FALSE, chunks |-> <<>>]
Titled == [base |-> TRUE, chunks |-> <<>>]

Init ==
  /\ pages = [r \in Requests |-> <<Blank>>]
  /\ noted = [r \in Requests |-> 0]

Begin(r) ==
  /\ pages[r] = <<Blank>>
  /\ pages' = [pages EXCEPT ![r] = <<Titled>>]
  /\ UNCHANGED noted

Written(page, n) == [base |-> page.base, chunks |-> Append(page.chunks, n)]

WithChunk(book, n) == [book EXCEPT ![Len(book)] = Written(book[Len(book)], n)]

Note(r) ==
  /\ pages[r] # <<Blank>>
  /\ noted' = [noted EXCEPT ![r] = @ + 1]
  /\ pages' = [pages EXCEPT ![r] = WithChunk(pages[r], noted'[r])]

(* One request's page, or those of several at once.                        *)
Turn(R) ==
  /\ \A r \in R : pages[r][Len(pages[r])] # Blank
  /\ pages' = [r \in Requests |->
                 IF r \in R THEN Append(pages[r], Blank) ELSE pages[r]]
  /\ UNCHANGED noted

Next ==
  \/ \E r \in Requests : Begin(r) \/ Note(r)
  \/ \E R \in SUBSET Requests : Turn(R)

Spec == Init /\ [][Next]_<<pages, noted>>
=============================================================================
