------------------------------ MODULE HttpClient ------------------------------
(* httpclient: how a request that fails for a moment is repeated, and what of   *)
(* a response is kept.  An answer to one attempt is                             *)
(*   "sent" the file        "other" a page that is not the file                 *)
(*   "too_large" more bytes than the reader takes                               *)
(*   "busy" 5xx             "limited" 408 or 429                                *)
(*   "denied" another status of 4xx                                             *)
(*   "broken" a connection refused, reset or cut      "canceled" the context's  *)
(* A file is a record: gen is the generation of the repository it belongs to,   *)
(* 0 if it is none of its files, and whole says that all its bytes are there.   *)
EXTENDS Naturals, Sequences

LOCAL INSTANCE FiniteSetsExt

Whole(gen) == [gen |-> gen, whole |-> TRUE]
Torn(gen) == [gen |-> gen, whole |-> FALSE]
Absent == Torn(0)

Sum(file) == file
\* Files of one name differ in their bytes from generation to generation, not in length.
Size(file) == IF ~file.whole THEN 0 ELSE IF file.gen = 0 THEN 1 ELSE 2

IsRetryable(answer) == answer \in {"busy", "limited", "broken"}
IsClientError(answer) == answer \in {"limited", "denied"}

\* The first answer that stands.  A shorter sequence is cut by the context.
WithRetry(answers) ==
    answers[Min({n \in DOMAIN answers : ~IsRetryable(answers[n]) \/ n = Len(answers)})]

UpgradeToHTTPS(scheme) == scheme = "http"

IsBody(answer) == answer \in {"sent", "other", "too_large"}

\* A reader that stops at its limit takes what it has for the file.
Truncated(answer, file) ==
    CASE answer = "sent"      -> file
      [] answer = "other"     -> Whole(0)
      [] answer = "too_large" -> Torn(file.gen)

\* One that asks for a byte more finds out.
FetchBytes(answers) ==
    LET answer == WithRetry(answers) IN IF answer = "too_large" THEN "capped" ELSE answer

\* The server says the file is not newer than the one the client has.
FetchBytesConditional(answers, modified, since) ==
    LET answer == FetchBytes(answers)
    IN  IF answer = "sent" /\ modified <= since THEN "not_modified" ELSE answer

\* What is at the name afterwards: nobody sees the temporary file.
AtomicWrite(old, answer, file) == IF IsBody(answer) THEN Truncated(answer, file) ELSE old

FetchToFile(old, answers, file) == AtomicWrite(old, FetchBytes(answers), file)

HttpFetch(scheme, answers, secure) ==
    LET answer == WithRetry(answers)
    IN  IF IsRetryable(answer) /\ UpgradeToHTTPS(scheme) /\ IsBody(WithRetry(secure))
        THEN WithRetry(secure) ELSE answer
===============================================================================
