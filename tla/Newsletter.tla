------------------------------ MODULE Newsletter ------------------------------
(***************************************************************************)
(* Newsletter subscriptions                                                *)
(* (newsletter/providers/subscription.provider.ts).  Tokens are numbers,   *)
(* no two alike; the n-th pair is one for confirming and one for leaving.  *)
(***************************************************************************)
EXTENDS Requests

CONSTANTS
    Readers,       \* e-mail addresses
    MaxTokens      \* bound: pairs of tokens made

ASSUME NewsletterAssumption == MaxTokens \in Nat

VARIABLES
    reader,    \* an address's row
    made,      \* pairs of tokens made
    stale,     \* pairs whose confirmation time is over
    asked      \* history: what the last request that was saved asked for

NL_rows == <<reader, made, stale, asked>>
newsletterVars == <<requests, NL_rows>>

NoToken == 0
Pairs == 1..MaxTokens
Reader == [known : BOOLEAN, active : BOOLEAN, verified : BOOLEAN, deleted : BOOLEAN,
           confirm : Pairs \cup {NoToken}, leave : Pairs \cup {NoToken}]
NoReader == [known |-> FALSE, active |-> FALSE, verified |-> FALSE, deleted |-> FALSE,
             confirm |-> NoToken, leave |-> NoToken]

NewsletterInit ==
    /\ reader = [e \in Readers |-> NoReader]
    /\ made = 0
    /\ stale = {}
    /\ asked = [e \in Readers |-> "none"]

NewsletterType ==
    /\ reader \in [Readers -> Reader]
    /\ made \in 0..MaxTokens
    /\ stale \subseteq Pairs
    /\ asked \in [Readers -> {"none", "subscribe", "confirm", "unsubscribe"}]

\* Those the newsletter is sent to.
Mailed(e) ==
    reader[e].known /\ reader[e].active /\ reader[e].verified /\ ~reader[e].deleted

ReaderRequest(w, e, asks, row) ==
    /\ Start(w, [op |-> "reader", email |-> e, asks |-> asks, row |-> row,
                 insert |-> ~reader[e].known])
    /\ UNCHANGED <<reader, stale, asked>>

\* A row there is, deleted or not, is pending again with new tokens.
subscribeReader(w, e) ==
    /\ ~Mailed(e) /\ made < MaxTokens
    /\ made' = made + 1
    /\ ReaderRequest(w, e, "subscribe",
          [known |-> TRUE, active |-> FALSE, verified |-> FALSE, deleted |-> FALSE,
           confirm |-> made', leave |-> made'])

confirmReader(w, e, pair) ==
    /\ pair # NoToken /\ reader[e].confirm = pair
    /\ pair \notin stale /\ ~reader[e].deleted
    /\ ~(reader[e].verified /\ reader[e].active)
    /\ UNCHANGED made
    /\ ReaderRequest(w, e, "confirm",
          [reader[e] EXCEPT !.active = TRUE, !.verified = TRUE, !.confirm = NoToken])

unsubscribeReader(w, e, pair) ==
    /\ pair # NoToken /\ reader[e].leave = pair
    /\ reader[e].active /\ ~reader[e].deleted
    /\ UNCHANGED made
    /\ ReaderRequest(w, e, "unsubscribe", reader[e])

\* save writes the row as it is in hand; an insert fails when the address has got a
\* row meanwhile.  softRemove writes the time of deletion and
\* nothing else: the row stays active.
ReaderSaved(w) ==
    LET f == frame[w] IN
    /\ Doing(w, "reader")
    /\ f.insert => ~reader[f.email].known
    /\ reader' = [reader EXCEPT ![f.email] =
          IF f.asks = "unsubscribe" THEN [@ EXCEPT !.deleted = TRUE] ELSE f.row]
    /\ asked' = [asked EXCEPT ![f.email] = f.asks]
    /\ Ends(w)
    /\ UNCHANGED <<made, stale>>

PairLapses(pair) ==
    /\ pair <= made /\ pair \notin stale
    /\ stale' = stale \cup {pair}
    /\ UNCHANGED <<requests, reader, made, asked>>

NewsletterNext ==
    \/ \E w \in Workers \ {Cron} :
          \/ \E e \in Readers : \/ subscribeReader(w, e)
                                \/ \E pair \in Pairs : \/ confirmReader(w, e, pair)
                                                       \/ unsubscribeReader(w, e, pair)
          \/ ReaderSaved(w)
          \/ Fails(w) /\ UNCHANGED NL_rows
    \/ \E pair \in Pairs : PairLapses(pair)

NewsletterSpec == RequestsInit /\ NewsletterInit /\ [][NewsletterNext]_newsletterVars

-----------------------------------------------------------------------------

\* Mail goes to those whose last word was that they want it, and to nobody who left or
\* has not confirmed, by whatever old link.
MailsWanted == \A e \in Readers : Mailed(e) <=> asked[e] = "confirm"

\* What the newsletter promises when requests do not overlap
\* (subscription.provider.ts:173, whose save revives a row deleted since).
NewsletterKept == ~overlap => MailsWanted
=============================================================================
