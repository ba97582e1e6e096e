---------------------------- MODULE MCChunkFile ----------------------------
(***************************************************************************)
(* ChunkFile on small instances: messages and requests that tell the       *)
(* clauses of each filter apart.                                           *)
(***************************************************************************)
EXTENDS ChunkFile

Tx(size, sig, vote, failed, keys, writable, readonly, ixs) ==
  [kind |-> "transaction", size |-> size, slot |-> size, info |-> TRUE, sig |-> sig, vote |-> vote, failed |-> failed,
   keys |-> keys, writable |-> writable, readonly |-> readonly, ixs |-> ixs]

\* An ordinary one; a failed vote with a key of a wrong length; one whose
\* program is a loaded key; one with a bad signature and an instruction past
\* the keys; one without its inner message.
TxUpdates ==
  {Tx(1, 1, FALSE, FALSE, <<1, 2>>, <<>>, <<>>, <<1>>),
   Tx(2, 2, TRUE, TRUE, <<1, 0>>, <<>>, <<>>, <<1, 0>>),
   Tx(3, 3, FALSE, TRUE, <<2>>, <<1>>, <<3>>, <<2, 1>>),
   Tx(4, 0, FALSE, FALSE, <<3>>, <<>>, <<>>, <<5>>),
   [Tx(5, 1, TRUE, FALSE, <<1>>, <<>>, <<>>, <<0>>) EXCEPT !.info = FALSE]}

Acct(size, info, pubkey, owner, memcmp, nonempty) ==
  [kind |-> "account", size |-> size, slot |-> 2, info |-> info, pubkey |-> pubkey, owner |-> owner,
   memcmp |-> memcmp, nonempty |-> nonempty]

AcctUpdates ==
  {Acct(6, TRUE, 1, 2, FALSE, TRUE), Acct(7, TRUE, 2, 2, TRUE, FALSE),
   Acct(8, TRUE, 0, 1, TRUE, TRUE), Acct(9, FALSE, 1, 2, TRUE, TRUE)}

BlockUpdates ==
  {[kind |-> "block_meta", size |-> 10, slot |-> 3, parent |-> 2, info |-> TRUE],
   [kind |-> "block_meta", size |-> 11, slot |-> 2, parent |-> 1, info |-> TRUE]}

\* Sizes tell all of them apart.
SmallUpdates ==
  TxUpdates \cup AcctUpdates \cup BlockUpdates \cup {[kind |-> "ping", size |-> 12]}

AllTx == [vote |-> "any", failed |-> "any", signature |-> {}, include |-> {}, required |-> {},
          exclude |-> {}]
TxFilters ==
  {AllTx, [AllTx EXCEPT !.vote = "no"], [AllTx EXCEPT !.vote = "yes", !.failed = "no"],
   [AllTx EXCEPT !.failed = "yes", !.exclude = {0, 3}], [AllTx EXCEPT !.signature = {1}],
   [AllTx EXCEPT !.signature = {0}], [AllTx EXCEPT !.include = {0}],
   [AllTx EXCEPT !.include = {0, 3}, !.failed = "no"], [AllTx EXCEPT !.include = {1, 3}],
   [AllTx EXCEPT !.required = {1, 2}], [AllTx EXCEPT !.required = {1, 0}],
   [AllTx EXCEPT !.include = {2}, !.exclude = {1}], [AllTx EXCEPT !.exclude = {4}]}

AllAcct == [account |-> {}, owner |-> {}, memcmp |-> FALSE, nonempty |-> FALSE]
AcctFilters ==
  {AllAcct, [AllAcct EXCEPT !.account = {1, 0}], [AllAcct EXCEPT !.account = {0}],
   [AllAcct EXCEPT !.owner = {2}], [AllAcct EXCEPT !.account = {2, 3}, !.owner = {1, 2}],
   [AllAcct EXCEPT !.memcmp = TRUE], [AllAcct EXCEPT !.nonempty = TRUE]}

Empty == [transactions |-> <<>>, accounts |-> <<>>, blocks_meta |-> <<>>, unsupported |-> {}]

\* Every pair of filters of one stream under two names, a request across
\* streams, and requests that ask for what is not served.
SmallRequests ==
  {[Empty EXCEPT !.transactions = [a |-> f, b |-> g]] : f, g \in TxFilters}
    \cup {[Empty EXCEPT !.accounts = [a |-> f, b |-> g]] : f, g \in AcctFilters}
    \cup {[Empty EXCEPT !.blocks_meta = [a |-> "all"], !.unsupported = u] :
            u \in {{}, {"slots"}, {"blocks"}, {"entry"}, {"slots", "transactions_status"},
                   {"accounts_data_slice"}}}
    \cup {Empty, [Empty EXCEPT !.unsupported = {"slots"}],
          [Empty EXCEPT !.transactions = [a |-> AllTx], !.blocks_meta = [b |-> "all"]]}
=============================================================================
