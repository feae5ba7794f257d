----------------------------- MODULE RpcClient -----------------------------
(***************************************************************************)
(* crates/rpc and crates/decoder: what one successful call returns, read   *)
(* off the chain at the instant the call is answered, and which logs are   *)
(* ERC-20 transfers.  A call whose retries are exhausted is an Err, which  *)
(* the workers' modules turn into the end of the process.                  *)
(***************************************************************************)
EXTENDS Chain

CONSTANTS
  Contracts,        \* contract addresses
  NoContract,       \* CONTRACT_ADDRESS unset
  ContractAddress,  \* the configured filter, or NoContract
  Logs              \* the logs of each block that carry the Transfer signature

\* A log: its key, its contract, its topics and the bytes of its data.
Log == [key : Keys, address : Contracts, topics : 1 .. 4, data : Nat]

ASSUME LogsAssumption ==
  /\ ContractAddress \in Contracts \cup {NoContract}
  /\ \A h \in Hashes : Logs[h] \subseteq Log
  /\ \A h \in Hashes : \A l, m \in Logs[h] : l.key = m.key => l = m

get_latest_block_number == chain.head

get_block_metadata(n) == chain.hash[n]

\* ERC-721 transfers share the signature and carry a fourth topic.
decode_erc20_transfer(l) == l.topics = 3 /\ l.data = 32

\* The filter is by event signature, block range and, when set, contract.
LogsMatching(h) ==
  {l \in Logs[h] : ContractAddress \in {NoContract, l.address}}

\* eth_getLogs over a range returns nothing for a height above the head.
fetch_erc20_transfer_logs(n) ==
  IF chain.hash[n] = NoHash THEN {} ELSE LogsMatching(chain.hash[n])

\* The keys of the transfers that the block with hash h holds.
TransferKeys(h) == {l.key : l \in {m \in LogsMatching(h) : decode_erc20_transfer(m)}}
=============================================================================
