# A TLA+ verification of the Solana program rosetta

This repository holds small Solana programs written in several languages, and
one large one: the SPL token program (`token/src`, Rust), on which the value of
every token of the chain rests. The project models the token program from the
bytes of an instruction to the accounts it leaves, its port in Zig, and the two
small programs that change accounts; it checks the models with TLC and proves
facts about all of them with TLAPS.

## Inventory

| component | state | operations | model |
|---|---|---|---|
| token processor, `token/src/processor.rs` | none of its own: it rewrites the accounts an instruction names | 25 instructions, 21 of which change accounts | `Token`, one action each; `TokenInvocation`, step by step |
| token layouts, `token/src/state.rs`, `native_mint.rs` | `Mint`, `Account`, `Multisig` in account data | `Pack`, `is_initialized`, `is_frozen`, `is_native`, the readers of single fields | `TokenState` (values), `StateCodec` (bytes) |
| instructions, `token/src/instruction.rs` | none | 25 builders; `TokenInstruction::pack`, `unpack` | `TokenInstruction` (builders), `InstructionCodec` (bytes) |
| entrypoint and errors, `token/src/entrypoint.rs`, `error.rs` | none | return codes and error numbers | `TokenErrors` |
| UI amounts, `token/src/lib.rs` | none | amount to string, trimmed or not, and back | `UiAmount`; the two functions on `f64` are not modelled |
| Solana runtime and clients (not in the repository) | lamports, owner and data of every address | transfers, `create_account`, other programs; loading, checks, commit and rollback of an instruction | `Solana`, `TokenClients` (external) |
| token program in Zig, `token/zig/src` | the same accounts | six instructions, written in place | `TokenZig` |
| transfer-lamports (Rust, pinocchio, C, Zig, assembly) | lamports of two accounts | one | `TransferLamports` |
| cpi (Rust, pinocchio, C, Zig) | program derived accounts | allocate through the system program | `Cpi` |
| pubkey, helloworld, build and test scripts | none | compare two keys, log a string | not modelled: no state, no sequence of steps |

**How they interact.** A client calls a builder, which lists the accounts by
position, marks who has to sign and what is writable, and packs the operation
into bytes. The runtime loads the accounts if everybody marked has signed, and
calls the entrypoint. `Processor::process` unpacks the bytes, and a handler takes
accounts from the list by position, checks them, asks `validate_owner` for the
authority's signature or for the quorum of a multisig, and writes lamports and
data one after the other. An error becomes a number, the runtime sees a nonzero
return code and forgets every write; otherwise it looks at the accounts (only what
is writable and owned by the program has changed or lost lamports, an account
changes hands only with its data zeroed) and keeps them. Between two instructions
anything may happen that the runtime allows: lamports arrive by system transfers,
addresses are funded and allocated, other programs write their own accounts, other
clients call the token program.

**What is hard.** Nothing runs concurrently inside an instruction. The hazards
are in *sequences*: two numbers kept in different accounts (the supply and the
balances) that no handler sees together; two account arguments that are the same
account; checks made once at initialization and relied on for ever (an account's
mint); authorities that go stale when an account changes hands; addresses closed
and used again; lamports that arrive behind the program's back; data of other
programs in the shape of a token account; a multisig named before it is
initialized. Within an instruction they are in *order*: an error after the first
of several writes; positions that builder and handler have to agree on; signers
passed twice or listed twice; a count cut to a byte before it is checked. And they
are in *formats*: operands in the order of two separate matches, a tag in front of
a body that keeps an old key, offsets that several readers keep by themselves.
`PROJECT.json` lists them with their lines and the properties that would show them
going wrong.

**What makes it correct.** Supply equals balances for every mint; wrapped SOL is
backed by lamports; tokens and lamports leave an account only with the consent of
someone entitled to it; delegation comes from the present owner; freezing holds;
a renounced authority is gone for good; the terms of a mint, a multisig and an
account are fixed; an owner is never stuck; an invocation does what its client
meant or nothing; what was packed is what is unpacked; and a program does the same
in every language it is written in.

## Modules

| module | contents |
|---|---|
| `Totals` | u64 numbers up to `U64Max`, and `Total(f)`, the sum of a function on addresses |
| `TokenLedger` | abstract specification: supplies, holders and balances, nothing else |
| `TokenState` | the data of accounts and the tests made on it |
| `Solana` | lamports, owners and data of all addresses; what the environment may do, what the runtime accepts |
| `Token` | the processor: one action per instruction, `EXTENDS Solana` |
| `TokenProperties` | invariants, action properties, the refinement `LedgerSpec` |
| `UiAmount`, `UiAmountProperties` | amounts as texts; a client that types, parses and renders |
| `TokenInstruction` | instructions with their operands and account lists, one operator per builder |
| `TokenErrors` | error numbers and the return codes the runtime sees |
| `TokenInvocation` | an invocation step by step: checks, authority, loop over signers, writes, commit or rollback; `EXTENDS Solana, TokenInstruction, TokenErrors, UiAmount` |
| `TokenClients` | clients that call it with the builders or by hand: the whole system, `EXTENDS TokenInvocation` |
| `TokenInvocationProperties` | the refinement of `Token`, what a call promises, liveness |
| `Bytes` | little-endian numbers |
| `InstructionCodec`, `InstructionCodecProperties` | pack and unpack of instruction data; data on its way, altered |
| `StateCodec`, `StateCodecProperties` | account data as bytes; accounts written over what was there |
| `TokenZig` | the Zig program: one action per instruction it supports, `EXTENDS Solana` |
| `TokenZigProperties` | its refinement of the Rust program, up to the rent of new accounts; invariants, action property |
| `TransferLamports`, `Cpi` | the small programs: every port as an operator from a call to its outcomes, the runtime around it, their properties |
| `MCTokenLedger`, `MCToken`, `MCTokenInvocation`, `MCTokenZig`, `MCStateCodec` | the instances for TLC |
| `MCFormats`, `MCPrograms` | compositions for TLC: texts of amounts or instruction data; one of the two small programs in each behaviour |
| `TotalsTheorems` | facts about `Total` |
| `TokenLedgerProofs` | the ledger conserves supplies |
| `TokenProofs` | the processor keeps its types, implements the ledger and conserves its supplies and its lamports; what an instruction can do to one address, and who has consented to it |
| `TokenZigProofs` | the Zig program implements the Rust program, up to the rent of new accounts, and keeps its balances |
| `TokenInvocationProofs` | what every builder lists; the step-by-step program implements the processor, and does what was asked |
| `StateCodecProofs` | what is stored in account data is what is read, at the widths of the code |
| `TransferLamportsProofs`, `CpiProofs` | the ports of the small programs agree, and do what they are for |

Three descriptions of the token program lie above each other. `TokenInvocation`
implements `Token` (`InvocationsAreAtomic`), `Token` implements `TokenLedger`
(`LedgerSpec`), and `TokenZig` implements `Token` but for the rent it asks of a new
account (`ImplementsRust`). All three refinements are checked and proved.

### From the code to the model

* **State.** `lamports`, `owner` and `data` map every address to the fields of its
  `AccountInfo`. Data is a record with the fields of the Rust struct and a `kind`
  that stands for its length, by which the program tells layouts apart. Only the
  used part of a multisig's signer array is kept. Addresses are model values;
  numbers are u64s up to `U64Max`.
* **Actions.** Each handler is one action. Its early returns are the conjuncts of
  the guard, its writes are the primed variables; a handler that returns an error
  is a stuttering step, because the runtime rolls it back. Instructions that
  differ only in where they find an operand (`InitializeAccount2`, the `...Checked`
  variants with `expected` decimals) share the action of their common handler.
  `S` is the set of signers of the transaction and `auth` the authority account.
* **Unpacked copies.** A handler unpacks accounts into copies and packs them at its
  end. Where that shows, in a self-transfer, the early return of the code is
  modelled (`IsSelfTransfer`), and its mutant is what the code would do without it:
  the second pack wins.
* **`validate_owner`** walks through the passed signers and marks the positions
  they match. The client chooses the list, so the model asks for the best one: the
  positions whose key is in `S` number at least `m`.
* **Account ownership.** The handlers check who owns an account only where they
  write nothing (`amount == 0`, self-transfer, `SyncNative`, the mint in
  `InitializeAccount`); elsewhere the runtime refuses the write. The model has it
  the same way: `RuntimeAccepts` is part of every action that writes, and accounts
  with forged data are offered to every action.
* **The environment** (`Solana!Environment`): a signer sends lamports to any
  address; funds and allocates a mint, a token account or a multisig without
  initializing it, so that anybody may; another program owns an account, writes
  what it likes there and may hand it over to the token program zeroed.

* **An invocation.** `pc` says how far it is: `check` (the handler up to
  `validate_owner`, returning its first error), `authorise` and `signers`
  (`validate_owner` and its loop, a signer each), `apply` (the checks after it),
  `write` (a write each), `exit`. `call` is the instruction with its list of
  accounts, taken by position (`K(n)`, `Has(n)`), and `cells` are the accounts it
  works on, which become `lamports`, `owner` and `data` in `Commit` and are dropped
  in `Rollback`. `effects` are the writes left to do. Two accounts at the same
  address are the same cell, as they are the same `RefCell`.
* **What a client means.** `intent` is what a client wants, as a record; `Build`
  calls the builder of `instruction.rs` that carries it, with its arguments in the
  order of the code, and `TokenAction` names the action of `Token` that it is. That
  builder and handler agree about positions is therefore a property
  (`CallsDoWhatTheySay`), not an assumption. Calls by hand lack a signature, a
  write permission or an account, or make multisigs the builder refuses.
* **The Zig program and the rent.** `initializeMint` compares the address of the rent
  account with that of the sysvar; `initializeAccount` does not
  (`token/zig/src/main.zig:56`) and reads the rent from whatever account it is
  passed. The minimum it works with is therefore an operand (`stated`, from
  `StatedRent`): the account has to hold as much, and a native one records it as its
  reserve and wraps the rest. One number is enough. The minimum is computed twice,
  and comes out the same unless the account passed as rent is the one being opened,
  which the handler writes to in between; then the second number alone is recorded,
  and the account holds it, by the `Overflow` check.
* **Bytes.** `InstructionCodec` and `StateCodec` follow the two matches of `pack`
  and `unpack`, and the `pack_into_slice` and `unpack_from_slice` of the layouts,
  field by field; a reader takes what it needs from the front of the input or
  returns the error. Packing writes into the bytes that are there: `None` writes a
  tag and leaves the body.
* **Texts** are sequences of one-character strings, so that padding, the position
  of the point, trimming and the length checks are what they are in the code.
* **Small programs.** `Cpi` shares no names with `TransferLamports`, so that one module
  can extend both. A call is the list of accounts and the length and contents of
  the data. A port yields the set of outcomes it can have: reading past the end of
  the data, an account that was not passed, or bytes of the stack that nobody set
  are choices. The assembly reads words of the serialized input by address, and the
  input is laid out by the runtime's rules, so the address arithmetic is modelled.
  Programs for the chain are release builds: their u64 arithmetic wraps around.

Mutants of definitions (`...Never`, `Keep...`, ...) stand before the definitions
they are variants of. They are no part of the model: each is a plausible mistake
that one of the properties must notice.

## Runs

| run | instance | shows |
|---|---|---|
| `abstract_ledger` | 3 addresses, `U64Max` 3 | `TypeOK`, `Conserved` of the ledger |
| `token_ledger` | 2 mints, 2 accounts, a wallet and the incinerator as owners, amounts 1 and 3 of at most 5 | the processor implements `TokenLedger`; supply matches balances; accounts follow mints; unclaimed data is zero |
| `token_control` | 1 mint, 2 accounts, 2 wallets; delegate, close and freeze authority are one of them; allowances of 2 spent by 1 | debits, delegation, close authorities, freezing, renounced authorities, minting rights; owners can spend what they hold |
| `token_native` | 2 native accounts, lamports given from outside, close authorities, closing into each other and into the incinerator | wrapped SOL is backed, lamports are conserved, leave by consent and, from abandoned accounts, into the incinerator only; nobody is stuck |
| `token_quorum` | a multisig with up to 2 signers that owns accounts and mints, a forged account at an address it is given | quorums, uninitialized multisigs and forgeries |
| `invocations` | one of seven kinds of clients on a mint and up to 2 accounts and a multisig | an invocation is one action of `Token` or nothing, does what the client meant, does not fail halfway and ends |
| `zig` | 2 native accounts and a mint; owners are a wallet, the incinerator or an address that becomes a multisig, one address is first forged by another program; accounts opened at a stated rent of 0, 1 or 2 | the Zig program implements the Rust program but for that rent; balances are kept; nobody is stuck; what nobody signs for stays |
| `formats` | all amounts and precisions of a small u64, all texts of 4 characters; all instructions, cut, lengthened or with a byte altered | a rendered amount parses to itself, and a text parses to the number it stands for; instruction data is read as what was packed, and nothing else is accepted |
| `account_data` | values of all three layouts over each other, at the widths of the code; bytes of other programs | account data is read as what was stored, by every reader, and rewriting it changes nothing |
| `programs` | 3 accounts and 5 ports of transfer-lamports; 5 derived addresses and 4 ports of cpi | a transfer that can be paid arrives, the assembly finds what it looks for, the ports agree |
| `frozen_close` | 1 account | *violated*: a frozen account can be closed |
| `cpi_discriminant` | as `programs` | *violated*: the C port of cpi need not allocate |

**Bounds.** `U64Max` stands for 2^64 - 1 and is small, so that overflow checks
are reached in a few steps; it also bounds all lamports there are. Rent is one
lamport per account (`UnitRent`), which keeps the distinction between the
reserve and the rest. Two accounts of a mint are enough for every handler, which
takes two at most, and a second mint shows mix-ups of mints. `MaxSigners` is 2
where multisigs exist: the counts 0, 1, 2 and 3 of `m` and of the signers reach
both ends of `is_valid_signer_index`, `m > n` and the same key listed twice.
In `zig` the rent is one lamport too, and clients state none, one or two: less, as
much and more than the chain asks, so that there are native accounts with a reserve
that is no rent, and some that are left without a lamport.
The native mint exists from the beginning, as on the chain. No action has a
bound of its own; the lamports in existence bound how many accounts live at once.

* `invocations`: every client, instruction and account list at once is out of
  reach, since an intent has up to eight operands. Seven kinds of clients divide the
  instructions among them so that those that work on each other's results are
  together: issuers (mint, move, burn, query), controllers (every authority,
  freezing, closing), wrappers (native accounts), partners (a multisig, signers
  passed twice or in another order), tinkerers (by hand), strangers (another
  program's account) and checkers (the checked instructions, with 0 or 1 decimals on
  a mint that has either). `savings` keeps alice from opening more accounts than the
  kind needs. `IndexSpan` is 4 in place of the 256 values of a u8, so that a list
  of `IndexSpan + 1` signers wraps to 1 as 257 do.
* `formats`: texts have at most 4 of the characters `0 1 2 . + x`, with 0 to 3
  decimals, amounts up to 24: every position of the point, two points, signs,
  leading and trailing zeros, overflow. In instruction data, addresses and amounts
  have 2 bytes in place of 32 and 8, which keeps every order and length apart; lengths
  go from nothing to two bytes too many, and any one byte is replaced by one of five
  values.
* `account_data`: the real widths (82, 165, 355), and every value is packed over
  every other. The values differ in each field, with amounts of three bytes that are
  all different; another program's data differs in one byte of nearly every field.
* `programs`: amounts and lamports up to 4, so that every sum can wrap;
  account data of 0, 1 and 8 bytes, on both sides of a multiple of eight; lists of up
  to 3 accounts with repetitions. For cpi, five derived addresses, one bump seed off the
  curve, two values of the unset bytes.

`CHECK_DEADLOCK FALSE` where the system really may stop: clients may run out of
lamports, and nobody has to act. Symmetry is not used: the instances are small.

**Fairness.** Weak fairness of `Progress`, the steps of an invocation that has
been called: the runtime runs a program to its end and applies the outcome. It is
what `InvocationsEnd` rests on: the loop over the signers and the list of writes
get shorter, and no place of the program has all its steps disabled. Nothing
else is fair, for no client has to call. Elsewhere progress is stated as
`OwnersAreNeverStuck`: in every state the instruction an owner needs is enabled.

### The properties

The comments in `TokenProperties` state each one. Some notes:

* `HasConsentOf(k)` defines consent without repeating the guards of the handlers:
  whichever set of signers could have made the step, `k` is among them, or a full
  quorum of it when `k` is a multisig. Since it quantifies over all sets that could,
  a step that anybody could have made is nobody's consent, and neither is one the
  environment could have made.
* `LedgerSpec` is the refinement: a live mint's supply, and the mint and balance of
  every live account that is not native, behave as `TokenLedger` says. Every
  instruction is a step of the ledger or stutters; together with the ledger's
  theorem that gives supply = balances.
* `UnclaimedDataIsZero` is what `InitializeMint` relies on when it leaves the
  supply as it finds it.
* `OwnersAreNeverStuck` covers the owner who is its own delegate: `process_transfer`
  and `process_burn` look at the delegate first (`token/src/processor.rs:274`), so that
  owner is held to its allowance. `OwnersShare` is what it can move at once; a
  `Revoke`, which the property asks for too, frees the rest. In `token_control` the
  shares, the delegates and the supply of a mint matter, in `token_native` the
  lamports and the closers.
* `DebitsAreAuthorised` and `LamportsLeaveByConsent` let anybody touch an account of
  the system program or the incinerator in two ways only: its tokens may be
  burnt, and it may be closed into the incinerator, which gains all it had.
* `ClosersAreAppointed`: `process_set_authority` resets the close authority of a
  native account together with its owner and keeps that of others, who could only
  collect the rent. The property states both.

* `ImplementsRust` is the refinement of `Token` by `TokenZig`, with the same variables:
  every step of the Zig program is a step of the Rust program with the same signers,
  with one exception that it names: `OpensAtStatedRent`, the `InitializeAccount` of
  the Rust program on a chain where a token account needs what the client states.
  All else is as strict as without it. In particular rent exemption is *not*
  claimed of accounts the Zig program opened; what depends on the reserve that was
  recorded, whatever it is, is `BalancesKept`.
  The Zig program differs in what it leaves out (overflow checks, fields it does not
  reset, copies of accounts), so the property says that all of this is justified by
  what holds in the reachable states. Its arithmetic wraps around (`WrappingAdd`), as
  the `ReleaseFast` build of `token/zig/build.zig` does; the Rust program's checked
  addition would refuse such a step, so no reachable step wraps.
* `InvocationsAreAtomic` is the refinement of `Token` by the step-by-step program,
  with `lamports`, `owner` and `data` the committed accounts: nothing happens until
  `Commit`, which is one action of `Token`. It holds for calls by hand and for
  accounts of other programs too, and says that no order of checks, and no check
  that looks at a single account of two, lets through what `Token` refuses.
* `CallsDoWhatTheySay` and `BuiltInstructionsWork` are the two halves of what a
  builder promises: a call that succeeds is the action the client meant, with the
  signers it named, and a call that fails is one `Token` refuses. The second leaves
  out queries, which fail without an action of `Token` to be refused.
* `WritesNeverFail`: the errors between two writes of a native transfer or a close
  cannot occur on accounts of the token program. Rollback would make them harmless; a
  program calling this one would still see a transfer fail that has the funds. They do
  occur when the source is another program's account that claims to wrap more lamports
  than it holds (`ForgedNative` of the run): a transfer does not look at the owner of
  an account before it writes. The runtime would refuse those writes in any case.
* `MultisigsCanSign` holds of the builders, which compare `m` with the number of
  signers, and not of the processor, which does not. It is stated for all clients
  that use them.
* `TextParsesByValue` compares the parser with the number a text stands for, as a
  fraction. Texts that are no numbers are not its subject; the parser refuses
  `"."` and `".0"` and takes a leading `"+"`, as `u64::from_str` does.
* `WireAcceptsOnlyPacked`: what `unpack` accepts is a packed operation, with bytes
  behind it at most; it never reads a shortened instruction as another one.
* `StorageReadersAgree`: the offsets that `GenericTokenAccount` and
  `is_initialized_account` keep for themselves are those of the layout.
* `TransferPortsAgree` covers amounts the source cannot pay, where the sums wrap
  around and the runtime's comparison of the sums does not notice: the ports wrap
  alike.
* `UnsignedTokensStay` is where the two token programs part: the Rust program lets
  anybody burn or close what the incinerator owns and asks the signers of a multisig, the Zig program
  lets nobody touch what no single key signs for (`SignsAlone`).

### Where code and documentation differ

* `frozen_close`: `state.rs` and `error.rs` say that no operation can be performed
  on a frozen account; `process_close_account` has no frozen check, so an empty
  frozen account can be closed, and opened again thawed. `FrozenAccountsHold` is
  what does hold: apart from that the account stays as it is.
* `cpi_discriminant`: the C port of cpi writes two of the four bytes of the system
  instruction's number and leaves the others as the stack had them.

Where the two token programs differ: the Rust program takes the rent from the sysvar
alone (`Rent::from_account_info`, or `Rent::get`), the Zig program from the account
it is passed (`token/zig/src/main.zig:56`). Nothing in the repository claims otherwise,
so there is no run for it; `ImplementsRust` states it as the exception it is.

Seen while modelling, without a run: `instruction.rs` says the balance of a new native
account will be equal to the amount of SOL in it, and it is less by the rent-exempt
reserve (`token/src/processor.rs:130`); `ui_amount_to_amount` takes its power of ten
in a `usize` that wraps around from 20 decimals (`token/src/lib.rs:24`);
`GenericTokenAccount::valid_account_data` accepts data that `unpack` refuses, since
it looks at the length and the state only (`token/src/state.rs:357`); and in
transfer-lamports an amount close to 2^64 moves lamports from the destination to
the source if the program owns both (`transfer-lamports/src/lib.rs:30`), which the
`README` does not mention.

## Proofs

TLC checks the instances above; the theorems hold for all constants that satisfy
the named assumptions (a finite set of addresses, `U64Max` any natural number,
any sets of roles and amounts).

* `TokenLedgerProofs!LedgerTypeOK`, `LedgerConserved`. `Move` of the ledger does not
  check that the receiver's balance stays a u64, so the types are not inductive by
  themselves. `LedgerInv` adds `HoldersHaveMints` and `Conserved`: the balances of
  two holders are bounded by their total, the total is the supply, and the supply is
  a u64. Each action has a lemma; the arithmetic of sums (crediting, debiting and
  moving change a total by what they should, a total bounds two of its terms) is in
  `TotalsTheorems`: the total of a function is the number of its units, so these
  are facts about cardinalities.
* `TokenProofs!TokenTypeOK`. One lemma per handler: from the types and the guard,
  the records packed back are of the same layout and every `checked_add`,
  `checked_sub` and plain subtraction has a result in u64.
* `TokenProofs!TokenUnclaimedDataIsZero`, `TokenInvariant`. `UnclaimedDataIsZero` and
  `AccountsNameMints` (the first half of `AccountsFollowMints`) are
  inductive together with the types (`TokenInv`): the first makes a new mint start
  with supply 0, the second says that the mint a handler compares addresses with is
  there, and that a live mint is never written over. Most handlers rewrite one
  account (`AccountRewritten`, `MintRewritten`, `BlankRewritten`) or an account and
  its mint (`HolderAndMintRewritten`); addresses they leave alone are `Unmoved`.
  Ownership comes from `RuntimeAccepts`, as in the code.
* `TokenProofs!TokenImplementsLedger`. Under the bars (`supplyBar`, `mintOfBar`,
  `balanceBar`) the initial states map to initial states and every step to a step of
  `TokenLedger` or a stutter: one lemma `<Handler>Refines` per action, which also keeps
  the invariant. The ledger has no overflow check in
  `Move`; the code's `checked_add` only makes it move less often.
* `TokenProofs!TokenSupplyMatchesBalances`. The theorem of the ledger, instantiated
  with the bars (`LedgerFacts`), says of the token program what it says of the ledger:
  no invariant about sums is proved a second time.

* **Any rent.** The Zig program opens accounts at rents the chain does not have, so
  what does not depend on the rent is proved for `AnyRentNext`, which is `Next` with
  `OpensAt(.., reserve)` for any u64 `reserve`; `InitializeAccount` is the case
  of the chain's rent (`InitializeAccountOpens`). That covers the types, `TokenInv`,
  the ledger, `MoneyInv` and `ChainInv`.
* `TokenProofs!TokenMoneyInvariant`. `WrappedLamportsBacked` is inductive together with
  `TokenInv` and `FrozenIsNotNative` (`MoneyInv`): `process_toggle_freeze_account`
  refuses native accounts, so that a frozen account pays nobody. Lamports leave a live
  address only in a native transfer, which takes as much of the amount, and when it
  is closed.
* `TokenProofs!TokenRentInvariant`. `RentInv`, which is `StaysRentExempt` and
  `ReserveIsRent`, is inductive on top of it: what pays is native and keeps the
  reserve it recorded, which is its rent. `TokenAccountsFollowMints` and
  `TokenStaysRentExempt` follow.
* `TokenLamportsConserved` and `TokenBalancesFit`. Each step moves lamports between
  two addresses or not at all (`PayMoves`, `CloseAccountMoves`), and moving keeps a
  total. With `SupplyMatchesBalances` at hand the totals bound single terms: two
  accounts of a mint hold no more than its supply. `ChainInv`, which collects all this
  (`ChainKept`), is what the proofs about other programs start from.
* The action properties: `TokenTermsAreFixed`, `TokenFrozenAccountsHold`,
  `TokenRenouncedAuthorityIsFinal`, `TokenMintsObeyTheirAuthority`,
  `TokenDelegationComesFromOwner`, `TokenClosersAreAppointed`,
  `TokenDebitsAreAuthorised`, `TokenLamportsLeaveByConsent`. The argument has three
  layers. The first turns the 20 actions around: seen from one address, a step is one of a dozen changes
  (`KeyStep` for what a set of signers does, `UnsignedStep` for what nobody signs),
  each with the signature it needs. A property is then read off those changes.
  `HasConsentOf` asks about *all* sets of signers that could have made the step;
  `Consent` answers it once: if every `KeyStep` that changes the address in this way
  validates the same key, and neither the environment nor an unsigned instruction
  makes such a change, then the key has consented. That is where it matters that a
  burn and a close, or an approval and a revocation, cannot be taken for each other.
* `TokenZigProofs!ZigImplementsRust`. The Zig program leaves checks and writes out.
  `ZigInv` is `ChainInv` and `AccountsArePlain` (no delegate, no close authority, not
  frozen, since its instructions make no other accounts). From the first follows
  that no unchecked sum wraps around: balances of a mint fit together under the
  supply (`MintTo` compares the supply itself), and a native amount is covered by
  lamports that all fit in a u64. From the second follows that what the Rust program
  resets is not set. Each `<Instruction>IsRust` lemma then gives the step of the Rust
  program (`InitializeAccountIsRust` that of the Rust program at the stated rent,
  which is `OpensAt` with it), and the lemma about that program (`ChainKept`, for any
  rent) keeps `ChainInv`: nothing about totals is proved again.
  The Rust program is the instance without delegates and close authorities. `ZigKeepsBalances` draws the conclusion for the Zig program at
  whatever rent its clients state, `ZigUnsignedTokensStay` the property the two do not
  share. `ZigImplementsRustAtItsRent` is the case in which nobody states another
  rent than the chain's: then the Zig program implements `Rust!Spec` without
  exception, rent exemption included.

`HoldersHaveMints` of the ledger (in `LedgerConserved`), `StaysRentExempt`,
`TermsAreFixed` and `OnlyDerivedAddressesGrow` are proved and no longer
model-checked: no run would say more than the theorem. `UnsignableAssumption`, that nobody signs for the system program or the
incinerator, is used by `TokenZigProofs` alone: both addresses are constants without
a key (`token/src/processor.rs` relies on it when it lets anybody burn what they own).

### Invocations

`TokenInvocationProofs` is about the program as it runs, one check, signer or write at
a time, with the clients of `TokenClients` around it. It assumes, besides what the
theorems about `Token` do, that the sets of addresses and amounts a client chooses from
are addresses and amounts (`InputAssumption`), that each client's sets are among them
(`ClientsAssumption`), that the rent sysvar is none of the accounts and that more
signers fit a u8 than a multisig has.

* **The inductive invariant** (`InvocationInv`) is `ChainInv` of the committed accounts
  and `StageInv`. Nothing is committed before the last step, so the accounts the
  handler was given are still there: `Before` is the same module with `cells`
  replaced by them, the handler that looks at what was. `StageInv` says for every `pc`
  what has been found out in those terms: behind `check`, `Before!Checks = Ok`; in
  the loop, that the matched positions are of signers who did sign (`Counting`); behind
  it, that the authority has consented as `validate_owner` of `Token` understands it
  (`Consented`); and while writing, that `cells` is what a prefix of `Before!Writes`
  makes of the committed accounts and `effects` is the rest (`Writing`). Checks are
  made on the copies and guards are about the accounts, and the invariant ties the two.
* `TokenInvocationsAreAtomic`. At `Commit` the findings are the guard and the writes
  the effect of an action of `Token`: one lemma `Commit<Handler>` per instruction. All
  other steps leave the committed accounts alone. Two accounts of one call at
  the same address are where it is delicate: each lemma follows the writes through
  the case in which they meet. `ChainInv` is then kept because `Token` keeps it
  (`TokenProofs!ChainKept`).
* `TokenWritesNeverFail` is the last part of `StageInv`. A source of the token program is
  backed by lamports (`WrappedLamportsBacked`), and two lamport balances fit together
  in a u64 (`LamportsConserved`), so the checked arithmetic between the writes succeeds.
* `TokenCallsDoWhatTheySay`. `BuildersList` is the account list of each of the
  builders, with any number of cosigners; the lemmas before it say that the operands a
  client picks are those of the instruction. With a call committed, the positions
  the handler read are then the accounts the client named, and the authority that
  consented is the one named, not some other.
* `TokenMultisigsCanSign` needs `QuorumInv`, which adds that every multisig account
  has a quorum within its signers as long as clients use the builders.

### Account data

`StateCodecProofs` is about the layouts at the widths the code has (`WidthAssumption`:
addresses are 32 bytes, numbers are eight, a multisig has 11 signers), for any values
a client stores and any bytes another program leaves (`ClientAssumption`).

* **The inductive invariant** (`StorageInv`): the data keeps the length of a layout,
  and unpacks to what was packed last. `StoreKeeps` follows a value through `Pack` and
  `UnpackUnchecked`, `DifferKeeps` covers foreign bytes.
* **Numbers.** `NumberOfBytes` and `BytesOfNumber` say what the two recursive functions
  of `Bytes` compute for any number of bytes. `NothingRemains` bounds a number from
  above: eight divisions by 256 use up a u64, so that the eight bytes are all there is
  of it; `SmallerNumberIsRead` is that argument for an amount below `U64Max`. These are
  proofs by induction, in a form the provers can use: the numbers for which a fact holds
  are a set, a set that is not all of `Nat` leaves out a smallest number, and that one
  cannot be left out (`InductionInSet`). `RecursionExists` shows in the same way that
  a function given by its first value and its steps exists.
* **Fields.** `Join` and `Cut` put byte strings behind each other and take them
  apart, with their widths (`Wide(n)`). Each layout is one join of its fields
  (`PartsOfMint`, `PartsOfAccount`, `PartsOfMultisig`) and each field one cut
  (`MintOfParts`, ...). For each kind of field there are two lemmas, that what was
  written is read (`...IsRead`) and that what is read, if it is accepted, is written
  the same way (`...IsWritten`); the layouts have the same two, put together
  from those of their fields. An optional field that is `None` keeps the bytes that
  were behind its tag (`OptionKeyIsWritten`): this is where writing depends on what
  was there, and why rewriting has to be shown for the same bytes.
* `StoredIsRead` follows from the invariant and from `ZerosReadAsMint`, `-Account` and
  `-Multisig`; `RewritingIsInvisible` from the `...IsWritten` lemmas alone, for any data
  of one of the lengths; `PartialReadersAgree` from the positions of the cuts.

### The small programs

* `TransferLamportsProofs` assumes of the accounts that they are finitely many, that
  the lamports at genesis fit in a u64, and that amounts, lengths and addresses are
  what they are called (`AccountAssumption`). **The inductive invariant**
  (`TransferInv`) adds to the types that all lamports together fit in a u64: the runtime
  compares sums before and after, so they stay what they were, and an amount the
  source can pay is one the destination can hold. `AffordableArrive` needs it.
  For the assembly, `Starts` computes where the serialized accounts begin, from the
  lengths of their data and the padding; `InputOfTwo` reads the words at the
  addresses the program works out; `AssemblyMoves` follows the program through them,
  and `OneOutcome` and `ProperOutcome` conclude that every port does the same as
  `Moved`. `TransferPortsDoTheSame` covers amounts that cannot be paid too.
* `CpiProofs` assumes that derived addresses are not wallets and not the system program
  (`AddressAssumption`). `InvokeAllocates` names for every port the bump seed that led
  to the address; `CpiAllocatesDerived` and `CpiPortsDoTheSame` follow. The C
  port is only claimed to include the outcome of the others, as `cpi_discriminant`
  explains.

`TokenInvocationProofs` takes up to half an hour, the other modules up to three minutes.

### Only model-checked

* Out of the prover's reach: `InvocationsEnd` (liveness), `OwnersAreNeverStuck` of both
  programs and `BuiltInstructionsWork` (`ENABLED`).
* `TextRoundTrip`, `TextParsesByValue`, `WireRoundTrip` and `WireAcceptsOnlyPacked`.
  The texts rest on powers of ten, which no prover here knows, and on folds over
  digits; instruction data has 25 formats, some with a text or a tail
  inside, each of which would need the two lemmas that a field of an account has. The
  lemmas on numbers and joined fields in `StateCodecProofs` are what such a
  proof would start from.

## Not modelled

* The conversions of amounts through an `f64`: TLA+ has no floating point.
* Transactions of several instructions. `InitializeMint` and its like need no
  signer, so between a `create_account` and an initializer in two transactions
  anybody can claim the account; the documentation makes it the client's duty to
  put both in one. The model lets any client claim it.
* A rent that changes: `MinBalance` is constant. Nor do the models have the runtime's
  own rules about rent. It refuses transactions that take an account below its rent,
  which the programs do not rely on: without that rule more can happen. And it drops
  accounts without lamports; of the open ones only a native account can be that
  which the Zig program opened at a stated rent of nothing, with no balance left.
* The return data of the queries, compute budgets, logging, error texts.
* The error numbers of the Zig program and its `instruction.zig`, which read the
  same format as `InstructionCodec`.
* pubkey and helloworld (no state), build, install and test scripts.

Assumed of callers: cpi is called with the system program as its second account.
C and Zig ports that are given too few accounts fault or change nothing.

## Plan

1. *Done:* the token program as actions (`Token`), as steps (`TokenInvocation`) and
   in Zig, its ledger, its formats, the small programs, their runs, and the theorems
   above: every safety and action property of the runs is proved except those
   listed under "Only model-checked".
2. *Open:* `WireRoundTrip` and `WireAcceptsOnlyPacked`, from the lemmas on numbers and
   fields, which would then become a module of their own.
