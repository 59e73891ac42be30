# TLA+ models of the transfer-with-fee proof and the shred header arithmetic

This directory holds TLA+ models of two parts of the repository, written from
its Rust sources and checked with TLC:

- `zk-token-sdk/src/instruction/transfer_with_fee.rs` (Solana 1.11.2): how the
  confidential transfer-with-fee proof is built and verified;
- `ledger/src/shred/traits.rs`: the parent-slot and first-coding-index arithmetic
  of shred headers;
- `install/src/config.rs`: how `solana-install` saves its `Config` to a YAML file
  and loads it back, under crashes and failing writes.

## The system and its parts

The transfer-with-fee code has a client side, `TransferWithFeeData::new`. It does
the following in order:

1. splits the amount into a low and a high limb (`split_u64`);
2. encrypts each limb under the source, destination and auditor keys;
3. subtracts the combined limbs from the old source balance ciphertext;
4. computes the fee (`calculate_fee`), clamps it to `maximum_fee` with a
   constant-time select, and encrypts it under the destination and
   withdraw-withheld-authority keys;
5. binds every public value into a Fiat–Shamir transcript (`transcript_new`);
6. builds five sub-proofs in a fixed order (`TransferWithFeeProof::new`):
   - equality of the new source ciphertext and a new commitment;
   - aggregated validity of the limbs;
   - the fee sigma proof;
   - validity of the fee ciphertext;
   - a 256-bit range proof.

The verifier side, `TransferWithFeeData::verify`, replays the same transcript and
checks the five sub-proofs in the same order. It rebuilds the commitments the
range proof covers: the negated low limb in the narrow variant, and the negated
claimed delta.

The receivers decrypt with `decrypt_amount(role, sk)`.

Pedersen and ElGamal and the five sigma and range protocols are in the
repository but not under `src/`. They are modelled from the contracts in
`spec.md` and marked `spec_modelled` in `PROJECT.json`.

## Modules

| Module | Models | State / actions |
|---|---|---|
| `FeeCalculator` | `calculate_fee` (lines 698-713) | `input`, `output`; `Calculate(amount, rate)` is one call |
| `TransferWithFee` | `new`, `transcript_new`, `TransferWithFeeProof::new/verify`, `TransferWithFeeData::verify`, `ciphertext_lo/hi`, `decrypt_amount`, `FeeEncryption::new`, `compute_delta_commitment(_and_opening)` | `request`, `newResult`, `data`, `origin`, `verdict`, `decrypted`; `New`, `Tamper`, `Forge`, `Verify`, `DecryptAmount` |
| `ConfidentialTransfer` | the promise of a transfer with fee (spec.md), with no cryptography | `phase`, `request`, `transfer`; `Request`, `Check` |
| `FixedLayoutCodec` | `FeeParameters::to_bytes/from_bytes` (667-695), `TransferWithFeePubkeys::to_bytes/from_bytes` (585-629) | `call`, `result`; one action per encoder and decoder |
| `InstallConfig` | `Config::new`, `load`, `save` (config.rs 18-78) | shared `disk`, `lastCreated`; per process `mem`, `saving`, `written`, `saveState`; `New`, `Load`, `Save`, `Write(n)`, `WriteFails`, `Crash`, each of one process |
| `ShredTraits` | `ShredData::parent`, `ShredCode::first_coding_index` | `header`, `result`; `Parent`, `FirstCodingIndex` |
| `MC_*` | constants for TLC | — |

### Abstraction in TransferWithFee

Group elements and the transcript are modelled as follows:

- **Commitments.** A commitment `x*G + r*H` is the record `[m |-> x mod P, r |-> r mod P]`.
- **Handles.** A handle `r*PK` is `[pk |-> PK, r |-> r]`.
- **Zeroed key.** For the zeroed (identity) key every handle is the identity, so its `r` is 0.
- **Arithmetic.** The homomorphic operations act component-wise modulo `P`. This is how the code's `Scalar` arithmetic wraps.
- **Transcript.** The transcript is the sequence of its labelled appends, in code order. A challenge is a function of that sequence.

Each sub-proof is `[t, stmt, ok]`:

- `t` is the transcript it drew its challenge from;
- `stmt` is the public statement it is about;
- `ok` says whether its witness satisfies the relation.

A sub-proof verifies iff `ok` holds and its `t` and `stmt` equal the ones the
verifier computes. These are the completeness and soundness contracts of the
spec.

A forging prover (`Forge`) commits to arbitrary values and produces exactly the
sub-proofs whose relation holds for the statement the verifier will check.

**Bit widths** are the code's divided by 16 (`BIT_SCALE`):

| Code | Model |
|---|---|
| u64 | 4 bits |
| 16-bit limbs | 1 bit |
| 32-bit limbs | 2 bits |
| `RangeProof256` | 16 bits |
| `decrypt_u32` | 2 bits |

`MAX_FEE_BASIS_POINTS` (10 000) becomes 4.

The field order is `P = 67 > 2^4 * 4`. For the real group order, no honest value
or fee product wraps, while forged values and negated openings do. The same
holds for 67 in the model.

The ratios that matter are preserved:

- the bit lengths of each range vector sum to the proof size (narrow: 4+1+1+2+4+4, wide: 4+2+2+4+4);
- the limb split covers 3 (narrow) or 4 (wide) of the 4 u64 bits;
- a fee fits u64 exactly when the code's does.

Both the narrow split (`LO_BITS_CONFIG = 16`, as compiled) and the wide split
(`= 32`, the other branch of `new` and `verify`) are checked.

### Refinement

`TransferWithFee` implements `ConfidentialTransfer` under the mapping
`ImplementsConfidentialTransfer` checks:

- `phase`: `idle` before `new`; `error` when `new` returns an error; `built`
  after `Ok` and before verify; then `accepted` or `refused` by the verdict;
- `request`: the amount, balance, rate and maximum fee passed to `new`, and
  whether no receiving key is the zeroed key;
- `transfer`: the amount in the combined lo/hi commitments, the fee commitment's
  value and the value the source key decrypts from the new source ciphertext.

The abstract `AMOUNT_LIMIT` is `2^(lo bits + hi bits)`. So the refinement also
says that `new` refuses exactly the amounts `split_u64` cannot represent. It is
checked for the honest client (`client`, `client_wide`). A forging prover does
not refine it: findings 1 and 2 are the two ways it fails.

### Stale balance

`new` takes the plaintext `spendable_balance` and the old source ciphertext as
separate arguments (line 114). The constant `StaleBalances` lists the other
values that ciphertext may hold. These model a client whose decrypted balance
is out of date. The `tamper` run lets `new` see such balances.

### Abstraction in FixedLayoutCodec

A byte has `BYTE_BITS = 1` bit and a key `KEY_BYTES = 2` bytes; the 2 + 8 byte
fee layout keeps its sizes. `u16/u64::from_le_bytes` is the recursive `FromLE`.
It is checked against `LEValue`, a fold of byte·2^(8i). `array_ref!` on a short
slice is the model value `Panic`. `ElGamalPubkey::from_bytes` accepts the
encodings in `ValidPoints`. The decoders are given every slice from one byte
short to one byte long.

### Abstraction in InstallConfig

The config file is a sequence of tokens in the order `serde_yaml` writes the
fields:

- one token (a model value of `Others`) stands for every field before
  `releases_dir`;
- then the `releases_dir:` key, the path components and a line end;
- then the `active_release_dir:` key, its path components and a line end.

`Config::new` builds both paths with `PathBuf::join` under `data_dir`. The data
directories `d` and `d/e` give serialisations of two lengths.

`save` is split into the steps that can be interrupted:

- `Save` is `create_dir_all` and `File::create`. Either may fail, or the file
  is truncated.
- `Write(n)` is one `write()` of `write_all`. It writes `n` tokens at the file
  offset.
- `WriteFails` is a `write()` error such as ENOSPC. The tokens already written
  stay in the file.
- `Crash` kills the process at any point. It loses the in-memory `Config` and
  keeps the file.

Several installer processes (`Procs`) share the file, and each has its own
handle and offset. A write at an offset past the end of a file that another
process truncated leaves a hole. The hole reads as zero bytes, which no parse
accepts.

`ParseConfig` is `serde_yaml::from_reader`:

- a file cut before the `active_release_dir:` key fails (a missing field);
- anything but blank lines after the value fails;
- a value cut short is still a path string. An empty value gives an empty
  path, because `serde_yaml` 0.8 deserialises a string from the scalar's text.

Short writes stop at token boundaries. The properties depend only on where
the cut falls relative to the two keys and the value.

## Runs

| Run | Expect | What it shows |
|---|---|---|
| `fee_calculator` | pass | For every u64 amount and every u16 rate, `calculate_fee` returns `ceil(a*r/10000)`, and delta_fee = fee·10000 − a·r lies in [0, 10000). It fails only when the fee does not fit a u64. Rates above 10 000 are included: this answers the spec's open question, since `10000 - delta_fee` cannot underflow. |
| `client` | pass | `ImplementsConfidentialTransfer`. Narrow split, for amounts around the split limit and the balance, rates 0, 3 and 5 (above 100%), maximum fees below and above the fee, two openings per random draw, and each receiving key in turn zeroed (`KeyChoices`, the keys of case 5 of the code's `test_fee_correctness`). The cases: an amount that fits and is at most the balance gives `Ok`; a too-large amount or an overdraft gives an error; the artifact verifies iff no key is zeroed; the encrypted fee is the clamped ceiling; each role decrypts the amount. |
| `client_wide` | pass | The same refinement and decryption results for the wide split. |
| `tamper` | pass | A client whose old source ciphertext holds another value than the balance it passes still gets `Ok` from `new`, but verify rejects the artifact (`StaleBalanceRejected`): the equality proof binds the new balance to the ciphertext. Changing any one of the 17 group elements of a built artifact makes verify fail. This includes the limb source handles, which no sub-proof uses and only the transcript binds. |
| `forge` | pass | For limbs, balances and deltas in range, just out of range and negative: anything verify accepts has in-range limbs, new balance and claimed delta, and destination and auditor decrypt the committed amount. |
| `fee_u64` | violation | The forging prover commits to fees at the edge of the scaled u64 (15, 16), to 17 = 1/4 mod 67 and to -1. verify accepts the commitment to 17, which is not a u64. |
| `forge_fee` | violation | With u64 fees only, verify accepts fee = `maximum_fee` (1) for amount 0 at rate 0. |
| `codec` | pass | `to_bytes` then `from_bytes` is the identity on both layouts. `from_bytes` panics exactly on a short slice, ignores trailing bytes, and reads the fields little-endian in declaration order. The pubkey decode fails exactly when one of the four keys is not a point. |
| `install_config` | pass | With kills, short writes and failing writes at every point: once `save` returns `Ok`, `load` returns exactly that `Config` until the next save (`SavedConfigLoads`). Whatever `load` accepts agrees with the last saved `Config`, except that its `active_release_dir` may be cut short (`LoadedConfigWasWritten`). One process. |
| `install_config_torn` | violation | `load` returns a `Config` that `Config::new` never builds, with `active_release_dir` empty or cut (`LoadedConfigIsNew`). |
| `install_config_race` | violation | Two processes: the save that truncated the file last returns `Ok`, but `load` does not return its `Config` (`SavedConfigLoads`). The other process's `write_all` is still writing at its own offset. |
| `shred` | pass | For every header of the scaled widths, `parent()` and `first_coding_index()` return `None` or a value of their unsigned type (`TypeOK`): the `checked_sub` never leaves the range, as an unchecked subtraction would. |

Every property of a passing run has a mutant in `PROJECT.json`: a plausible bug
in the mapped code that TLC finds. Examples:

- the verifier combines the limbs with the high width;
- the lo source handle is not appended to the transcript;
- verify skips the equality proof (`tamper`);
- the fee fields are read in the wrong order (`codec`);
- the fee is not rounded up (`fee_calculator`);
- `parent()` subtracts unchecked (`shred`);
- the config is written with one `write()` in place of `write_all`, or without truncating (`install_config`).

## Findings

1. **The fee is never range-proved** (`transfer_with_fee.rs:552-578`).
   - The fee sigma proof ties `fee*10000 - amount*rate` to the claimed delta only modulo the group order.
   - A prover can therefore commit to a non-integer "fee" (a field element), and verify accepts it.
   - The withdraw-withheld authority cannot decrypt such a fee.
   - Run `fee_u64`.
2. **The maximum-fee branch accepts any amount** (`:527`).
   - The fee sigma proof is an OR: the fee equals `maximum_fee`, or the delta relation holds.
   - So an artifact charging `maximum_fee` verifies even when the correct fee is lower.
   - The spec states fee correctness as equality with the clamped ceiling.
   - Run `forge_fee`.
3. **A claimed delta of exactly 10 000 is accepted** (a consequence seen in `forge`).
   - The range check on `10000 - claimed` admits `claimed = 10000`, although `calculate_fee` never produces it.
   - `AcceptedIsWellFormed` states the bound the code actually enforces, `claimed <= 10000`.
4. **An interrupted config save is loaded as a different config**
   (`install/src/config.rs:65`).
   - `_save` truncates the file in place, then writes it.
   - A kill, or a failing write, after the truncation loses the previous config.
   - If it stops inside the `active_release_dir` value, `load` accepts the file
     with that private path cut short. `Config::new` only ever sets it to
     `<data_dir>/active_release`.
   - Run `install_config_torn`.
5. **Concurrent config saves overwrite each other** (`install/src/config.rs:65-66`).
   - Two `solana-install` processes, for example `run` polling for updates and an
     `update`, each truncate the file and write from their own offset 0.
   - The save that truncated last returns `Ok`, but the other's remaining writes
     land on top of it.
   - The file then loads as neither config, or not at all. `_save` takes no lock.
   - Run `install_config_race`.

## Fairness and deadlock

Every modelled operation is a synchronous call with no threads, messages or
retries. Each model is a sequence of calls, and nothing must eventually happen,
so no fairness is assumed there and no liveness property is stated.

The transfer-with-fee runs set `CHECK_DEADLOCK FALSE`. An artifact is built (or
forged) once, verified once and decrypted once per role, after which the system
really stops.

`install_config` checks deadlock: `New`, `Load` and `Crash` are always
enabled. It states no liveness. The only loop in `save` is the standard
library's `write_all`, not this repository's code. Its termination would hold
only by the fairness assumed for it, so nothing would be learned about
`config.rs`. The faults (`write()` errors, kills, a failing `File::create`) and
the caller's steps get no fairness either. The code does not retry, and nothing
says the installer ever saves.

## Not modelled

- The internals of the sigma and range protocols, and of Pedersen and ElGamal. These are not under `src/`; their contracts are modelled.
- The callers of `Config` (`solana-install init`, `update`, `run`). They are not under `src/`. `InstallConfig` lets any process call `new`, `load` and `save` at any time.
- A `load` whose `read()` calls interleave with another process's save. `Load` reads the whole file in one step. A torn read is one more form of the unlocked concurrent save that `install_config_race` already shows (finding 5).
- Properties of `first_coding_index()` alone. It is one `checked_sub`, and a property of its result would only restate it. The erasure sets it places shreds in are built by callers that are not under `src/`.
- The path accessors `active_release_bin_dir` and `release_dir`. They are pure `PathBuf::join`s and change no state.
- `bench-tps` cluster tests. They are network and process I/O.
- `contracts::assert_tx_success`. It is a one-branch test helper.
- The `parse_token` extension module list. It has no behaviour.

## Further work

- Larger key and opening sets for `forge`, which now takes about 90 s.
- An abstract `Config` store, where `save` replaces the whole config at once.
  `InstallConfig` as it is would not refine it, because of findings 4 and 5.
  A fixed `save` (write a temporary file, then rename it) should refine it.
- Three installer processes in `install_config_race`, to see whether a third
  save widens the window.
