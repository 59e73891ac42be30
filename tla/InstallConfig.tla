---------------------------- MODULE InstallConfig ----------------------------
(***************************************************************************)
(* install/src/config.rs: the solana-install Config, built by Config::new, *)
(* written by save and read back by load.  save serialises the config to  *)
(* YAML, creates (truncates) the file and writes it with write_all, which *)
(* loops on write(); a write may be short and may fail (ENOSPC, EIO), and *)
(* the process may be killed between any two writes.  The file is a      *)
(* sequence of tokens, in the order serde_yaml writes the fields: the     *)
(* fields before releases_dir (one token, the model value of Others),    *)
(* the two keys, the path components and the line ends.  A short write   *)
(* stops at a token boundary.                                              *)
(***************************************************************************)
EXTENDS Integers, Sequences, SequencesExt

CONSTANTS
    Procs,      \* solana-install processes sharing the config file
    DataDirs,   \* data_dir arguments of Config::new, as sequences of path components
    Others,     \* the serialised fields before releases_dir (url, pubkey, manifest, poll, release)
    None,
    Err         \* Err(String) of load or save

NL == "newline"
RELEASES_KEY == "releases_dir:"
ACTIVE_KEY == "active_release_dir:"

\* PathBuf::join of a relative component
Join(dir, name) == dir \o <<"/", name>>

PathTokens == {"/", "releases", "active_release"} \cup UNION {Range(d) : d \in DataDirs}

\* Config::new: both directories under data_dir, nothing else read here.
Config_new(data_dir, other) ==
    [other |-> other,
     releases_dir |-> Join(data_dir, "releases"),
     active_release_dir |-> Join(data_dir, "active_release")]

\* Config::active_release_dir()
active_release_dir(c) == c.active_release_dir

\* serde_yaml::to_string(self): the fields in declaration order, one per line.
Serialize(c) ==
    <<c.other, RELEASES_KEY>> \o c.releases_dir \o <<NL, ACTIVE_KEY>>
        \o c.active_release_dir \o <<NL>>

\* serde_yaml::from_reader: the releases_dir line, then the active_release_dir
\* key and its value up to the line end; a value cut short is still a path,
\* a missing key or anything but blank lines after the value is an error.
ParseConfig(b) ==
    LET k == SelectInSeq(b, LAMBDA x : x = NL)
        rest == SubSeq(b, k + 2, Len(b))
        j == SelectInSeq(rest, LAMBDA x : x = NL)
        value == IF j = 0 THEN rest ELSE SubSeq(rest, 1, j - 1)
        tail == SubSeq(rest, Len(value) + 1, Len(rest))
    IN  IF /\ Len(b) >= 2 /\ b[1] \in Others /\ b[2] = RELEASES_KEY
           /\ k > 2 /\ k < Len(b) /\ b[k + 1] = ACTIVE_KEY
           /\ Range(SubSeq(b, 3, k - 1)) \subseteq PathTokens
           /\ Range(value) \subseteq PathTokens
           /\ Range(tail) \subseteq {NL}
        THEN [other |-> b[1], releases_dir |-> SubSeq(b, 3, k - 1),
              active_release_dir |-> value]
        ELSE Err

\* Mutation: OpenOptions::write without truncate in place of File::create.
file_create_no_truncate(disk) == IF disk = None THEN <<>> ELSE disk

\* File::create: creates the file or truncates it to length 0.
file_create(disk) == <<>>

NUL == "zero byte"

\* write() at file offset off: overwrites, extending the file past its end;
\* an offset past the end (the file truncated by another handle) leaves a
\* hole that reads as zero bytes.
Overwrite(d, off, chunk) ==
    LET padded == d \o [i \in 1 .. off - Len(d) |-> NUL]
    IN  SubSeq(padded, 1, off) \o chunk \o SubSeq(padded, off + Len(chunk) + 1, Len(padded))

-----------------------------------------------------------------------------
VARIABLES
    disk,         \* the config file's contents, or None before it exists
    mem,          \* mem[p]: process p's Config, or None (before new or load, after a crash)
    saving,       \* saving[p]: the Config of p's last save that reached File::create
    written,      \* written[p]: how much of its serialisation p's write_all has written
    saveState,    \* saveState[p]: "none", "writing", "ok" (save returned Ok) or "failed"
    lastCreated   \* the process whose File::create came last, or None

vars == <<disk, mem, saving, written, saveState, lastCreated>>

\* The bytes p's last save writes.
buf(p) == IF saving[p] = None THEN <<>> ELSE Serialize(saving[p])

\* What Config::load returns for the file as it is.
load == IF disk = None THEN Err ELSE ParseConfig(disk)

Init ==
    /\ disk = None
    /\ mem = [p \in Procs |-> None]
    /\ saving = [p \in Procs |-> None]
    /\ written = [p \in Procs |-> 0]
    /\ saveState = [p \in Procs |-> "none"]
    /\ lastCreated = None

\* Config::new
New(p, data_dir, other) ==
    /\ saveState[p] # "writing"
    /\ mem' = [mem EXCEPT ![p] = Config_new(data_dir, other)]
    /\ UNCHANGED <<disk, saving, written, saveState, lastCreated>>

\* Config::load: File::open fails on a missing file, from_reader on a bad
\* one; the caller keeps its Config on an error.
Load(p) ==
    /\ saveState[p] # "writing"
    /\ mem' = [mem EXCEPT ![p] = IF load = Err THEN @ ELSE load]
    /\ UNCHANGED <<disk, saving, written, saveState, lastCreated>>

\* Config::save up to write_all: create_dir_all or File::create may fail
\* and leave the file alone; else the file is truncated and p's handle is
\* at offset 0.
Save(p) ==
    /\ saveState[p] # "writing" /\ mem[p] # None
    /\ \/ /\ saveState' = [saveState EXCEPT ![p] = "failed"]
          /\ UNCHANGED <<disk, saving, written, lastCreated>>
       \/ /\ disk' = file_create(disk)
          /\ saving' = [saving EXCEPT ![p] = mem[p]]
          /\ written' = [written EXCEPT ![p] = 0]
          /\ saveState' = [saveState EXCEPT ![p] = "writing"]
          /\ lastCreated' = p
    /\ UNCHANGED mem

\* Mutation: file.write in place of write_all, Ok after one short write.
write_short_ok(p, n) ==
    /\ saveState[p] = "writing" /\ n \in 1 .. Len(buf(p)) - written[p]
    /\ disk' = Overwrite(disk, written[p], SubSeq(buf(p), written[p] + 1, written[p] + n))
    /\ written' = [written EXCEPT ![p] = @ + n]
    /\ saveState' = [saveState EXCEPT ![p] = "ok"]
    /\ UNCHANGED <<mem, saving, lastCreated>>

\* One write() of p's write_all, n bytes at p's file offset; save returns
\* Ok after the last one.
Write(p, n) ==
    /\ saveState[p] = "writing" /\ n \in 1 .. Len(buf(p)) - written[p]
    /\ disk' = Overwrite(disk, written[p], SubSeq(buf(p), written[p] + 1, written[p] + n))
    /\ written' = [written EXCEPT ![p] = @ + n]
    /\ saveState' = [saveState EXCEPT ![p] = IF written[p] + n = Len(buf(p)) THEN "ok" ELSE "writing"]
    /\ UNCHANGED <<mem, saving, lastCreated>>

\* write() returns an error: write_all and save return Err, the bytes
\* written so far stay in the file.
WriteFails(p) ==
    /\ saveState[p] = "writing"
    /\ saveState' = [saveState EXCEPT ![p] = "failed"]
    /\ UNCHANGED <<disk, mem, saving, written, lastCreated>>

\* Process p is killed: its Config is lost, the file keeps what was written.
Crash(p) ==
    /\ mem' = [mem EXCEPT ![p] = None]
    /\ saveState' = [saveState EXCEPT ![p] = IF @ = "writing" THEN "failed" ELSE @]
    /\ UNCHANGED <<disk, saving, written, lastCreated>>

\* The steps of p's write_all.
WriteAll(p) == \E n \in 1 .. Len(buf(p)) : Write(p, n)

Next ==
    \E p \in Procs :
        \/ \E d \in DataDirs, o \in Others : New(p, d, o)
        \/ Load(p)
        \/ Save(p)
        \/ WriteAll(p)
        \/ WriteFails(p)
        \/ Crash(p)

Spec == Init /\ [][Next]_vars

-----------------------------------------------------------------------------
\* Once a save has returned Ok, load returns exactly the saved Config until
\* the next save reaches File::create, whatever crashes and failed saves
\* happen in between: write_all wrote the whole serialisation over the
\* truncated file, and from_reader parses it back to the same fields.
SavedConfigLoads ==
    lastCreated # None /\ saveState[lastCreated] = "ok" => load = saving[lastCreated]

\* An interrupted save (killed, or write() failing part way) can only cut
\* the file short: whenever load returns Ok, the Config agrees with the one
\* the last save to truncate the file was called on in every field, except
\* that its active_release_dir may be a prefix of that Config's.
LoadedConfigWasWritten ==
    load # Err =>
        LET c == saving[lastCreated]
        IN  /\ load.other = c.other
            /\ load.releases_dir = c.releases_dir
            /\ IsPrefix(active_release_dir(load), active_release_dir(c))

\* active_release_dir is private and only Config::new sets it, to
\* data_dir/active_release beside data_dir/releases: every Config load
\* returns is one Config::new builds.
LoadedConfigIsNew ==
    load # Err => \E d \in DataDirs : load = Config_new(d, load.other)
=============================================================================
