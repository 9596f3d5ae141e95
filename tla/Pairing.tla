------------------------------ MODULE Pairing ------------------------------
(***************************************************************************)
(* The secrets of this machine (ah-core/src/auth.rs) and the pairing they  *)
(* hold: `ah remote pair` and `ah remote forget` (remote/cli.rs), what they*)
(* ask of a relay (ah-remote/src/provision.rs) and how its answer is read. *)
(* A command runs in steps, and may be cut off between any two; a request  *)
(* or its answer may be lost; a relay may be deployed anew.  One command   *)
(* runs at a time, and the environment names no key and no code.           *)
(***************************************************************************)
EXTENDS Naturals

CONSTANTS
    PairRuns,     \* bound: commands run
    PairFaults    \* bound: what goes wrong

Unset == "unset"
NoCode == 0
PairRelays == {"near", "far"}

VARIABLES
    pair_file,    \* credentials.toml: whole, not TOML or not there, and what reads from it
    pair_beside,  \* credentials.toml.new
    pair_cmd,     \* the command under way
    pair_live,    \* the hubs a relay holds a key for, and has not revoked
    pair_skewed,  \* this machine's clock is further out than a signature may be
    pair_codes,   \* codes made, each of them drawn anew
    pair_runs, pair_faults,
    pair_told,    \* history: the hubs a relay was told of
    pair_apart,   \* history: the hubs this machine and their relay have come to differ about
    pair_meant    \* history: the keys as the commands about them left them

pair_vars == <<pair_file, pair_beside, pair_cmd, pair_live, pair_skewed, pair_codes, pair_runs,
               pair_faults, pair_told, pair_apart, pair_meant>>

NoSecrets == [key |-> Unset, voice |-> Unset, code |-> NoCode, url |-> Unset]
NoFile == [is |-> "none", creds |-> NoSecrets]
NotToml == [is |-> "not toml", creds |-> NoSecrets]
Whole(creds) == [is |-> "whole", creds |-> creds]
NoCommand == [op |-> "none", at |-> "idle", hub |-> <<Unset, NoCode>>,
              mem |-> NoSecrets, then |-> "idle"]

PairInit ==
    /\ pair_file \in {NoFile, NotToml} /\ pair_beside = NoSecrets
    /\ pair_cmd = NoCommand
    /\ pair_live = {} /\ pair_skewed \in BOOLEAN /\ pair_codes = 0
    /\ pair_runs = 0 /\ pair_faults = 0
    /\ pair_told = {} /\ pair_apart = {}
    /\ pair_meant = [key |-> Unset, voice |-> Unset]

-----------------------------------------------------------------------------
(* The file. *)

\* read_credentials().unwrap_or_default()
Stored == pair_file.creds
StoredHub == <<Stored.url, Stored.code>>
Paired == Stored.url # Unset /\ Stored.code # NoCode

\* A change of the file begins: what is to be in it is worked out, and what is
\* done once it is.
Rewrites(creds, then) ==
    /\ pair_cmd' = [pair_cmd EXCEPT !.at = "write", !.mem = creds, !.then = then]
    /\ UNCHANGED <<pair_file, pair_beside, pair_live, pair_skewed, pair_codes, pair_runs,
                   pair_faults, pair_told, pair_apart, pair_meant>>

\* write_whole: beside the file, never into it.
WritesWhole ==
    /\ pair_cmd.at = "write"
    /\ pair_beside' = pair_cmd.mem
    /\ pair_cmd' = [pair_cmd EXCEPT !.at = "rename"]
    /\ UNCHANGED <<pair_file, pair_live, pair_skewed, pair_codes, pair_runs, pair_faults,
                   pair_told, pair_apart, pair_meant>>

\* What a command about a key means by the end of it.
Meant ==
    CASE pair_cmd.op \in {"login", "logout"} -> [pair_meant EXCEPT !.key = pair_cmd.mem.key]
      [] pair_cmd.op = "voice" -> [pair_meant EXCEPT !.voice = pair_cmd.mem.voice]
      [] OTHER -> pair_meant

Renames ==
    /\ pair_cmd.at = "rename"
    /\ pair_file' = Whole(pair_beside)
    /\ pair_meant' = Meant
    /\ pair_cmd' = IF pair_cmd.then = "idle" THEN NoCommand
                   ELSE [pair_cmd EXCEPT !.at = pair_cmd.then, !.mem = NoSecrets]
    /\ UNCHANGED <<pair_beside, pair_live, pair_skewed, pair_codes, pair_runs, pair_faults,
                   pair_told, pair_apart>>

-----------------------------------------------------------------------------
(* The commands that keep keys. *)

Runs(op) ==
    /\ pair_cmd = NoCommand /\ pair_runs < PairRuns
    /\ pair_runs' = pair_runs + 1
    /\ UNCHANGED <<pair_live, pair_skewed, pair_codes, pair_faults, pair_told, pair_apart>>

Keeps(op, creds) ==
    /\ Runs(op)
    /\ pair_cmd' = [NoCommand EXCEPT !.op = op, !.at = "write", !.mem = creds]
    /\ UNCHANGED <<pair_file, pair_beside, pair_meant>>

Login(key) == Keeps("login", [Stored EXCEPT !.key = key])
VoiceKey(key) == Keeps("voice", [Stored EXCEPT !.voice = key])

\* clear_key_at: nothing but the key goes, and the file only when that was all.
LoggedOut == [Stored EXCEPT !.key = Unset]
KeptAnything(creds) == creds.code # NoCode \/ creds.voice # Unset
Logout ==
    \/ /\ KeptAnything(LoggedOut)
       /\ Keeps("logout", LoggedOut)
    \/ /\ ~KeptAnything(LoggedOut)
       /\ Runs("logout")
       /\ pair_file' = NoFile /\ pair_meant' = [pair_meant EXCEPT !.key = Unset]
       /\ UNCHANGED <<pair_beside, pair_cmd>>

-----------------------------------------------------------------------------
(* Pairing, and giving it up. *)

PairBegins(url) ==
    /\ Runs("pair")
    /\ pair_cmd' = [NoCommand EXCEPT !.op = "pair", !.at = "look", !.hub = <<url, NoCode>>]
    /\ UNCHANGED <<pair_file, pair_beside, pair_meant>>
\* With a relay named by `--url`, or the one stored: its address outlives a code.
Pair == \E url \in PairRelays : PairBegins(url)

ForgetBegins(local) ==
    /\ Runs("forget")
    /\ pair_cmd' = [NoCommand EXCEPT !.op = "forget", !.at = IF local THEN "clear" ELSE "look"]
    /\ UNCHANGED <<pair_file, pair_beside, pair_meant>>
PairForget == \E local \in BOOLEAN : ForgetBegins(local)

Goes(at) ==
    /\ pair_cmd' = IF at = "idle" THEN NoCommand ELSE [pair_cmd EXCEPT !.at = at]
    /\ UNCHANGED <<pair_file, pair_beside, pair_skewed, pair_runs, pair_meant>>

After == IF pair_cmd.op = "pair" THEN "make" ELSE "clear"

\* end_the_pairing_here_now: what is stored here, if it can be read.
Looks ==
    /\ pair_cmd.at = "look"
    /\ Goes(IF Paired THEN "revoke" ELSE After)
    /\ UNCHANGED <<pair_live, pair_codes, pair_faults, pair_told, pair_apart>>

\* Hub::revoke, and what_it_means: a 401 is not believed of a clock that is out.
HubRevokes == IF pair_skewed THEN pair_live ELSE pair_live \ {StoredHub}
Means(heard) ==
    IF ~heard THEN "unreachable"
    ELSE IF pair_skewed THEN "refused"
    ELSE IF StoredHub \in pair_told THEN "ended" ELSE "nothing to end"
EndedHere(meaning) == meaning \in {"ended", "nothing to end"}

\* The request arrives or does not, and so does its answer.
Revokes(arrives, heard) ==
    /\ pair_cmd.at = "revoke" /\ (heard => arrives)
    /\ ~heard => pair_faults < PairFaults
    /\ pair_faults' = IF heard THEN pair_faults ELSE pair_faults + 1
    /\ pair_live' = IF arrives THEN HubRevokes ELSE pair_live
    /\ Goes(IF EndedHere(Means(heard)) THEN "drop" ELSE "idle")
    /\ pair_apart' = IF arrives = heard THEN pair_apart ELSE pair_apart \cup {StoredHub}
    /\ UNCHANGED <<pair_codes, pair_told>>

\* clear_remote_code: the code goes, its relay stays.
Drops == pair_cmd.at = "drop" /\ Rewrites([Stored EXCEPT !.code = NoCode], After)

Makes ==
    /\ pair_cmd.at = "make"
    /\ pair_codes' = pair_codes + 1
    /\ pair_cmd' = [pair_cmd EXCEPT !.at = "provision", !.hub = <<pair_cmd.hub[1], pair_codes'>>]
    /\ UNCHANGED <<pair_file, pair_beside, pair_live, pair_skewed, pair_runs, pair_faults,
                   pair_told, pair_apart, pair_meant>>

\* provision: the relay is told before the code is written down.
Provisions(arrives, heard) ==
    /\ pair_cmd.at = "provision" /\ (heard => arrives)
    /\ ~heard => pair_faults < PairFaults
    /\ pair_faults' = IF heard THEN pair_faults ELSE pair_faults + 1
    /\ pair_live' = IF arrives THEN pair_live \cup {pair_cmd.hub} ELSE pair_live
    /\ pair_told' = IF arrives THEN pair_told \cup {pair_cmd.hub} ELSE pair_told
    /\ pair_apart' = IF arrives = heard THEN pair_apart ELSE pair_apart \cup {pair_cmd.hub}
    /\ Goes(IF heard THEN "save" ELSE "idle")
    /\ UNCHANGED pair_codes

\* save_remote: both halves together.
Saves ==
    /\ pair_cmd.at = "save"
    /\ Rewrites([Stored EXCEPT !.url = pair_cmd.hub[1], !.code = pair_cmd.hub[2]], "idle")

\* clear_remote; `--local` comes here with a pairing the relay still holds.
Clears ==
    /\ pair_cmd.at = "clear"
    /\ pair_cmd' = [pair_cmd EXCEPT !.at = "write", !.then = "idle",
                    !.mem = [Stored EXCEPT !.code = NoCode, !.url = Unset]]
    /\ pair_apart' = IF Paired THEN pair_apart \cup {StoredHub} ELSE pair_apart
    /\ UNCHANGED <<pair_file, pair_beside, pair_live, pair_skewed, pair_codes, pair_runs,
                   pair_faults, pair_told, pair_meant>>

-----------------------------------------------------------------------------
(* What goes wrong. *)

\* A crash, or a write that fails: the command is over where it stood.  A relay
\* told of a code that was not written down yet keeps a hub nobody here can end;
\* a code may be left that the relay has just stopped answering to.
CutOff ==
    /\ pair_cmd # NoCommand /\ pair_faults < PairFaults
    /\ pair_faults' = pair_faults + 1
    /\ pair_apart' = pair_apart \cup ({pair_cmd.hub} \cap pair_told) \cup ({StoredHub} \ pair_live)
    /\ pair_cmd' = NoCommand
    /\ UNCHANGED <<pair_file, pair_beside, pair_live, pair_skewed, pair_codes, pair_runs,
                   pair_told, pair_meant>>

Redeployed(relay) ==
    /\ pair_faults < PairFaults
    /\ pair_faults' = pair_faults + 1
    /\ pair_live' = {hub \in pair_live : hub[1] # relay}
    /\ pair_apart' = pair_apart \cup (pair_live \ pair_live')
    /\ UNCHANGED <<pair_file, pair_beside, pair_cmd, pair_skewed, pair_codes, pair_runs,
                   pair_told, pair_meant>>

ClockSet ==
    /\ pair_skewed /\ pair_cmd = NoCommand
    /\ pair_skewed' = FALSE
    /\ UNCHANGED <<pair_file, pair_beside, pair_cmd, pair_live, pair_codes, pair_runs, pair_faults,
                   pair_told, pair_apart, pair_meant>>

PairNext ==
    \/ \E key \in {"old key", "new key"} : Login(key)
    \/ \E key \in {"voice key", Unset} : VoiceKey(key)
    \/ Logout \/ Pair \/ PairForget
    \/ WritesWhole \/ Renames
    \/ Looks \/ Drops \/ Makes \/ Saves \/ Clears
    \/ \E arrives, heard \in BOOLEAN : Revokes(arrives, heard) \/ Provisions(arrives, heard)
    \/ CutOff \/ ClockSet
    \/ \E relay \in PairRelays : Redeployed(relay)

-----------------------------------------------------------------------------
(* What the commands promise. *)

\* A hub that answers to a code is one this machine can end, the code being in
\* its file or on its way there: pairing anew, forgetting, logging out and a
\* command cut off anywhere lose none, but for the ones given up by name
\* (`--local`) and one a relay took without this machine hearing of it.
NoHubIsForgotten ==
    \A hub \in pair_live \ pair_apart :
        \/ hub = StoredHub
        \/ pair_cmd.op = "pair" /\ pair_cmd.hub = hub

\* A code in the file is one its relay was told of; and when no command is under
\* way one it still answers to, but for a relay deployed anew, a revocation whose
\* answer was lost, and a command cut off right after it.
StoredIsAccepted ==
    Stored.code # NoCode =>
        /\ StoredHub \in pair_told
        /\ pair_cmd = NoCommand => StoredHub \in pair_live \cup pair_apart

\* Each command leaves the other secrets as they were, wherever it is cut off.
KeysAreKept == Stored.key = pair_meant.key /\ Stored.voice = pair_meant.voice

PairingHolds == NoHubIsForgotten /\ StoredIsAccepted /\ KeysAreKept
=============================================================================
