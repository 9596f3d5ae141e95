------------------------------- MODULE Plugins -------------------------------
(***************************************************************************)
(* Plugins: installing one from a repository and bringing it up to date    *)
(* (ah/src/plugin_source.rs, ah/src/cli.rs), loading what is found on disk *)
(* (PluginHost in ah-core/src/plugins.rs), the state a plugin keeps, and   *)
(* the patches of the last load, kept for the first frame of the next      *)
(* launch.  The plugin is the theme plugin (plugins/themes): it remembers  *)
(* the palette chosen with /theme.  What the engine thread answers is      *)
(* taken by the window at once; the messages between are in Settings.      *)
(***************************************************************************)
EXTENDS Naturals, Sequences, SequencesExt, FiniteSets

CONSTANTS
    PlugWindows,    \* windows on one machine
    PlugSteps,      \* bound: what the person does
    PlugTrust       \* plugins.trust_project, with a plugin of the same name there

VARIABLES
    plug_repo,      \* the newest commit of the repository
    plug_file,      \* the commit the installed module was built from, 0: none
    plug_source,    \* sources.json: the commit it says, 0: no entry
    plug_tool,      \* `ah plugin`, while it runs
    plug_config,    \* the theme the config file says
    plug_kv,        \* the plugin's state file
    plug_cache,     \* plugin-cache.json
    plug_win,
    plug_steps,
    plug_agreed,    \* history: commits the person installed or agreed to
    plug_loads,     \* history: what loads came to, for which inputs
    plug_choice     \* history: the last palette chosen, and that no two windows were open since

plug_disk == <<plug_repo, plug_file, plug_source, plug_tool, plug_agreed>>
plug_kept == <<plug_config, plug_kv, plug_cache>>
plug_vars == <<plug_disk, plug_kept, plug_win, plug_steps, plug_loads, plug_choice>>

Palettes == {"nord", "mono"}
NoTool == [st |-> "none"]
NoCache == [key |-> <<>>]
Closed == [st |-> "off"]

PlugInit ==
    /\ plug_repo = 1 /\ plug_file = 0 /\ plug_source = 0 /\ plug_tool = NoTool
    /\ plug_config = "plain" /\ plug_kv = [active |-> "", base |-> ""] /\ plug_cache = NoCache
    /\ plug_win = [w \in PlugWindows |-> Closed]
    /\ plug_steps = 0 /\ plug_agreed = {} /\ plug_loads = {} /\ plug_choice = [name |-> "", sure |-> TRUE]

Person == plug_steps < PlugSteps /\ plug_steps' = plug_steps + 1

-----------------------------------------------------------------------------
(* Installing and updating.                                                 *)

AuthorPushes == plug_repo = 1 /\ plug_repo' = 2
                /\ UNCHANGED <<plug_file, plug_source, plug_tool, plug_agreed, plug_kept, plug_win, plug_steps, plug_loads, plug_choice>>

\* install_from, install and clone.  What is cloned is the newest commit; an
\* update to one the record does not say is asked about, and refused where
\* there is nobody to ask.  `rm` deletes the module first.
AgreedToMove(yes) == plug_source = plug_repo \/ yes
Clones(update, yes) ==
    /\ update => plug_source # 0 /\ AgreedToMove(yes)
    /\ plug_tool' = [st |-> "cloned", commit |-> plug_repo]
    /\ plug_agreed' = IF ~update \/ yes THEN plug_agreed \cup {plug_repo} ELSE plug_agreed
    /\ UNCHANGED plug_file
PluginTool ==
    /\ Person /\ plug_tool = NoTool
    /\ \/ \E update, yes \in BOOLEAN : Clones(update, yes)
       \/ /\ plug_file # 0 /\ plug_file' = 0
          /\ plug_tool' = [st |-> "copied", commit |-> 0]
          /\ UNCHANGED plug_agreed
    /\ UNCHANGED <<plug_repo, plug_source, plug_kept, plug_win, plug_loads, plug_choice>>
\* The module is copied, then the record saved; either may not come to pass.
ToolGoesOn ==
    /\ plug_tool # NoTool
    /\ \/ plug_tool' = NoTool /\ UNCHANGED <<plug_file, plug_source>>
       \/ /\ plug_tool.st = "cloned" /\ plug_file' = plug_tool.commit
          /\ plug_tool' = [plug_tool EXCEPT !.st = "copied"] /\ UNCHANGED plug_source
       \/ /\ plug_tool.st = "copied" /\ plug_source' = plug_tool.commit
          /\ plug_tool' = NoTool /\ UNCHANGED plug_file
    /\ UNCHANGED <<plug_repo, plug_agreed, plug_kept, plug_win, plug_steps, plug_loads, plug_choice>>

-----------------------------------------------------------------------------
(* The cache of the last load, and a load.                                  *)

\* cache::key: the modules' files and the settings they are shown.
KeyOf(theme) == <<plug_file, theme>>
Seen(cfg, patch) == IF patch = "" THEN cfg ELSE patch
Open(w) == plug_win[w] # Closed
OthersOpen(w) == \E v \in PlugWindows \ {w} : Open(v)
Unsure(w) == [plug_choice EXCEPT !.sure = @ /\ ~OthersOpen(w)]

\* cache::read, for the settings of the files.
CacheRead == IF plug_cache # NoCache /\ plug_cache.key = KeyOf(plug_config) THEN plug_cache.patch ELSE ""

\* run_inner: the guess is a layer of the settings the engine starts with.
StartWindow(w) ==
    /\ Person /\ ~Open(w)
    /\ plug_win' = [plug_win EXCEPT ![w] =
           [st |-> "opened", cfg |-> plug_config, layer |-> CacheRead, guess |-> CacheRead, key |-> KeyOf(plug_config)]]
    /\ plug_choice' = Unsure(w)
    /\ UNCHANGED <<plug_disk, plug_kept, plug_loads>>

\* discover and load_file: the person's own directory, then the project's if
\* it is trusted; a name is taken once.
Discovered == (IF plug_file = 0 THEN <<>> ELSE <<[of |-> "mine", commit |-> plug_file]>>)
              \o IF PlugTrust THEN <<[of |-> "theirs", commit |-> 0]>> ELSE <<>>
Host(files) == SubSeq(files, 1, IF Len(files) > 1 THEN 1 ELSE Len(files))
\* kv_set of a plugin: in its own copy, the whole of which is written out.
KvSet(kv, key, value) == [kv EXCEPT ![key] = value]
\* cache::write, through a temporary file.
CacheWritten(shown, patch) == plug_cache' = [key |-> KeyOf(shown), patch |-> patch]
\* on_load of the theme plugin: what it is shown is the base, the palette it
\* remembers is the patch.
ThemeOnLoad(shown) == KvSet(plug_kv, "base", shown)
LoadPlugins(w) ==
    /\ Open(w) /\ plug_win[w].st = "opened"
    /\ LET win   == plug_win[w]
           shown == Seen(win.cfg, win.layer)
           host  == Host(Discovered)
           kv    == ThemeOnLoad(shown)
           \* Its on_load may break, and is off from then on.
       IN \E works \in IF host = <<>> THEN {FALSE} ELSE BOOLEAN :
            LET patch == IF works THEN kv.active ELSE "" IN
            /\ plug_win' = [plug_win EXCEPT ![w] =
                   [st |-> "loaded", cfg |-> win.cfg, layer |-> patch, host |-> host,
                    kv |-> IF works THEN kv ELSE plug_kv, works |-> works, off |-> FALSE]]
            /\ plug_kv' = IF works THEN kv ELSE plug_kv
            /\ CacheWritten(shown, patch)
            /\ plug_loads' = plug_loads \cup {<<KeyOf(shown), patch>>}
    /\ plug_choice' = Unsure(w)
    /\ UNCHANGED <<plug_disk, plug_config, plug_steps>>

\* /reload: the files are read again, without what plugins said.
PlugReload(w) ==
    /\ Person /\ Open(w) /\ plug_win[w].st = "loaded"
    /\ plug_win' = [plug_win EXCEPT ![w] = [st |-> "opened", cfg |-> plug_config, layer |-> "", guess |-> "", key |-> <<>>]]
    /\ UNCHANGED <<plug_disk, plug_kept, plug_loads, plug_choice>>

\* /theme: the plugin keeps the whole of its state in its own copy, which is
\* written out.  A hook that breaks is off for the session.
Theme(w) ==
    /\ Person /\ Open(w) /\ plug_win[w].st = "loaded"
    /\ LET win == plug_win[w] IN
       /\ win.host # <<>> /\ ~win.off
       /\ \/ \E p \in Palettes \cup {""} :
                /\ plug_win' = [plug_win EXCEPT ![w].kv.active = p, ![w].layer = IF p = "" THEN win.kv.base ELSE p]
                /\ plug_kv' = KvSet(win.kv, "active", p)
                /\ plug_choice' = [name |-> p, sure |-> ~OthersOpen(w)]
          \/ /\ plug_win' = [plug_win EXCEPT ![w].off = TRUE]
             /\ UNCHANGED <<plug_kv, plug_choice>>
    /\ UNCHANGED <<plug_disk, plug_config, plug_cache, plug_loads>>

Close(w) == Person /\ Open(w) /\ plug_win' = [plug_win EXCEPT ![w] = Closed]
            /\ UNCHANGED <<plug_disk, plug_kept, plug_loads, plug_choice>>
EditConfig == Person /\ plug_config = "plain" /\ plug_config' = "loud"
              /\ UNCHANGED <<plug_disk, plug_kv, plug_cache, plug_win, plug_loads, plug_choice>>

PlugNext ==
    \/ AuthorPushes \/ PluginTool \/ ToolGoesOn \/ EditConfig
    \/ \E w \in PlugWindows : StartWindow(w) \/ LoadPlugins(w) \/ PlugReload(w) \/ Theme(w) \/ Close(w)
PlugSpec == PlugInit /\ [][PlugNext]_plug_vars

-----------------------------------------------------------------------------
(* Properties.                                                              *)

\* No window runs a commit of the plugin the person neither installed nor
\* agreed to, however installs and updates are cut short (agreed_to_move).
AgreedTo ==
    /\ plug_file # 0 => plug_file \in plug_agreed
    /\ \A w \in PlugWindows : plug_win[w].st = "loaded" =>
           \A i \in DOMAIN plug_win[w].host : plug_win[w].host[i].of = "mine" => plug_win[w].host[i].commit \in plug_agreed
\* What is painted before the plugins are loaded is what a load of the same
\* files came to, shown the same settings (plugins::cache).
GuessIsALoad ==
    \A w \in PlugWindows : plug_win[w].st = "opened" /\ plug_win[w].guess # "" =>
        <<plug_win[w].key, plug_win[w].guess>> \in plug_loads
\* With one window at a time, the palette chosen last is the one a load brings
\* back (kv_set, on_load of the theme plugin).
ChoiceIsKept ==
    \A w \in PlugWindows : plug_win[w].st = "loaded" /\ plug_choice.sure /\ plug_win[w].works =>
        /\ plug_win[w].kv.active = plug_choice.name /\ plug_kv.active = plug_choice.name
        /\ plug_choice.name # "" => plug_win[w].layer = plug_choice.name
PluginsHold == AgreedTo /\ GuessIsALoad /\ ChoiceIsKept
=============================================================================
