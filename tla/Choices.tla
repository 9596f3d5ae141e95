------------------------------- MODULE Choices -------------------------------
(***************************************************************************)
(* Choosing a model: the list of models, fetched by a thread and kept in a *)
(* file (ah-core/src/models.rs), the pickers and the way from one to the   *)
(* next (ah/src/tui/picker.rs, ah/src/tui/mod.rs), and favorites, which    *)
(* are in the settings of a window and in a file all windows share.        *)
(* Typing filters: "2" matches m2 alone, "x/y" matches no row.             *)
(***************************************************************************)
EXTENDS Integers, Sequences, SequencesExt, FiniteSets, Functions

CONSTANT ChSteps    \* bound: keys and commands of a behaviour

VARIABLES
    ch_cache,       \* models.json: the models and whether they are older than a day
    ch_list,        \* App::catalogue
    ch_fetching,    \* App::fetching_models
    ch_mail,        \* Msg::Models on its way to the window
    ch_pick,        \* App::picker
    ch_tab,         \* App::model_tab
    ch_model,       \* settings: model.id and the effort
    ch_favs,        \* settings: model.favorites
    ch_file,        \* favorites.toml
    ch_steps,
    ch_for,         \* history: the favorite the person is choosing for
    ch_other        \* history: another window has saved one

ch_models == <<ch_cache, ch_list, ch_fetching, ch_mail>>
ch_kept   == <<ch_model, ch_favs, ch_file>>
ch_vars   == <<ch_models, ch_pick, ch_tab, ch_kept, ch_steps, ch_for, ch_other>>

None == [none |-> TRUE]
NoList == <<"">>
Fetched == <<"m1", "m2">>                     \* what the service lists now
Reasons(list, id) == id = "m2" /\ list # NoList /\ Contains(list, id)
InTab(id, tab) == tab = "image" => id = "m2"  \* m2 draws
TabsOf(rows) == <<"all">> \o (IF rows = <<>> THEN <<>> ELSE <<"text">>) \o (IF Contains(rows, "m2") THEN <<"image">> ELSE <<>>)
Matches(id, query) == query = "" \/ (query = "2" /\ id = "m2")

Names == <<"f", "g", "h">>                    \* the order of the map
Fav(id, effort) == [id |-> id, effort |-> effort]
Put(favs, n, f) == [m \in DOMAIN favs \cup {n} |-> IF m = n THEN f ELSE favs[m]]
Cut(favs, n) == [m \in DOMAIN favs \ {n} |-> favs[m]]
KeysOf(favs) == SelectSeq(Names, LAMBDA n : n \in DOMAIN favs)

\* g comes from a config file and pins an effort or does not.
ChInit ==
    /\ ch_cache \in {None, [models |-> <<"m1">>, old |-> TRUE], [models |-> Fetched, old |-> FALSE]}
    /\ ch_list = NoList /\ ch_fetching = FALSE /\ ch_mail = <<>>
    /\ ch_pick = None /\ ch_tab \in {"all", "image"}
    /\ ch_model = Fav("m1", "off")
    /\ ch_favs \in {"g" :> f : f \in {Fav("m1", ""), Fav("m2", "high")}} /\ ch_file = <<>>
    /\ ch_steps = 0 /\ ch_for = "" /\ ch_other = FALSE

-----------------------------------------------------------------------------
(* The list of models.                                                      *)

\* What the window has once it has looked, and whether that is too old.
Loaded == IF ch_list # NoList THEN ch_list ELSE IF ch_cache # None THEN ch_cache.models ELSE NoList
TooOld == ch_list = NoList /\ (ch_cache = None \/ ch_cache.old)
LoadList == ch_list' = Loaded /\ UNCHANGED ch_cache
\* fetch_models: one thread at a time.
FetchIf(stale) == ch_fetching' = (ch_fetching \/ stale)
NoFetch == UNCHANGED <<ch_list, ch_fetching, ch_cache>>

\* models::fetch on its thread: the file first, then the message.
FetchEnds ==
    /\ ch_fetching /\ ch_mail = <<>>
    /\ \/ ch_mail' = <<Fetched>> /\ ch_cache' = [models |-> Fetched, old |-> FALSE]
       \/ ch_mail' = <<NoList>> /\ UNCHANGED ch_cache
    /\ UNCHANGED <<ch_list, ch_fetching, ch_pick, ch_tab, ch_kept, ch_steps, ch_for, ch_other>>

Results(p) == SelectSeq(p.rows, LAMBDA id : InTab(id, p.tab) /\ Matches(id, p.query))
Current(p) == IF p.sel \in DOMAIN Results(p) THEN Results(p)[p.sel] ELSE ""
\* The row of `id`, or the first.
RowOf(p, id) == IF Contains(Results(p), id) THEN SelectInSeq(Results(p), LAMBDA r : r = id) ELSE 1
Picker(kind, fav, of, query, rows) ==
    [kind |-> kind, fav |-> fav, of |-> of, query |-> query, rows |-> rows, tab |-> "all", sel |-> 1, loading |-> FALSE]

\* open_model_picker, over the list as it is then.
ModelPicker(list, query, fav, stale) ==
    LET rows == IF list = NoList THEN <<>> ELSE list
        p    == [Picker("model", fav, "", query, rows) EXCEPT
                    !.tab = IF Contains(TabsOf(rows), ch_tab) THEN ch_tab ELSE "all", !.loading = stale]
        pre  == IF fav \in DOMAIN ch_favs THEN ch_favs[fav].id ELSE ch_model.id
    IN [p EXCEPT !.sel = IF query = "" THEN RowOf(p, pre) ELSE 1]
OpenModel(query, fav, force) ==
    /\ LoadList /\ FetchIf(force \/ TooOld)
    /\ ch_pick' = ModelPicker(Loaded, query, fav, force \/ TooOld)

\* Mutant of ModelsCome: the picker is made again for no favorite.
ModelsComeForNone ==
    /\ ch_mail # <<>> /\ ch_mail' = <<>> /\ ch_fetching' = FALSE
    /\ LET got == Head(ch_mail)
           open == ch_pick # None /\ ch_pick.kind = "model" IN
       IF got # NoList
       THEN /\ ch_list' = got
            /\ ch_pick' = IF open THEN ModelPicker(got, ch_pick.query, "", FALSE) ELSE ch_pick
       ELSE UNCHANGED <<ch_pick, ch_list>>
    /\ UNCHANGED <<ch_cache, ch_tab, ch_kept, ch_steps, ch_for, ch_other>>

\* Msg::Models: an open model picker is made again over the new list.
ModelsCome ==
    /\ ch_mail # <<>> /\ ch_mail' = <<>> /\ ch_fetching' = FALSE
    /\ LET got == Head(ch_mail)
           open == ch_pick # None /\ ch_pick.kind = "model" IN
       IF got # NoList
       THEN /\ ch_list' = got
            /\ ch_pick' = IF open THEN ModelPicker(got, ch_pick.query, ch_pick.fav, FALSE) ELSE ch_pick
       ELSE /\ ch_pick' = IF open THEN [ch_pick EXCEPT !.loading = FALSE] ELSE ch_pick
            /\ UNCHANGED ch_list
    /\ UNCHANGED <<ch_cache, ch_tab, ch_kept, ch_steps, ch_for, ch_other>>

-----------------------------------------------------------------------------
(* The model in use, and favorites.                                         *)

Switched(id, effort) == Fav(id, IF effort = "" THEN ch_model.effort ELSE effort)
\* set_model; the settings it sends make the window look for the model's size.
SetModel(id, effort) == ch_model' = Switched(id, effort) /\ LoadList /\ FetchIf(TooOld)

\* favorite_index: the favorite that is in use, with its effort if one is, else by model.
IndexOf(favs, cur) ==
    LET keys  == KeysOf(favs)
        exact == {i \in DOMAIN keys : favs[keys[i]].id = cur.id /\ favs[keys[i]].effort \in {"", cur.effort}}
        same  == {i \in DOMAIN keys : favs[keys[i]].id = cur.id}
        first(S) == CHOOSE i \in S : \A j \in S : i <= j
    IN IF exact # {} THEN first(exact) ELSE IF same # {} THEN first(same) ELSE 0
\* cycle_model.
AfterThis(favs, cur) ==
    LET keys == KeysOf(favs) f == favs[keys[(IndexOf(favs, cur) % Len(keys)) + 1]]
    IN Fav(f.id, IF f.effort = "" THEN cur.effort ELSE f.effort)

\* save_favorite: the file is read, changed at one name and written.
SaveFavorite(name, id, effort) ==
    /\ ch_file' = Put(ch_file, name, Fav(id, effort))
    /\ ch_favs' = Put(ch_favs, name, Fav(id, effort))
    /\ SetModel(id, effort)
RenameFavorite(old, new) ==
    IF old = new \/ old \notin DOMAIN ch_favs THEN UNCHANGED <<ch_file, ch_favs>>
    ELSE /\ ch_file' = Put(Cut(ch_file, old), new, ch_favs[old])
         /\ ch_favs' = Put(Cut(ch_favs, old), new, ch_favs[old])
Unfavorite(name) == ch_file' = Cut(ch_file, name) /\ ch_favs' = Cut(ch_favs, name)
Favorites(favs) == [Picker("favorites", "", "", "", Append(KeysOf(favs), "new")) EXCEPT
                       !.sel = IF IndexOf(favs, ch_model) = 0 THEN 1 ELSE IndexOf(favs, ch_model)]
EffortPicker(id, fav) ==
    LET now == IF fav \in DOMAIN ch_favs /\ ch_favs[fav].effort # "" THEN ch_favs[fav].effort ELSE ch_model.effort
    IN [Picker("effort", fav, id, "", <<"off", "high">>) EXCEPT !.sel = IF now = "high" THEN 2 ELSE 1]
NamePicker(old) == Picker("name", "", old, old, <<>>)

\* pick_model: a model that reasons asks for the effort first.
PickModel(id, fav) ==
    IF Reasons(Loaded, id)
    THEN ch_pick' = EffortPicker(id, fav) /\ LoadList /\ UNCHANGED <<ch_fetching, ch_kept, ch_for>>
    ELSE /\ ch_pick' = None /\ ch_for' = ""
         /\ IF fav # "" THEN SaveFavorite(fav, id, "off") ELSE SetModel(id, "") /\ UNCHANGED <<ch_favs, ch_file>>

-----------------------------------------------------------------------------
(* Keys and commands.                                                       *)

Key == ch_steps < ChSteps /\ ch_steps' = ch_steps + 1 /\ UNCHANGED <<ch_mail, ch_other>>

\* /model, /favorite, /effort and the key that goes to the next favorite.
ChCommand ==
    /\ Key /\ ch_pick = None /\ UNCHANGED ch_tab
    /\ \/ /\ \E force \in BOOLEAN : OpenModel("", "", force)
          /\ UNCHANGED <<ch_kept, ch_for>>
       \/ IF Loaded # NoList /\ Contains(Loaded, "m2")
          THEN PickModel("m2", "")
          ELSE OpenModel("m2", "", FALSE) /\ UNCHANGED <<ch_kept, ch_for>>
       \/ ch_pick' = Favorites(ch_favs) /\ NoFetch /\ UNCHANGED <<ch_kept, ch_for>>
       \/ /\ "f" \notin DOMAIN ch_favs
          /\ OpenModel("", "f", FALSE) /\ ch_for' = "f" /\ UNCHANGED ch_kept
       \/ ch_pick' = EffortPicker("", "") /\ NoFetch /\ UNCHANGED <<ch_kept, ch_for>>
       \/ /\ DOMAIN ch_favs # {}
          /\ LET to == AfterThis(ch_favs, ch_model) IN SetModel(to.id, to.effort)
          /\ UNCHANGED <<ch_pick, ch_favs, ch_file, ch_for>>

\* Leaving the picker says nothing; so does a choice of no row.
ClosePicker == ch_pick' = None /\ ch_for' = "" /\ NoFetch /\ UNCHANGED ch_kept
TabSeen(p) == ch_tab' = IF p.kind = "model" THEN p.tab ELSE ch_tab

\* Picker::key, where it stays open.
Browse ==
    /\ Key /\ ch_pick # None
    /\ LET p == ch_pick IN
       \/ \E i \in {p.sel - 1, p.sel + 1} \cap DOMAIN Results(p) : ch_pick' = [p EXCEPT !.sel = i] /\ TabSeen(p)
       \/ /\ p.kind \in {"model", "name"}
          /\ \E q \in (IF p.kind = "model" THEN {"", "2", "x/y"} ELSE {"", "f", "g"}) \ {p.query} :
                ch_pick' = [p EXCEPT !.query = q, !.sel = 1] /\ TabSeen(p)
       \/ /\ p.kind = "model" /\ Len(TabsOf(p.rows)) > 1
          /\ LET tabs == TabsOf(p.rows) IN
             \E d \in {1, Len(tabs) - 1} :
                LET q == [p EXCEPT !.tab = tabs[((SelectInSeq(tabs, LAMBDA t : t = p.tab) - 1 + d) % Len(tabs)) + 1]]
                IN ch_pick' = [q EXCEPT !.sel = RowOf(q, Current(p))] /\ TabSeen(q)
    /\ NoFetch /\ UNCHANGED <<ch_kept, ch_for>>

\* picker_key with Enter.
Accept ==
    /\ Key /\ ch_pick # None
    /\ LET p == ch_pick row == Current(p) IN
       /\ TabSeen(p)
       /\ CASE p.kind = "model" ->
                 LET id == IF row = "" /\ p.query = "x/y" THEN p.query ELSE row IN
                 IF id = "" THEN ClosePicker ELSE PickModel(id, p.fav)
            [] p.kind = "effort" ->
                 /\ ch_pick' = None /\ ch_for' = ""
                 /\ IF p.fav # "" THEN SaveFavorite(p.fav, p.of, row)
                    ELSE SetModel(IF p.of = "" THEN ch_model.id ELSE p.of, row) /\ UNCHANGED <<ch_favs, ch_file>>
            [] p.kind = "favorites" /\ row = "new" -> ch_pick' = NamePicker("") /\ NoFetch /\ UNCHANGED <<ch_kept, ch_for>>
            [] p.kind = "favorites" /\ row # "new" ->
                 /\ ch_pick' = None /\ UNCHANGED <<ch_favs, ch_file, ch_for>>
                 /\ SetModel(ch_favs[row].id, ch_favs[row].effort)
            [] p.kind = "name" /\ p.query = "" -> ch_pick' = NamePicker(p.of) /\ NoFetch /\ UNCHANGED <<ch_kept, ch_for>>
            [] p.kind = "name" /\ p.query # "" /\ p.of # "" ->
                 /\ ch_pick' = None /\ RenameFavorite(p.of, p.query) /\ LoadList /\ FetchIf(TooOld)
                 /\ UNCHANGED <<ch_model, ch_for>>
            [] OTHER -> OpenModel("", p.query, FALSE) /\ ch_for' = p.query /\ UNCHANGED ch_kept

\* picker_shortcut, and Esc.
Shortcut ==
    /\ Key /\ ch_pick # None
    /\ LET p == ch_pick row == Current(p) fav == p.kind = "favorites" /\ row \notin {"", "new"} IN
       /\ TabSeen(p)
       /\ \/ ClosePicker
          \/ p.kind = "model" /\ OpenModel(p.query, p.fav, TRUE) /\ UNCHANGED <<ch_kept, ch_for>>
          \/ p.kind = "favorites" /\ ch_pick' = NamePicker("") /\ NoFetch /\ UNCHANGED <<ch_kept, ch_for>>
          \/ fav /\ OpenModel("", row, FALSE) /\ ch_for' = row /\ UNCHANGED ch_kept
          \/ fav /\ ch_pick' = EffortPicker(ch_favs[row].id, row) /\ ch_for' = row /\ NoFetch /\ UNCHANGED ch_kept
          \/ fav /\ ch_pick' = NamePicker(row) /\ NoFetch /\ UNCHANGED <<ch_kept, ch_for>>
          \/ /\ fav /\ Unfavorite(row) /\ ch_pick' = Favorites(Cut(ch_favs, row))
             /\ LoadList /\ FetchIf(TooOld) /\ UNCHANGED <<ch_model, ch_for>>

\* Another window saves a favorite: the file is all it shares with this one.
OtherSaves ==
    /\ ~ch_other /\ ch_other' = TRUE /\ ch_file' = Put(ch_file, "h", Fav("m1", "off"))
    /\ UNCHANGED <<ch_models, ch_pick, ch_tab, ch_model, ch_favs, ch_steps, ch_for>>

ChNext == FetchEnds \/ ModelsCome \/ ChCommand \/ Browse \/ Accept \/ Shortcut \/ OtherSaves

-----------------------------------------------------------------------------
(* Properties.                                                              *)

\* On the way from a favorite's name to its model and its effort the favorite
\* is not lost, whatever list arrives meanwhile (handle, picker_key,
\* pick_model); and a row that is highlighted is one that is shown.
PicksForIt ==
    ch_pick # None =>
        /\ ch_pick.kind \in {"model", "effort"} => ch_pick.fav = ch_for
        /\ Results(ch_pick) # <<>> => ch_pick.sel \in DOMAIN Results(ch_pick)
        /\ ch_pick.loading => ch_fetching
\* What another window put in the file stays there (save_favorite,
\* rename_favorite, unfavorite).
OthersKept == ch_other => "h" \in DOMAIN ch_file /\ ch_file["h"] = Fav("m1", "off")
\* Going to the next favorite comes to every one of them, where each pins an
\* effort and no two are the same (favorite_index, cycle_model).
CycleComesRound ==
    LET favs == ch_favs
        Walk[n \in 0..3] == IF n = 0 THEN AfterThis(favs, ch_model) ELSE AfterThis(favs, Walk[n - 1])
    IN (favs # <<>> /\ (\A n \in DOMAIN favs : favs[n].effort # "") /\ IsInjective(favs)) =>
           Range(favs) \subseteq {Walk[n] : n \in 0..3}
ChoicesHold == PicksForIt /\ OthersKept /\ CycleComesRound
=============================================================================
