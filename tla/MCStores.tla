---------------------------- MODULE MCStores ----------------------------
(* The components that keep files for the windows, one at a time: `focus` is   *)
(* the one that acts, and the variables of the others stay what they are.      *)
EXTENDS Naturals, Sequences, FiniteSets, TLC, HtmlPreviews

CONSTANTS f1, f2, t1, o1, o2, v1, v2

VARIABLES
  focus,  \* the component that acts
  \* RecentFiles
  disk, present, pending, outcomes, serial, menu, win, applied, unsure, faults,
  \* SearchIndex
  files, root, active, watch, events, generation, ops, begun, answer, changes, faultsIndex,
  \* WorkspaceEntries
  diskEntries, bin, grants, opEntries, answerEntries, touched, removed, misread, leftEntries,
  \* ResourceStore
  dirs, path, blocked, source, current, opResources, leaked, leftResources,
  \* AnchoredFiles
  at, size, opAnchored, been, leftAnchored,
  \* WorkspaceSearch
  docs, built, asked, reply,
  \* WorkspaceListing
  tree, rootListing, currentListing, opListing, result, used,
  \* ExcalidrawScene
  scene, verdict,
  \* ExportStore
  folder, opExports, answerExports, unsureExports, usedExports,
  \* AssetResolution
  leads, holds, note, grantedAssets, scope, opAssets, answerAssets, usedAssets

\* A workspace "root" with a document two directories down, and outside it a directory whose
\* name is that of the directories within, with another file: a path within the workspace
\* leads to it once a directory, or the file, has been moved there.
Tree == [i \in {"top", "root", "sub", "deep", "out", "doc", "other", "link"} |->
  CASE i = "root" -> [dir |-> "top", name |-> "r"] [] i = "sub" -> [dir |-> "root", name |-> "d"]
    [] i = "deep" -> [dir |-> "sub", name |-> "d"] [] i = "out" -> [dir |-> "top", name |-> "d"]
    [] i = "doc" -> [dir |-> "deep", name |-> "f"] [] i = "other" -> [dir |-> "out", name |-> "f"]
    [] OTHER -> None]

\* Files whose paths fold alike, are out of order, invalid or too large, and texts with
\* letters that fold to more.
SearchPath(place, exact, stem) ==
  [at |-> place, exact |-> exact, stem |-> stem, kind |-> "markdown",
   folded |-> IF place = 3 THEN <<"a", "s">> \o stem ELSE stem]
SearchFiles ==
  {[path |-> SearchPath(1, 1, <<"a">>), text |-> <<"sharp", "a">>],
   [path |-> SearchPath(1, 1, <<"a">>), text |-> <<"a">>],
   [path |-> SearchPath(1, 2, <<"a">>), text |-> <<"a", "newline", "a", "s", "s">>],
   [path |-> SearchPath(2, 1, <<"a", "s">>), text |-> <<"newline", "sharp", "a">>],
   [path |-> SearchPath(3, 1, <<"s", "a">>), text |-> <<"s">>],
   [path |-> SearchPath(3, 2, <<"s", "a">>), text |-> <<"sharp", "sharp", "sharp">>],
   [path |-> [SearchPath(2, 2, <<"a", "s">>) EXCEPT !.kind = "invalid"], text |-> <<>>],
   [path |-> [SearchPath(0, 1, <<"a">>) EXCEPT !.kind = "unsupported"], text |-> <<>>]}
SearchQueries ==
  {[kind |-> "filename", terms |-> <<<<"a">>>>], [kind |-> "text", terms |-> <<<<"s", "s">>>>],
   [kind |-> "text", terms |-> <<<<"a">>, <<"s">>>>], [kind |-> "text", terms |-> <<>>]}

\* Directories with files, a link that leads to an excluded one, a link to the outside and
\* something that is neither.
ListedPaths ==
  {<<"a">>, <<"b">>, <<"node">>, <<"a", "f">>, <<"a", "u">>, <<"b", "f">>, <<"node", "f">>}
Plain(kind) == [kind |-> kind, to |-> None]
Leads(p) == [kind |-> "link", to |-> p]
ListedTrees ==
  LET with == [p \in ListedPaths |-> Plain("none")]
  IN  {(<<"a">> :> Plain("directory") @@ <<"a", "f">> :> Plain("file") @@ <<"a", "u">> :> Plain("file")
        @@ <<"b">> :> Leads(<<"node">>) @@ <<"node">> :> Plain("directory")
        @@ <<"node", "f">> :> Plain("file")) @@ with,
       (<<"a">> :> Plain("directory") @@ <<"a", "f">> :> Leads(<<"outside">>)
        @@ <<"b">> :> Plain("directory") @@ <<"b", "f">> :> Plain("file")) @@ with,
       (<<"a">> :> Plain("other") @@ <<"b">> :> Plain("file") @@ <<"node">> :> Plain("file")) @@ with}

\* Two elements, what they may say of each other, and what is wrong in itself.
Element(id, type, bound) ==
  [id |-> id, type |-> type, bound |-> bound, container |-> None, start |-> None, end |-> None,
   deleted |-> FALSE, label |-> FALSE, points |-> <<1, 2>>]
Bound(id, type) == [id |-> id, type |-> type]
SceneElements ==
  LET one(type) == {<<>>, <<Bound("x", type)>>, <<Bound("y", type)>>}
      ends == {None, "x", "y"}
      shapes == {Element("x", "rectangle", b) :
                   b \in one("text") \cup one("arrow")
                        \cup {<<Bound("y", "arrow"), Bound("y", "arrow")>>,
                              <<Bound("y", "text"), Bound("y", "arrow")>>, <<Bound("y", "line")>>}}
      texts == {[Element(id, "text", b) EXCEPT !.container = c] :
                  id \in {"x", "y"}, b \in {<<>>, <<Bound("x", "text")>>, <<Bound("y", "text")>>}, c \in ends}
      arrows == {[Element("y", "arrow", b) EXCEPT !.start = s, !.end = e] :
                   b \in one("arrow"), s \in ends, e \in ends}
      lines == {[Element("x", "line", <<>>) EXCEPT !.points = p] : p \in {<<1>>, <<1, 1>>, <<1, 2, 1>>}}
  IN  shapes \cup texts \cup arrows \cup lines
        \cup {[Element("y", "arrow", <<>>) EXCEPT !.start = "x", !.deleted = TRUE],
              [Element("x", "rectangle", <<Bound("y", "arrow")>>) EXCEPT !.deleted = TRUE],
              Element(None, "rectangle", <<>>), Element("x", "unsupported", <<>>),
              [Element("y", "rectangle", <<>>) EXCEPT !.label = TRUE]}

\* Images and drawings by the note, in the workspace and elsewhere.
AssetFiles ==
  {[place |-> p, kind |-> k] : p \in {"note", "workspace", "elsewhere"}, k \in {"image", "excalidraw"}}
AssetContents ==
  [f \in AssetFiles |->
     CASE f.kind = "image" \/ f.place = "note" -> "sound"
       [] f.place = "workspace" -> "unsound" [] OTHER -> "directory"]

Recent == INSTANCE RecentFiles WITH
  Files <- {f1, f2}, MaxRecent <- 2, MaxPending <- 1, MaxTerminal <- 1, Checks <- 3, MaxOps <- 4,
  MaxFaults <- 2
recentVars == <<disk, present, pending, outcomes, serial, menu, win, applied, unsure, faults>>
NoRecent == disk = 0 /\ present = 0 /\ pending = 0 /\ outcomes = 0 /\ serial = 0 /\ menu = 0 /\ win = 0
    /\ applied = 0 /\ unsure = 0 /\ faults = 0

Index == INSTANCE SearchIndex WITH
  Docs <- {f1, f2}, Texts <- {t1}, Ops <- {o1, o2}, MaxPasses <- 1, MaxOps <- 3, MaxChanges <- 1,
  MaxFaults <- 1, faults <- faultsIndex
indexVars == <<files, root, active, watch, events, generation, ops, begun, answer, changes, faultsIndex>>
NoIndex == files = 0 /\ root = 0 /\ active = 0 /\ watch = 0 /\ events = 0 /\ generation = 0 /\ ops = 0
    /\ begun = 0 /\ answer = 0 /\ changes = 0 /\ faultsIndex = 0

Entries == INSTANCE WorkspaceEntries WITH
  Names <- {f1, f2}, MaxSlot <- 1, MaxOps <- 2, MaxFaults <- 1, MaxForeign <- 1, disk <- diskEntries,
  op <- opEntries, answer <- answerEntries, left <- leftEntries
entriesVars == <<diskEntries, bin, grants, opEntries, answerEntries, touched, removed, misread, leftEntries>>
NoEntries == diskEntries = 0 /\ bin = 0 /\ grants = 0 /\ opEntries = 0 /\ answerEntries = 0 /\ touched = 0
    /\ removed = 0 /\ misread = 0 /\ leftEntries = 0

\* The previews, where another component acts.
NoPreviews == Init

Resources == INSTANCE ResourceStore WITH
  Versions <- {v1, v2}, MaxDirs <- 2, MaxOps <- 3, MaxFaults <- 2, MaxForeign <- 1,
  op <- opResources, left <- leftResources
resourcesVars == <<dirs, path, blocked, source, current, opResources, leaked, leftResources>>
NoResources == dirs = 0 /\ path = 0 /\ blocked = 0 /\ source = 0 /\ current = 0 /\ opResources = 0
    /\ leaked = 0 /\ leftResources = 0

Anchored == INSTANCE AnchoredFiles WITH
  Dirs <- {"top", "root", "sub", "deep", "out"}, Files <- {"doc", "other"}, Links <- {"link"},
  Names <- {"r", "d", "f"}, Top <- "top", Granted <- "root", GrantedFile <- "doc",
  GrantedPath <- <<"r">>, LinkTo <- <<"d">>, Start <- Tree, Limit <- 1, MaxSize <- 2, MaxOps <- 1,
  MaxForeign <- 2, op <- opAnchored, left <- leftAnchored
anchoredVars == <<at, size, opAnchored, been, leftAnchored>>
NoAnchored == at = 0 /\ size = 0 /\ opAnchored = 0 /\ been = 0 /\ leftAnchored = 0

Search == INSTANCE WorkspaceSearch WITH
  Files <- SearchFiles, Queries <- SearchQueries, Stops <- {None, 0, 2}, MaxFiles <- 2,
  MaxFileBytes <- 6, MaxBytes <- 9, MaxResults <- 2, MaxSnippet <- 3, MaxDocs <- 3
searchVars == <<docs, built, asked, reply>>
NoSearch == docs = 0 /\ built = 0 /\ asked = 0 /\ reply = 0

Listing == INSTANCE WorkspaceListing WITH
  Paths <- ListedPaths, Trees <- ListedTrees, Excluded <- {"node"}, Unclassified <- {"u"},
  MaxEntries <- 3, MaxChanges <- 1, MaxForeign <- 2, Outside <- <<"outside">>, root <- rootListing,
  current <- currentListing, op <- opListing
listingVars == <<tree, rootListing, currentListing, opListing, result, used>>
NoListing == tree = 0 /\ rootListing = 0 /\ currentListing = 0 /\ opListing = 0 /\ result = 0 /\ used = 0

Scenes == INSTANCE ExcalidrawScene WITH
  Elements <- SceneElements, MaxElements <- 2
scenesVars == <<scene, verdict>>
NoScenes == scene = 0 /\ verdict = 0

Exports == INSTANCE ExportStore WITH
  Names <- <<"scene", "svg", "png">>, MaxCalls <- 2, MaxFaults <- 1, MaxForeign <- 2,
  op <- opExports, answer <- answerExports, unsure <- unsureExports, used <- usedExports
exportsVars == <<folder, opExports, answerExports, unsureExports, usedExports>>
NoExports == folder = 0 /\ opExports = 0 /\ answerExports = 0 /\ unsureExports = 0 /\ usedExports = 0

Assets == INSTANCE AssetResolution WITH
  Files <- AssetFiles, Contents <- AssetContents, MaxOps <- 1, MaxFaults <- 2, MaxForeign <- 1,
  granted <- grantedAssets, op <- opAssets, answer <- answerAssets, used <- usedAssets
assetsVars == <<leads, holds, note, grantedAssets, scope, opAssets, answerAssets, usedAssets>>
NoAssets == leads = 0 /\ holds = 0 /\ note = 0 /\ grantedAssets = 0 /\ scope = 0 /\ opAssets = 0
    /\ answerAssets = 0 /\ usedAssets = 0

StoresVars == <<focus, recentVars, indexVars, entriesVars, vars, resourcesVars, anchoredVars, searchVars,
          listingVars, scenesVars, exportsVars, assetsVars>>

ASSUME MCStoresConstants ==
  /\ Recent!RecentConstants
  /\ Index!IndexConstants
  /\ Entries!EntriesConstants
  /\ Resources!ResourceConstants
  /\ Anchored!AnchoredConstants
  /\ Search!SearchConstants
  /\ Listing!ListingConstants
  /\ Scenes!SceneConstants
  /\ Exports!ExportConstants
  /\ Assets!AssetConstants

StoresInit ==
  \/ focus = "Recent" /\ Recent!Init /\ NoIndex /\ NoEntries /\ NoPreviews /\ NoResources
     /\ NoAnchored /\ NoSearch /\ NoListing /\ NoScenes /\ NoExports /\ NoAssets
  \/ focus = "Index" /\ Index!Init /\ NoRecent /\ NoEntries /\ NoPreviews /\ NoResources
     /\ NoAnchored /\ NoSearch /\ NoListing /\ NoScenes /\ NoExports /\ NoAssets
  \/ focus = "Entries" /\ Entries!Init /\ NoRecent /\ NoIndex /\ NoPreviews /\ NoResources
     /\ NoAnchored /\ NoSearch /\ NoListing /\ NoScenes /\ NoExports /\ NoAssets
  \/ focus = "Previews" /\ Init /\ NoRecent /\ NoIndex /\ NoEntries /\ NoResources /\ NoAnchored
     /\ NoSearch /\ NoListing /\ NoScenes /\ NoExports /\ NoAssets
  \/ focus = "Resources" /\ Resources!Init /\ NoRecent /\ NoIndex /\ NoEntries /\ NoPreviews
     /\ NoAnchored /\ NoSearch /\ NoListing /\ NoScenes /\ NoExports /\ NoAssets
  \/ focus = "Anchored" /\ Anchored!Init /\ NoRecent /\ NoIndex /\ NoEntries /\ NoPreviews
     /\ NoResources /\ NoSearch /\ NoListing /\ NoScenes /\ NoExports /\ NoAssets
  \/ focus = "Search" /\ Search!Init /\ NoRecent /\ NoIndex /\ NoEntries /\ NoPreviews
     /\ NoResources /\ NoAnchored /\ NoListing /\ NoScenes /\ NoExports /\ NoAssets
  \/ focus = "Listing" /\ Listing!Init /\ NoRecent /\ NoIndex /\ NoEntries /\ NoPreviews
     /\ NoResources /\ NoAnchored /\ NoSearch /\ NoScenes /\ NoExports /\ NoAssets
  \/ focus = "Scenes" /\ Scenes!Init /\ NoRecent /\ NoIndex /\ NoEntries /\ NoPreviews
     /\ NoResources /\ NoAnchored /\ NoSearch /\ NoListing /\ NoExports /\ NoAssets
  \/ focus = "Exports" /\ Exports!Init /\ NoRecent /\ NoIndex /\ NoEntries /\ NoPreviews
     /\ NoResources /\ NoAnchored /\ NoSearch /\ NoListing /\ NoScenes /\ NoAssets
  \/ focus = "Assets" /\ Assets!Init /\ NoRecent /\ NoIndex /\ NoEntries /\ NoPreviews
     /\ NoResources /\ NoAnchored /\ NoSearch /\ NoListing /\ NoScenes /\ NoExports

RecentDoes(A) == focus = "Recent" /\ A /\ UNCHANGED <<focus, indexVars, entriesVars, vars, resourcesVars, anchoredVars, searchVars, listingVars,
    scenesVars, exportsVars, assetsVars>>
IndexDoes(A) == focus = "Index" /\ A /\ UNCHANGED <<focus, recentVars, entriesVars, vars, resourcesVars, anchoredVars, searchVars, listingVars,
    scenesVars, exportsVars, assetsVars>>
EntriesDoes(A) == focus = "Entries" /\ A /\ UNCHANGED <<focus, recentVars, indexVars, vars, resourcesVars, anchoredVars, searchVars, listingVars,
    scenesVars, exportsVars, assetsVars>>
PreviewsDoes(A) == focus = "Previews" /\ A /\ UNCHANGED <<focus, recentVars, indexVars, entriesVars, resourcesVars, anchoredVars, searchVars, listingVars,
    scenesVars, exportsVars, assetsVars>>
ResourcesDoes(A) == focus = "Resources" /\ A /\ UNCHANGED <<focus, recentVars, indexVars, entriesVars, vars, anchoredVars, searchVars, listingVars,
    scenesVars, exportsVars, assetsVars>>
AnchoredDoes(A) == focus = "Anchored" /\ A /\ UNCHANGED <<focus, recentVars, indexVars, entriesVars, vars, resourcesVars, searchVars, listingVars,
    scenesVars, exportsVars, assetsVars>>
SearchDoes(A) == focus = "Search" /\ A /\ UNCHANGED <<focus, recentVars, indexVars, entriesVars, vars, resourcesVars, anchoredVars, listingVars,
    scenesVars, exportsVars, assetsVars>>
ListingDoes(A) == focus = "Listing" /\ A /\ UNCHANGED <<focus, recentVars, indexVars, entriesVars, vars, resourcesVars, anchoredVars, searchVars,
    scenesVars, exportsVars, assetsVars>>
ScenesDoes(A) == focus = "Scenes" /\ A /\ UNCHANGED <<focus, recentVars, indexVars, entriesVars, vars, resourcesVars, anchoredVars, searchVars,
    listingVars, exportsVars, assetsVars>>
ExportsDoes(A) == focus = "Exports" /\ A /\ UNCHANGED <<focus, recentVars, indexVars, entriesVars, vars, resourcesVars, anchoredVars, searchVars,
    listingVars, scenesVars, assetsVars>>
AssetsDoes(A) == focus = "Assets" /\ A /\ UNCHANGED <<focus, recentVars, indexVars, entriesVars, vars, resourcesVars, anchoredVars, searchVars,
    listingVars, scenesVars, exportsVars>>

StoresNext ==
  \/ RecentDoes(\E w \in Windows, f \in {f1, f2} : Recent!PrepareOpen(w, f))
  \/ RecentDoes(\E w \in Windows, e \in Recent!Range(menu) : Recent!PrepareRecent(w, e))
  \/ RecentDoes(\E w \in Windows : Recent!CommitOpen(w))
  \/ RecentDoes(\E w \in Windows : Recent!CommitUnknown(w))
  \/ RecentDoes(\E w \in Windows : Recent!AskStatus(w))
  \/ RecentDoes(\E w \in Windows : Recent!Discard(w))
  \/ RecentDoes(\E w \in Windows : Recent!CloseWindow(w))
  \/ RecentDoes(\E e \in Recent!Range(menu) : Recent!RemoveRecent(e))
  \/ RecentDoes(\E f \in {f1, f2} : Recent!Change(f))
  \/ RecentDoes(Recent!ClearRecent)
  \/ RecentDoes(Recent!ListRecent)
  \/ RecentDoes(Recent!Expire)
  \/ RecentDoes(Recent!Restart)
  \/ IndexDoes(Index!Change)
  \/ IndexDoes(Index!SwapRoot)
  \/ IndexDoes(Index!Overflow)
  \/ IndexDoes(Index!Deliver)
  \/ IndexDoes(Index!BeginRebuild)
  \/ IndexDoes(Index!CreateWatch)
  \/ IndexDoes(Index!WatchFails)
  \/ IndexDoes(Index!KeepWatch)
  \/ IndexDoes(Index!Read)
  \/ IndexDoes(Index!ReadCancelled)
  \/ IndexDoes(Index!Publish)
  \/ IndexDoes(Index!Compare)
  \/ IndexDoes(Index!BeginQuery)
  \/ IndexDoes(Index!IsCurrent)
  \/ IndexDoes(Index!LookAtRoot)
  \/ IndexDoes(Index!Answer)
  \/ IndexDoes(Index!CancelOperation)
  \/ IndexDoes(Index!Discard)
  \/ IndexDoes(Index!DiscardAll)
  \/ EntriesDoes(Entries!CreateFile)
  \/ EntriesDoes(Entries!CreateDirectory)
  \/ EntriesDoes(Entries!CreateRefused)
  \/ EntriesDoes(Entries!CreateFindsEntry)
  \/ EntriesDoes(Entries!CreateFails)
  \/ EntriesDoes(Entries!CreateSucceeds)
  \/ EntriesDoes(Entries!ReadBack)
  \/ EntriesDoes(Entries!Rename)
  \/ EntriesDoes(Entries!Move)
  \/ EntriesDoes(Entries!RenameSucceeds)
  \/ EntriesDoes(Entries!RenameFails)
  \/ EntriesDoes(Entries!ObserveOld)
  \/ EntriesDoes(Entries!ObserveNew)
  \/ EntriesDoes(Entries!Reconcile)
  \/ EntriesDoes(Entries!ConcludeCreate)
  \/ EntriesDoes(Entries!ConcludeRelocation)
  \/ EntriesDoes(Entries!ConcludeTrash)
  \/ EntriesDoes(Entries!OpenFile)
  \/ EntriesDoes(Entries!Trash)
  \/ EntriesDoes(Entries!Capture)
  \/ EntriesDoes(Entries!Reserve)
  \/ EntriesDoes(Entries!WriteInfo)
  \/ EntriesDoes(Entries!Place)
  \/ EntriesDoes(Entries!PlaceFails)
  \/ EntriesDoes(Entries!Shell)
  \/ EntriesDoes(Entries!ShellFails)
  \/ EntriesDoes(Entries!ObserveSource)
  \/ EntriesDoes(Entries!Verify)
  \/ EntriesDoes(Entries!Foreign)
  \/ EntriesDoes(Entries!Crash)
  \/ PreviewsDoes(PrepareDraft)
  \/ PreviewsDoes(PrepareEmbed)
  \/ PreviewsDoes(Revoke)
  \/ PreviewsDoes(RevokeFails)
  \/ PreviewsDoes(Granted)
  \/ PreviewsDoes(Invalidate)
  \/ PreviewsDoes(RetireDrained)
  \/ PreviewsDoes(Drain)
  \/ PreviewsDoes(CommitDraft)
  \/ PreviewsDoes(CommitEmbed)
  \/ PreviewsDoes(Check)
  \/ PreviewsDoes(Undo)
  \/ PreviewsDoes(Retire)
  \/ PreviewsDoes(Answer)
  \/ PreviewsDoes(Unmount)
  \/ PreviewsDoes(Release)
  \/ PreviewsDoes(WindowDestroyed)
  \/ PreviewsDoes(Poison)
  \/ ResourcesDoes(Resources!WriteImage)
  \/ ResourcesDoes(Resources!WritePair)
  \/ ResourcesDoes(Resources!Ensure)
  \/ ResourcesDoes(Resources!Snapshot)
  \/ ResourcesDoes(Resources!Stage)
  \/ ResourcesDoes(Resources!Recheck)
  \/ ResourcesDoes(Resources!Publish)
  \/ ResourcesDoes(Resources!Verify)
  \/ ResourcesDoes(Resources!Continue)
  \/ ResourcesDoes(Resources!PutBack)
  \/ ResourcesDoes(Resources!GiveUp)
  \/ ResourcesDoes(Resources!Answer)
  \/ ResourcesDoes(Resources!Swap)
  \/ ResourcesDoes(Resources!Tamper)
  \/ ResourcesDoes(Resources!SaveDrawing)
  \/ ResourcesDoes(Resources!Authorize)
  \/ ResourcesDoes(Resources!Crash)
  \/ AnchoredDoes(Anchored!OpenForRead)
  \/ AnchoredDoes(Anchored!Authority)
  \/ AnchoredDoes(Anchored!Walk)
  \/ AnchoredDoes(Anchored!OpenParent)
  \/ AnchoredDoes(Anchored!VerifyParent)
  \/ AnchoredDoes(Anchored!OpenChild)
  \/ AnchoredDoes(Anchored!Measure)
  \/ AnchoredDoes(Anchored!Read)
  \/ AnchoredDoes(Anchored!Refuse)
  \/ AnchoredDoes(Anchored!Request)
  \/ AnchoredDoes(Anchored!OpenedPath)
  \/ AnchoredDoes(Anchored!CanonicalPath)
  \/ AnchoredDoes(Anchored!Retained)
  \/ AnchoredDoes(Anchored!RespondDraft)
  \/ AnchoredDoes(Anchored!Respond)
  \/ AnchoredDoes(Anchored!Ended)
  \/ AnchoredDoes(Anchored!Move)
  \/ AnchoredDoes(Anchored!Resize)
  \/ SearchDoes(\E f \in SearchFiles : Search!HandOver(f))
  \/ SearchDoes(\E stop \in {None, 0, 2} : Search!BuildIndex(stop))
  \/ SearchDoes(\E q \in SearchQueries, stop \in {None, 0, 2} : Search!QueryIndex(q, stop))
  \/ SearchDoes(Search!Discard)
  \/ ListingDoes(\E command \in {"refresh", "index", "receipt"} : Listing!Begin(command))
  \/ ListingDoes(Listing!Open)
  \/ ListingDoes(Listing!Walk)
  \/ ListingDoes(Listing!Canonicalize)
  \/ ListingDoes(Listing!Inspect)
  \/ ListingDoes(Listing!Cancelled)
  \/ ListingDoes(Listing!Finish)
  \/ ListingDoes(Listing!IsCurrent)
  \/ ListingDoes(Listing!Answered)
  \/ ListingDoes(\E p \in ListedPaths, thing \in Listing!Things : Listing!Change(p, thing))
  \/ ListingDoes(Listing!ReplaceRoot)
  \/ ListingDoes(Listing!RestoreRoot)
  \/ ListingDoes(Listing!Revoke)
  \/ ScenesDoes(\E e \in SceneElements : Scenes!Write(e))
  \/ ScenesDoes(Scenes!Validate)
  \/ ExportsDoes(Exports!SaveBundle)
  \/ ExportsDoes(\E f \in Exports!File : Exports!SaveExport(f))
  \/ ExportsDoes(\E why \in {"refused", "cancelled"} : Exports!StartsNothing(why))
  \/ ExportsDoes(Exports!PathExists)
  \/ ExportsDoes(Exports!Publish)
  \/ ExportsDoes(Exports!PublishConflicts)
  \/ ExportsDoes(Exports!PublishFails)
  \/ ExportsDoes(Exports!PublishUnsure)
  \/ ExportsDoes(Exports!GiveUp)
  \/ ExportsDoes(Exports!RemoveExact)
  \/ ExportsDoes(Exports!RemoveFails)
  \/ ExportsDoes(Exports!WriteExport)
  \/ ExportsDoes(Exports!WriteConflicts)
  \/ ExportsDoes(Exports!WriteFails)
  \/ ExportsDoes(Exports!WriteUnsure)
  \/ ExportsDoes(\E f \in Exports!File : Exports!Other(f))
  \/ AssetsDoes(\E ask \in Assets!Asks : Assets!Ask(ask))
  \/ AssetsDoes(Assets!Look)
  \/ AssetsDoes(Assets!Measure)
  \/ AssetsDoes(Assets!Authorized)
  \/ AssetsDoes(Assets!Allow)
  \/ AssetsDoes(Assets!ReadEmbed)
  \/ AssetsDoes(Assets!Foreign)

StoresSpec == StoresInit /\ [][StoresNext]_StoresVars

Sym == Permutations({f1, f2}) \cup Permutations({v1, v2}) \cup Permutations({o1, o2})
       \cup Permutations(Windows) \cup Permutations(Roots)

\* Every variable has its type, and no table more entries than it may.
StoresTypeOK ==
  /\ TypeOK
  /\ focus = "Recent" => Recent!TypeOK
  /\ focus = "Index" => Index!TypeOK
  /\ focus = "Entries" => Entries!TypeOK
  /\ focus = "Resources" => Resources!TypeOK
  /\ focus = "Anchored" => Anchored!TypeOK
  /\ focus = "Search" => Search!TypeOK
  /\ focus = "Listing" => Listing!TypeOK
  /\ focus = "Scenes" => Scenes!TypeOK
  /\ focus = "Exports" => Exports!TypeOK
  /\ focus = "Assets" => Assets!TypeOK

\* What a window is told of an open, a rename or a removal is what has become of it,
\* whatever failed in between; the menu shows the stored list, what is in the Trash can
\* be put back, an image or drawing that was written is there, and of an export that
\* failed nothing that was certain is left; a search shows the best of what is indexed, a
\* note the asset that is nearest, and a drawing that is accepted is consistent; a file
\* that is read was taken from a directory that had been beneath the granted one, and no
\* more of it than was asked for; once all is quiet, what is searched is what is there, and
\* so is what is listed, unless the workspace was exchanged and put back meanwhile
\* (recent_files.rs, commands.rs, workspace_trash_native.rs, resource_store.rs,
\* export_store.rs, workspace_index.rs, image_resolver.rs, excalidraw_scene.rs,
\* open_regular_file_beneath_directory, read_open_binary_file_bounded,
\* workspace_index_runtime.rs, workspace_snapshot.rs).
AnswersAreTrue ==
  /\ focus = "Recent" => Recent!VerdictIsTrue /\ Recent!MenuFollowsStore
  /\ focus = "Entries" => Entries!AnswersAreTrue /\ Entries!TrashIsRecoverable
  /\ focus = "Resources" => Resources!AnswersAreKept
  /\ focus = "Exports" => Exports!AnswersAreTrue
  /\ focus = "Search" => Search!FilesAreFound /\ Search!BestAreShown /\ Search!CancelledIsSilent
  /\ focus = "Assets" => Assets!NearestIsShown
  /\ focus = "Scenes" => Scenes!AcceptedMeansConsistent
  /\ focus = "Anchored" => Anchored!OpenedIsAnchored /\ Anchored!BytesAreAsked
  /\ focus = "Index" => Index!IndexIsFresh
  /\ focus = "Listing" => Listing!UndisturbedIsComplete /\ Listing!FreshIsSelected

\* Nothing that was overtaken takes effect, and nothing that is in doubt may be written: a
\* query that a later one finds at its beginning does not answer after it, unless it had been
\* found current before; the paths of a rename or a removal whose outcome is not known are
\* closed (active_operation_guard, suspend_indeterminate_rename, revoke_path_prefix).
StaleIsRefused ==
  [][/\ focus = "Index" => Index!AnswersInOrder
     /\ focus = "Entries" => Entries!UnsureIsClosed]_StoresVars

\* The program loses nothing: an entry is in the workspace or in the Trash, an image is
\* never written over, and an export replaces only the version that was there when it
\* began (rename_noreplace, publish_staged_file, write_export_file).
NothingIsLost ==
  [][/\ focus = "Entries" => Entries!NothingIsLost
     /\ focus = "Resources" => Resources!ImagesAreLeft
     /\ focus = "Exports" => Exports!OthersAreLeft]_StoresVars
=============================================================================
