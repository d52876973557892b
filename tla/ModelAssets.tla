----------------------------- MODULE ModelAssets -----------------------------
(***************************************************************************)
(* The assets of the browser engine (web/engine/browser_ocr_runtime.mjs):  *)
(* BrowserModelAssets memoizes promises of downloaded bytes and of what is *)
(* parsed from them, fetchBytes downloads one asset through the browser's  *)
(* cache and counts the bytes shown as progress.  The lanes of the engine  *)
(* share one BrowserModelAssets; the shards of the vision stack are        *)
(* fetched by each lane for itself.                                        *)
(***************************************************************************)
EXTENDS Naturals, Sequences

CONSTANTS Asset,
          WeightAsset,  \* the asset that holds the decoder's weights
          Size,         \* chunks of a download
          MaxLoads      \* bound: promises made in a behaviour

AssetsAreValid == WeightAsset \in Asset /\ Size \in Nat

VARIABLES
    loads,      \* the promises, in the order of their creation
    memoized,   \* #memoized: the promise of each key, or NoLoad
    persistent, \* assets in the browser's cache
    downloaded, \* assetDownloadBytes
    completed,  \* completedAssetUrls
    released    \* history: assets whose entries were ever released

vars == <<loads, memoized, persistent, downloaded, completed, released>>

NoLoad == 0
EntryKey == {"bytes", "parsed"} \X Asset

(* A promise: what it loads ("lane" is a download outside the map), where  *)
(* it is, the chunks it has, whether its bytes go to the browser's cache,  *)
(* and the promise it waits for.                                           *)
Load(kind, a) == [kind |-> kind, asset |-> a, stage |-> "scheduled",
                  chunks |-> 0, writes |-> FALSE, source |-> NoLoad]
KeyOf(load) == <<load.kind, load.asset>>
Settled == {"fulfilled", "rejected"}

TypeOK ==
    /\ \A i \in DOMAIN loads :
          /\ loads[i].asset \in Asset
          /\ loads[i].chunks \in 0..Size
          /\ loads[i].source \in 0..Len(loads)
    /\ memoized \in [EntryKey -> 0..Len(loads)]
    /\ persistent \subseteq Asset
    /\ downloaded \in [Asset -> 0..Size]
    /\ completed \subseteq Asset
    /\ released \subseteq Asset

Init ==
    /\ loads = <<>>
    /\ memoized = [key \in EntryKey |-> NoLoad]
    /\ persistent \in SUBSET Asset
    /\ downloaded = [a \in Asset |-> 0]
    /\ completed = {}
    /\ released = {}
-----------------------------------------------------------------------------
(* #once.  Mutant: the entry is looked up but never used.                  *)
OnceIgnoringEntry(key, list) ==
    [loads |-> Append(list, Load(key[1], key[2])),
     memoized |-> [memoized EXCEPT ![key] = Len(list) + 1]]
Once(key, list) ==
    IF memoized[key] # NoLoad THEN [loads |-> list, memoized |-> memoized]
    ELSE [loads |-> Append(list, Load(key[1], key[2])),
          memoized |-> [memoized EXCEPT ![key] = Len(list) + 1]]

(* A lane asks for a parsed asset. *)
Request(a) ==
    /\ Len(loads) < MaxLoads
    /\ loads' = Once(<<"parsed", a>>, loads).loads
    /\ memoized' = Once(<<"parsed", a>>, loads).memoized
    /\ UNCHANGED <<persistent, downloaded, completed, released>>

(* A lane fetches an asset for itself. *)
RequestUnshared(a) ==
    /\ Len(loads) < MaxLoads
    /\ loads' = Append(loads, Load("lane", a))
    /\ UNCHANGED <<memoized, persistent, downloaded, completed, released>>

(* The loader of a parsed asset starts, and asks for the bytes. *)
StartParsing(i) ==
    /\ loads[i].kind = "parsed"
    /\ loads[i].stage = "scheduled"
    /\ Len(loads) < MaxLoads
    /\ LET once == Once(<<"bytes", loads[i].asset>>, loads) IN
       /\ memoized' = once.memoized
       /\ loads' = [once.loads EXCEPT
                      ![i].stage = "waiting",
                      ![i].source = once.memoized[<<"bytes", loads[i].asset>>]]
    /\ UNCHANGED <<persistent, downloaded, completed, released>>

MovesTo(i, stage) ==
    /\ loads' = [loads EXCEPT ![i].stage = stage]
    /\ UNCHANGED <<memoized, persistent, downloaded, completed, released>>

(* What was awaited has settled; a parser may fail on the bytes. *)
Parse(i) ==
    /\ loads[i].stage = "waiting"
    /\ LET source == loads[loads[i].source].stage IN
       \/ source = "fulfilled" /\ MovesTo(i, "fulfilled")
       \/ source \in Settled /\ MovesTo(i, "failing")
-----------------------------------------------------------------------------
(* fetchBytes.  The browser's cache has the asset, or not, or it fails. *)
Open(i) ==
    /\ loads[i].kind \in {"bytes", "lane"}
    /\ loads[i].stage = "scheduled"
    /\ \/ /\ loads[i].asset \in persistent
          /\ MovesTo(i, "reading")
       \/ \E writes \in BOOLEAN :
             /\ writes => loads[i].asset \notin persistent
             /\ loads' = [loads EXCEPT ![i].stage = "fetching",
                                       ![i].writes = writes]
             /\ UNCHANGED <<memoized, persistent, downloaded, completed,
                            released>>

Fetch(i) ==
    /\ loads[i].stage = "fetching"
    /\ \/ MovesTo(i, "reading")
       \/ MovesTo(i, "failing")

(* The progress of an asset that was downloaded once is never touched.     *)
(* Mutant: it is.                                                          *)
CountsAlways(a) == TRUE
Counts(a) == a \notin completed

ReadChunk(i) ==
    /\ loads[i].stage = "reading"
    /\ loads[i].chunks < Size
    /\ loads' = [loads EXCEPT ![i].chunks = @ + 1]
    /\ downloaded' = IF Counts(loads[i].asset)
                     THEN [downloaded EXCEPT
                             ![loads[i].asset] = loads[i].chunks + 1]
                     ELSE downloaded
    /\ UNCHANGED <<memoized, persistent, completed, released>>

(* The stream has ended: the asset counts as downloaded. *)
EndRead(i) ==
    /\ loads[i].stage = "reading"
    /\ loads[i].chunks = Size
    /\ loads' = [loads EXCEPT ![i].stage = "writing"]
    /\ downloaded' = IF Counts(loads[i].asset)
                     THEN [downloaded EXCEPT ![loads[i].asset] = Size]
                     ELSE downloaded
    /\ completed' = completed \cup {loads[i].asset}
    /\ UNCHANGED <<memoized, persistent, released>>

(* Without a stream the response is read at once, and counted only after   *)
(* the write to the browser's cache.                                       *)
ReadWhole(i) ==
    /\ loads[i].stage = "reading"
    /\ loads[i].chunks = 0
    /\ MovesTo(i, "writing")

BreakOff(i) == loads[i].stage = "reading" /\ MovesTo(i, "failing")

(* The write to the browser's cache has ended; its failure is ignored. *)
EndWrite(i) ==
    /\ loads[i].stage = "writing"
    /\ loads' = [loads EXCEPT ![i].stage = "fulfilled"]
    /\ \/ UNCHANGED persistent
       \/ loads[i].writes /\ persistent' = persistent \cup {loads[i].asset}
    /\ downloaded' = IF loads[i].chunks = 0 /\ Counts(loads[i].asset)
                     THEN [downloaded EXCEPT ![loads[i].asset] = Size]
                     ELSE downloaded
    /\ completed' = completed \cup {loads[i].asset}
    /\ UNCHANGED <<memoized, released>>

(* The handler of #once deletes the entry of its key, whichever promise it *)
(* holds by then.  Mutant: the rejected promise stays.                     *)
ForgottenNever(load) == memoized
Forgotten(load) ==
    IF load.kind = "lane" THEN memoized
    ELSE [memoized EXCEPT ![KeyOf(load)] = NoLoad]

Fail(i) ==
    /\ loads[i].stage = "failing"
    /\ loads' = [loads EXCEPT ![i].stage = "rejected"]
    /\ memoized' = Forgotten(loads[i])
    /\ UNCHANGED <<persistent, downloaded, completed, released>>

(* A session has begun with the decoder's weights, or the engine is        *)
(* disposed.                                                               *)
Releases(assets) ==
    /\ memoized' = [key \in EntryKey |-> IF key[2] \in assets THEN NoLoad
                                    ELSE memoized[key]]
    /\ released' = released \cup assets
    /\ UNCHANGED <<loads, persistent, downloaded, completed>>

ReleaseDecoderShards == Releases({WeightAsset})
Release == Releases(Asset)

Next ==
    \/ \E a \in Asset : Request(a) \/ RequestUnshared(a)
    \/ \E i \in DOMAIN loads :
          \/ StartParsing(i)
          \/ Parse(i)
          \/ Open(i)
          \/ Fetch(i)
          \/ ReadChunk(i)
          \/ EndRead(i)
          \/ ReadWhole(i)
          \/ BreakOff(i)
          \/ EndWrite(i)
          \/ Fail(i)
    \/ ReleaseDecoderShards
    \/ Release

Spec == Init /\ [][Next]_vars
-----------------------------------------------------------------------------
(* Until its entries are released, a load in flight is the one that its    *)
(* key holds, so that lanes share one download; and a failed load is       *)
(* forgotten, so that the next request tries again.                        *)
EntriesAreSound ==
    /\ \A i \in DOMAIN loads :
          /\ loads[i].kind # "lane"
          /\ loads[i].stage \notin Settled
          /\ loads[i].asset \notin released
          => memoized[KeyOf(loads[i])] = i
    /\ \A key \in EntryKey : memoized[key] # NoLoad =>
          loads[memoized[key]].stage # "rejected"

(* The progress of an asset is final once it was downloaded, however many  *)
(* lanes download it again, and it never counts twice.                     *)
ProgressIsFinal == \A a \in completed : downloaded[a] = Size
=============================================================================
