----------------------------- MODULE RemoteLike -----------------------------
(***************************************************************************)
(* Playing and liking a search result in the client: _previewRemoteTrack   *)
(* and _likeRemoteTrack (search_screen.dart), the library entry they make  *)
(* (storage_service.dart) and the downloads they ask the daemon for.  The  *)
(* output paths depend on the CTID alone, so one CTID is all there is.  A  *)
(* task is one tap; the client is single-threaded, but every await lets    *)
(* another tap or the daemon go on.                                        *)
(***************************************************************************)
EXTENDS Naturals

CONSTANTS Peers, Reliable, Tasks, Chunks, MaxProviders, Faults, None

VARIABLES
    disk, pc, path, rest, peer, stream, got,   \* of Fetch
    ui,        \* where a task is
    again,     \* whether its download has been retried
    library    \* the track's entry in the library

Paths == {"library", "preview"}

D == INSTANCE Fetch WITH Downloads <- Tasks, FullPaths <- {}

fetchVars == <<disk, pc, path, rest, peer, stream, got>>
vars      == <<disk, pc, path, rest, peer, stream, got, ui, again, library>>

Enter(t, l)  == ui' = [ui EXCEPT ![t] = l]
HasFile(p)   == disk[p] # {}     \* exists() and length() > 0

-----------------------------------------------------------------------------

\* A tap on the row, which plays a track that is in the library, or on the heart.
\* Preview and like then wait for the bootstrap connection.
Tap(t) ==
    /\ ui[t] = "idle"
    /\ (library = None /\ Enter(t, "preview")) \/ Enter(t, "like")
    /\ UNCHANGED <<fetchVars, again, library>>

\* The preferred provider is the first one of the search result, if any.
AskDaemon(t, p) ==
    \/ D!RequestFromNetwork(t, p)
    \/ \E q \in Peers : D!RequestFromPeer(t, p, q)

\* A preview that is on disk is played.
Preview(t) ==
    /\ ui[t] = "preview"
    /\ IF HasFile("preview")
       THEN Enter(t, "idle") /\ UNCHANGED fetchVars
       ELSE Enter(t, "previewFetch") /\ AskDaemon(t, "preview")
    /\ UNCHANGED <<again, library>>

\* A track that is in the library is only marked.
FindExisting(t) ==
    /\ ui[t] = "like"
    /\ IF library # None
       THEN Enter(t, "idle") /\ library' = [library EXCEPT !.liked = TRUE]
       ELSE Enter(t, "checkOutput") /\ UNCHANGED library
    /\ UNCHANGED <<fetchVars, again>>

CheckOutput(t) ==
    /\ ui[t] = "checkOutput"
    /\ Enter(t, IF HasFile("library") THEN "save" ELSE "checkPreview")
    /\ UNCHANGED <<fetchVars, again, library>>

\* A preview is copied instead of downloading the track once more.
CheckPreview(t) ==
    /\ ui[t] = "checkPreview"
    /\ IF HasFile("preview")
       THEN /\ Enter(t, "save")
            /\ disk' = [disk EXCEPT !["library"] = disk["preview"]]
            /\ UNCHANGED <<pc, path, rest, peer, stream, got>>
       ELSE Enter(t, "likeFetch") /\ AskDaemon(t, "library")
    /\ UNCHANGED <<again, library>>

\* The daemon's reply.  The first failure is retried without a preferred peer.
Fetched(t) ==
    /\ ui[t] \in {"previewFetch", "likeFetch"}
    /\ pc[t] \in {"ok", "failed"}
    /\ D!Return(t)
    /\ again' = [again EXCEPT ![t] = pc[t] = "failed" /\ ~@]
    /\ Enter(t, IF pc[t] = "failed" THEN IF again'[t] THEN ui[t] ELSE "idle"
                ELSE IF ui[t] = "likeFetch" THEN "save" ELSE "idle")
    /\ UNCHANGED library

FetchAgain(t) ==
    /\ again[t] /\ pc[t] = "idle"
    /\ D!RequestFromNetwork(t, IF ui[t] = "likeFetch" THEN "library" ELSE "preview")
    /\ UNCHANGED <<ui, again, library>>

\* saveTrack refuses a track whose CTID or ID is there.
SaveTrack(t) ==
    /\ ui[t] = "save"
    /\ IF library # None
       THEN Enter(t, "idle") /\ UNCHANGED library
       ELSE Enter(t, "share") /\ library' = [liked |-> TRUE, shared |-> FALSE]
    /\ UNCHANGED <<fetchVars, again>>

\* shareTrack's outcome is written with the rest of the task's copy.
Shared(t) ==
    /\ ui[t] = "share"
    /\ Enter(t, "idle")
    /\ \E ok \in BOOLEAN : library' = [liked |-> TRUE, shared |-> ok]
    /\ UNCHANGED <<fetchVars, again>>

-----------------------------------------------------------------------------

Init == /\ D!Init
        /\ ui = [t \in Tasks |-> "idle"]
        /\ again = [t \in Tasks |-> FALSE]
        /\ library = None

Daemon(t) == /\ D!Download(t) \/ D!Serve(t) \/ D!Reset(t)
             /\ UNCHANGED <<ui, again, library>>

Next == \E t \in Tasks :
    \/ Tap(t) \/ Preview(t) \/ FindExisting(t) \/ CheckOutput(t) \/ CheckPreview(t)
    \/ Fetched(t) \/ FetchAgain(t) \/ SaveTrack(t) \/ Shared(t)
    \/ Daemon(t)

Spec == Init /\ [][Next]_vars

\* "ctid; // Canonical Track ID (SHA256 of normalized PCM)" (models/track.dart:11):
\* the file of a track in the library is the one its CTID was computed from.
LibraryFileHasItsCtid == library # None => disk["library"] = D!Complete

=============================================================================
