------------------------------- MODULE Download -------------------------------
(***************************************************************************)
(* A model or a grammar that is not there is downloaded: model_path of     *)
(* src/embedder.rs, load of src/grammar.rs, download_verified of           *)
(* src/fetch.rs.  Several processes may do so at once.                     *)
(***************************************************************************)
EXTENDS Naturals

CONSTANTS Loaders,      \* processes that need the artifact
          Versions,     \* what servers may offer as the artifact
          NoFile,
          Garbage,      \* a file that is complete but not of the format
          MaxTries      \* bound: downloads begun

ASSUME DownloadAssumption == Garbage \notin Versions /\ NoFile \notin Versions /\ MaxTries \in Nat

VARIABLES
  target,    \* the file at the path
  loader,    \* loader[w]: what w does next
  sum,       \* sum[w]: the version whose checksum w has read
  temp,      \* temp[w]: its temporary file: [of, cut]
  opened,    \* opened[w]: the content w has loaded
  tries

downloadVars == <<target, loader, sum, temp, opened, tries>>

Served == [of : Versions \cup {Garbage}, cut : BOOLEAN]
NoTemp == [of |-> NoFile, cut |-> FALSE]
Whole(version) == [of |-> version, cut |-> FALSE]

DownloadInit ==
  /\ target = NoTemp
  /\ loader = [w \in Loaders |-> "look"] /\ sum = [w \in Loaders |-> NoFile]
  /\ temp = [w \in Loaders |-> NoTemp] /\ opened = [w \in Loaders |-> NoTemp]
  /\ tries = 0

Goes(w, step) == loader' = [loader EXCEPT ![w] = step]

(* model_path, load: a file that is there is taken as it is; without one   *)
(* the checksum is read, and offline, or when it is none, that is an error.*)
Look(w) ==
  /\ loader[w] = "look"
  /\ \/ target # NoTemp /\ Goes(w, "open") /\ UNCHANGED <<sum, tries>>
     \/ /\ target = NoTemp /\ tries < MaxTries /\ tries' = tries + 1
        /\ \/ \E version \in Versions \cup {Garbage} : sum' = [sum EXCEPT ![w] = version] /\ Goes(w, "fetch")
           \/ Goes(w, "failed") /\ UNCHANGED sum
  /\ UNCHANGED <<target, temp, opened>>

(* The body, of whatever version is served by now, as far as it comes: to  *)
(* its end, to the size limit, or to where the connection breaks.          *)
Fetch(w) ==
  /\ loader[w] = "fetch"
  /\ \E body \in Served : temp' = [temp EXCEPT ![w] = body]
  /\ Goes(w, "verify")
  /\ UNCHANGED <<target, sum, opened, tries>>

(* Mutation of Verified: the length of the body is trusted.                *)
VerifiedFormat(w) == temp[w].of # Garbage

(* The checksum, then validate: looks_like_gguf, open.                     *)
Verified(w) == temp[w] = Whole(sum[w]) /\ temp[w].of # Garbage

(* persist_noclobber: the first to come publishes, the others are content. *)
Publish(w) ==
  /\ loader[w] = "verify" /\ Verified(w)
  /\ target' = IF target = NoTemp THEN temp[w] ELSE target
  /\ temp' = [temp EXCEPT ![w] = NoTemp]
  /\ Goes(w, "open")
  /\ UNCHANGED <<sum, opened, tries>>

Reject(w) ==
  /\ loader[w] = "verify" /\ ~Verified(w)
  /\ temp' = [temp EXCEPT ![w] = NoTemp]
  /\ Goes(w, "failed")
  /\ UNCHANGED <<target, sum, opened, tries>>

Open(w) ==
  /\ loader[w] = "open"
  /\ opened' = [opened EXCEPT ![w] = target]
  /\ Goes(w, "loaded")
  /\ UNCHANGED <<target, sum, temp, tries>>

(* Killed, or begun anew after a failure; what the temporary file held is  *)
(* under no name anybody looks for.                                        *)
Again(w) ==
  /\ loader[w] # "look"
  /\ Goes(w, "look")
  /\ sum' = [sum EXCEPT ![w] = NoFile]
  /\ temp' = [temp EXCEPT ![w] = NoTemp] /\ opened' = [opened EXCEPT ![w] = NoTemp]
  /\ UNCHANGED <<target, tries>>

DownloadNext == \E w \in Loaders : Look(w) \/ Fetch(w) \/ Publish(w) \/ Reject(w) \/ Open(w) \/ Again(w)
DownloadSpec == DownloadInit /\ [][DownloadNext]_downloadVars

-----------------------------------------------------------------------------
(* "Concurrent processes fetching the same artifact cannot corrupt each    *)
(* other": what is at the path is complete and of the format, whatever was *)
(* served; and what one process has loaded is there as long as it runs.    *)
LoadedIsWhole ==
  /\ target # NoTemp => target \in {Whole(version) : version \in Versions}
  /\ \A w \in Loaders : opened[w] # NoTemp => opened[w] = target
===============================================================================
