----------------------------- MODULE Traversal -----------------------------
(***************************************************************************)
(* misc/curlcpp/curlpp_download_example.cpp: a thread lists a tree of      *)
(* directories on a web server, looks for a manifest among the files, and  *)
(* hands two of its attributes to main, which waits for them.              *)
(*                                                                         *)
(* The server, its pages, and the libraries that fetch, clean and parse    *)
(* them are external: a fetch may fail, which leaves the page empty, and   *)
(* cleaning a page may throw, which nothing catches.  Two functions end    *)
(* without returning the value they promise; what happens then is open,    *)
(* and the model goes "astray" or on as if they had returned.              *)
(***************************************************************************)
EXTENDS Naturals, Sequences, FiniteSets, SequencesExt

CONSTANTS Sites   \* [root, pages: the links on the page of each directory, special, manifests]

\* There are finitely many directories, and the first is among them.
SiteOK(s) == /\ IsFiniteSet(DOMAIN s.pages) /\ s.root \in DOMAIN s.pages
             /\ \A dir \in DOMAIN s.pages : s.pages[dir] \in Seq(STRING)

VARIABLES
  site,
  directories,   \* the queue of traverseDirectories
  listed,        \* flist
  attrs,         \* the manifest whose attributes main is given, "empty" for none, or <<>>
  failed,        \* history: a fetch has failed
  mutex,         \* who holds m: "main", "t1" or "nobody"
  is_ready,
  thread,        \* of t1: "locking", "traversing", "searching", "ready", "notified", "returned"
  main           \* "locking", "waiting", "joining", "printed", or how the process ended

vars == <<site, directories, listed, attrs, failed, mutex, is_ready, thread, main>>

isDirectory(link)  == link \in DOMAIN site.pages
isSpecialDir(link) == link \in site.special
isManifest(link)   == link \in site.manifests

\* The links among some that are in a set, in their order.
Kept(links, keep) ==
  LET kept[k \in 0 .. Len(links)] ==
        IF k = 0 THEN <<>> ELSE IF links[k] \in keep THEN Append(kept[k - 1], links[k]) ELSE kept[k - 1]
  IN  kept[Len(links)]

Directories(page) == Kept(page, {link \in Range(page) : isDirectory(link)})
Files(page)       == Kept(page, {link \in Range(page) : ~isDirectory(link)})

Init == /\ site \in Sites
        /\ directories = <<>> /\ listed = <<>> /\ attrs = <<>> /\ failed = FALSE
        /\ mutex = "nobody" /\ is_ready = FALSE
        /\ thread = "locking" /\ main = "locking"

Running == main \notin {"printed", "terminated", "astray"}
Worker(at) == Running /\ thread = at

GoAstray == main' = "astray" /\ UNCHANGED <<site, directories, listed, attrs, failed, mutex, is_ready, thread>>

Lock == /\ Worker("locking") /\ mutex = "nobody"
        /\ mutex' = "t1" /\ thread' = "traversing" /\ directories' = <<site.root>>
        /\ UNCHANGED <<site, listed, attrs, failed, is_ready, main>>

\* The links of the page of directory dir, after the libraries' work.
Links(dir) == Kept(site.pages[dir], {link \in Range(site.pages[dir]) : ~isSpecialDir(link)})

\* Mutation of Visit: the newest directory is taken from the queue.
VisitNewest ==
  /\ Worker("traversing") /\ directories # <<>>
  /\ \E page \in {Links(Last(directories)), <<>>} :
       /\ failed' = (failed \/ page # Links(Last(directories)))
       /\ directories' = Front(directories) \o Directories(page)
       /\ listed' = listed \o Files(page)
  /\ UNCHANGED <<site, attrs, mutex, is_ready, thread, main>>

\* One turn of the loop in traverseDirectories.
Visit ==
  /\ Worker("traversing") /\ directories # <<>>
  /\ \E page \in {Links(Head(directories)), <<>>} :
       /\ failed' = (failed \/ page # Links(Head(directories)))
       /\ directories' = Tail(directories) \o Directories(page)
       /\ listed' = listed \o Files(page)
  /\ UNCHANGED <<site, attrs, mutex, is_ready, thread, main>>

CleaningThrows ==
  /\ Worker("traversing") /\ directories # <<>>
  /\ main' = "terminated"
  /\ UNCHANGED <<site, directories, listed, attrs, failed, mutex, is_ready, thread>>

EndTraversal ==
  /\ Worker("traversing") /\ directories = <<>>
  /\ \/ thread' = "searching"
        /\ UNCHANGED <<site, directories, listed, attrs, failed, mutex, is_ready, main>>
     \/ GoAstray

\* find_if, getWebPage and parseManifest.  Without a manifest the end of the
\* list is read; one that cannot be fetched has empty attributes.
Search ==
  /\ Worker("searching")
  /\ \/ \E i \in DOMAIN listed :
          /\ isManifest(listed[i]) /\ \A j \in 1 .. i - 1 : ~isManifest(listed[j])
          /\ attrs' \in {<<listed[i]>>, <<"empty">>}
          /\ thread' = "ready"
          /\ UNCHANGED <<site, directories, listed, failed, mutex, is_ready, main>>
     \/ /\ \A file \in Range(listed) : ~isManifest(file)
        /\ GoAstray

\* Mutation of Notify: main is told before there is anything to see.
NotifyOnly ==
  /\ Worker("ready")
  /\ thread' = "notified"
  /\ main' = IF main = "waiting" THEN "locking" ELSE main
  /\ UNCHANGED <<site, directories, listed, attrs, failed, mutex, is_ready>>

\* is_ready = true and notify_one, which wakes main if it waits.
Notify ==
  /\ Worker("ready")
  /\ is_ready' = TRUE /\ thread' = "notified"
  /\ main' = IF main = "waiting" THEN "locking" ELSE main
  /\ UNCHANGED <<site, directories, listed, attrs, failed, mutex>>

\* The end of extractManifestAttrs, which gives the mutex back.
Finish ==
  /\ Worker("notified")
  /\ \/ /\ thread' = "returned" /\ mutex' = "nobody"
        /\ UNCHANGED <<site, directories, listed, attrs, failed, is_ready, main>>
     \/ GoAstray

\* lk(m), or the return from the wait: main goes on or gives the mutex back.
MainLock ==
  /\ main = "locking" /\ mutex = "nobody"
  /\ IF is_ready THEN mutex' = "main" /\ main' = "joining" ELSE main' = "waiting" /\ UNCHANGED mutex
  /\ UNCHANGED <<site, directories, listed, attrs, failed, is_ready, thread>>

Spurious == /\ main = "waiting" /\ main' = "locking"
            /\ UNCHANGED <<site, directories, listed, attrs, failed, mutex, is_ready, thread>>

\* main joins the thread while it holds the mutex, and prints.
MainJoin == /\ main = "joining" /\ thread = "returned" /\ main' = "printed"
            /\ UNCHANGED <<site, directories, listed, attrs, failed, mutex, is_ready, thread>>

Work == Lock \/ Visit \/ CleaningThrows \/ EndTraversal \/ Search \/ Notify \/ Finish
Main == MainLock \/ MainJoin

Next == Work \/ Main \/ Spurious

\* Both threads are scheduled, and a wait ends only by a notification.
Fairness == WF_vars(Work) /\ WF_vars(Main)

-----------------------------------------------------------------------------
(* What lies below a directory, by the number of directories passed.       *)

Within(n) ==
  LET reached[k \in 0 .. n] ==
        IF k = 0 THEN {site.root}
        ELSE {link \in UNION {Range(Links(dir)) : dir \in reached[k - 1]} : isDirectory(link)}
  IN  reached[n]

Depths == 0 .. Cardinality(DOMAIN site.pages)
FilesAt(n) == {link \in UNION {Range(Links(dir)) : dir \in Within(n)} : ~isDirectory(link)}

\* No directory leads back to itself: the traversal ends.
Acyclic == Within(Cardinality(DOMAIN site.pages)) = {}

(* What main prints has been put there before it looks, and comes from a   *)
(* manifest that no other is nearer to the root than, unless a page could  *)
(* not be fetched; then every file below the root has been listed, those   *)
(* of a directory before those further down.                               *)
PrintedIsFound ==
  main \in {"joining", "printed"} =>
    /\ attrs # <<>> /\ is_ready
    /\ ~failed =>
         /\ Range(listed) = UNION {FilesAt(n) : n \in Depths}
         /\ attrs # <<"empty">> =>
              \E n \in Depths : /\ attrs[1] \in FilesAt(n) /\ isManifest(attrs[1])
                                /\ \A k \in 0 .. n - 1 : \A file \in FilesAt(k) : ~isManifest(file)

=============================================================================
