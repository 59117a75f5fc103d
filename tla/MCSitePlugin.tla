---------------------------- MODULE MCSitePlugin ----------------------------
(* Small instances of SitePlugin: three posts, batches of one, three       *)
(* challenges, two requests or runs that overlap.                          *)
EXTENDS SitePlugin, TLC

CONSTANTS r1, r2, a1, a2, h1, seo, shop, c1, c2, c3

Blank == [p \in Posts |-> "none"]
All(kind) == [p \in Posts |-> kind]
FirstTwo(kind) == [All(kind) EXCEPT ![3] = "none"]

Still == [calls |-> 1, stays |-> FALSE, challenges |-> 0, runs |-> 0, losses |-> 0, auditing |-> 0, audits |-> 0,
          edits |-> 0, kinds |-> {"none", "good"}, pages |-> 3, versions |-> 1, contents |-> {Blank}]
Connected == [Still EXCEPT !.challenges = 1, !.stays = TRUE]

(* Connecting and disconnecting, one request at a time and two together. *)
Linking == [Still EXCEPT !.challenges = 3]
LinkingTogether == [Linking EXCEPT !.calls = 2]

(* One run while the authors work; the third post is beyond MAX_SYNC_BATCHES. *)
Copying == [Connected EXCEPT !.runs = 1, !.losses = 1, !.edits = 6, !.contents = {All("good")}]

(* Two runs and a limit of two pages; the site may be disconnected and connected again. *)
CopyingTogether == [Still EXCEPT !.challenges = 2, !.runs = 2, !.pages = 2, !.edits = 3, !.contents = {All("good")}]

(* A limit of one page. *)
Limited == [Connected EXCEPT !.runs = 1, !.edits = 3, !.pages = 1, !.contents = {FirstTwo("good")}]

(* Audits and rules beside a run. *)
Checking == [Connected EXCEPT !.runs = 1, !.auditing = 1, !.audits = 2, !.edits = 2,
                              !.kinds = {"none", "bad"}, !.contents = {FirstTwo("bad")}]
CheckingTogether == [Still EXCEPT !.auditing = 2, !.audits = 2, !.edits = 3, !.kinds = {"none", "draft", "good", "bad"},
                                  !.contents = {FirstTwo("bad")}]

(* Updates of WordPress and two plugins, while the site is connected or not. *)
Updating == [Still EXCEPT !.challenges = 1, !.versions = 2]

Environments == {Linking, LinkingTogether, Copying, CopyingTogether, Limited, Checking, CheckingTogether, Updating}

(* Two runs that overlap while a post is edited and a request is lost. *)
Resting == {[Connected EXCEPT !.runs = 2, !.losses = 1, !.edits = 3, !.contents = {FirstTwo("good")}]}

Interchangeable == Permutations(Challenges) \cup Permutations(Runs) \cup Permutations(WpPlugins) \cup Permutations(Auditors)
=============================================================================
