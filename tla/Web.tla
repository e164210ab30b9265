-------------------------------- MODULE Web --------------------------------
(***************************************************************************)
(* What a web request asks for (web.c): the rules classify_http_get and    *)
(* classify_http_post try one after the other, what a YouTube request      *)
(* leaves in the yt_ variables, and the categories of map_http_to_web.     *)
(*                                                                         *)
(* A path is the text of the request, with a token in braces for a part    *)
(* the code only tests for its shape: {6d} digits, {id} the eleven         *)
(* characters of a video, {5} any five.  Requests are whole, with at least *)
(* a header: longer than any available_data the code asks for.             *)
(***************************************************************************)
EXTENDS Integers, Sequences, SequencesExt

(***************************************************************************)
(* Rules.  A request that begins with the head of a rule is not shown to   *)
(* the later ones, whether one of the tails follows or not.  Which of the  *)
(* tails of a group follows does not matter, since they have one class:    *)
(* {listed} is any one in the list of the code, or of the shape it asks    *)
(* for.                                                                    *)
(***************************************************************************)
Plain(class, paths) == [i \in DOMAIN paths |-> [head |-> paths[i], tails |-> << <<"", class>> >>]]
Group(class, head) == << [head |-> head, tails |-> << <<"{listed}", class>> >>] >>

GetA ==
    Plain("ADV", <<"/ADSAdClient">>)
    \o Plain("FACEBOOK", <<"/ads3/flyers/", "/ads2/flyers/", "/album.php?",
                           "/apps/application.php", "/ai.php?aed=">>)
    \o Plain("ADV", <<"/adj/">>) \o Plain("SOCIAL", <<"/ajax_boxes/last_photos">>)

\* "photos" is compared over eight bytes, its NUL among them: it is no tail.
GetAjax ==
    Group("FACEBOOK", "/ajax/") \o Group("SOCIAL", "/albums_list/")

GetBC ==
    Plain("SOCIAL", <<"/blog/ajax_">>) \o Plain("ADV", <<"/Bursting">>)
    \o Plain("RAPIDSHARE", <<"/cgi-bin/rsapi.cgi">>)
    \o Plain("ADV", <<"/cgi-bin/m?ci=", "/cgi-bin/m?rnd=", "/cgi-bin/count?cid=",
                      "/cgi-bin/count?url=", "/cgi-bin/count?rnd=">>)
    \o Plain("GMAPS", <<"/cbk?output=">>)
    \o Plain("FACEBOOK", <<"/connect.php/", "/connect/connect.php", "/connect/xd_proxy.php",
                           "/connect/xd_arbiter.php", "/cfs-ak-", "/cfs-l3-",
                           "/common/history_manager.php", "/common/redirectiframe.html">>)
    \o Group("SOCIAL", "/common/image/")

GetDE ==
    Plain("FLASHVIDEO", <<"/dl/{32}/{8}/">>) \o Plain("FACEBOOK", <<"/dialog/oauth?api_key=">>)
    \o Group("YOUTUBE_SITE_EMBED", "/embed/")
    \o Plain("FACEBOOK", <<"/editapps.php", "/editnote.php", "/extern/login_status.php",
                           "/email_open_log_pic.php">>)
    \o Plain("FLASHVIDEO", <<"/e4/flv/">>)

GetF ==
    Plain("FACEBOOK", <<"/friends/", "/friends.php", "/feeds/notifications.php">>)
    \o Plain("YOUTUBE_SITE", <<"/feeds/api/videos/", "/feeds/api/users/", "/feeds/base/">>)
    \o Group("SOCIAL", "/friends_online_list/") \o Group("SOCIAL", "/friends_list/")
    \o Group("FLASHVIDEO", "/flv/")
    \o << [head |-> "/files/", tails |-> << <<"{hex}/", "MEGAUPLOAD">>, <<"{8d}/", "RAPIDSHARE">> >>] >>

GetG ==
    Plain("YOUTUBE_204", <<"/generate_204?">>)
    \o Plain("YOUTUBE_SITE", <<"/get_video_info?", "/get_video?">>)
    \o Plain("FACEBOOK", <<"/group.php?", "/groups.php?">>)
    \o << [head |-> "/get/{8}/", tails |-> << <<"{8}/", "HOTFILE">>, <<"", "STORAGE">> >>] >>
    \o Group("SOCIAL", "/gadgets/") \o Group("SOCIAL", "/gallery/")

GetHK ==
    Plain("FACEBOOK", <<"/home.php?ref=">>) \o Group("YOUTUBE_SITE", "/i/")
    \o Plain("TWITTER", <<"/i/widget-logo.png">>)
    \o Plain("FACEBOOK", <<"/iframe/12?r=", "/iframe/11?r=", "/iframe/10?r=",
                           "/js/api_lib/v0.4/">>)
    \o Plain("TWITTER", <<"/j/2/", "/j/1/">>) \o Plain("GMAPS", <<"/kh/v=">>)

GetMO ==
    Group("GMAPS", "/maps") \o Plain("GMAPS", <<"/mapfiles/">>) \o Plain("SOCIAL", <<"/might_know/listJSON/">>)
    \o Plain("VOD", <<"/Movies/nexos/MPEG2/">>) \o Plain("FACEBOOK", <<"/notifications.php">>)
    \o Plain("SOCIAL", <<"/new_messages_json/top/", "/new_messages_get_mail/", "/nktalk/">>)
    \o Group("SOCIAL", "/online_list/") \o Group("FACEBOOK", "/object")

GetP ==
    Plain("ADV", <<"/pagead/">>)
    \o Plain("FACEBOOK", <<"/pull?channel=", "/photo.php?fbid=", "/photo.php?pid=",
                           "/photo_search.php?", "/posted.php?", "/profile.php?id=",
                           "/pagelet/generic.php", "/ping?partition=", "/p?partition=">>)
    \o Group("FACEBOOK", "/plugins/")
    \o Group("TWITTER", "/profile_images/") \o Group("SOCIAL", "/pages/")
    \o Group("SOCIAL", "/poczta/") \o Group("SOCIAL", "/profile/")

GetRS ==
    Group("ADV", "/RealMedia/ads/")
    \o Plain("FACEBOOK", <<"/reqs.php?", "/restserver.php", "/rsrc.php/">>)
    \o Plain("SOCIAL", <<"/rest/person/">>) \o Plain("DROPBOX", <<"/subscribe?host_int=">>)
    \o Plain("FACEBOOK", <<"/safe_image.php?d=", "/s.php?", "/static/v0.4/",
                           "/stage.static/rsrc.php/">>)
    \o Plain("SOCIAL", <<"/search/pages/", "/school/", "/sledzik/", "/storage/gifts/",
                         "/storage/smileys/">>)
    \o Group("SOCIAL", "/style/") \o Group("SOCIAL", "/script/")

GetPlayback == Plain("YOUTUBE_VIDEO", <<"/videoplayback?">>)
GetUV ==
    Group("YOUTUBE_SITE", "/u/") \o GetPlayback
    \o Plain("VIMEO", <<"/vimeo/v/">>) \o Plain("FLASHVIDEO", <<"/videos/flv/">>)
    \o Plain("GMAPS", <<"/vt/v=", "/vt/lyrs=">>)
    \o Group("YOUTUBE_SITE", "/vi/") \o Group("YOUTUBE_SITE_EMBED", "/v/")
    \o Plain("FACEBOOK", <<"/v{6}/flyers/", "/v{5}/flyers/", "/v{10d}">>)

GetW ==
    Plain("WIKI", <<"/w/index.php?title=", "/wiki/", "/wikipedia/">>)
    \o Plain("FACEBOOK", <<"/www/app_full_proxy.php?app=">>)
    \o << [head |-> "/widgets/",
           tails |-> << <<"{page}.php?", "FACEBOOK">>, <<"{listed}", "TWITTER">> >>] >>
    \o Group("TWITTER", "/widgets.js")
    \o Plain("YOUTUBE_SITE_DIRECT", <<"/watch?v=", "/watch#!v=">>)
    \o Plain("SOCIAL", <<"/watched_events ">>)

GetXY ==
    Group("FACEBOOK", "/x/") \o Group("YOUTUBE_SITE", "/yt/")
    \o Plain("FLASHVIDEO", <<"/_videos_t4vn", "/_thumbs/">>)

\* A path that begins with 4 falls through the rules of 0 and 1, one with 0
\* through those of 1: no other number is looked for in a club.
GetDigit ==
    Plain("FLASHVIDEO", <<"/467f9bca32b1989">>)
    \o Plain("SOCIAL", <<"/0{3}/club/", "/4{3}/club/", "/0{3}/user/", "/4{3}/user/",
                         "/0{3}/listing/", "/4{3}/listing/">>)
    \o Plain("TWITTER", <<"/1/statuses/", "/1/urls/count.json?", "/1/users/show">>)
    \o Plain("FACEBOOK", <<"/{8d}/picture">>) \o Plain("FLICKR", <<"/{4d}/{9d}_{hex10}">>)
    \o Plain("VIMEO", <<"/{dd}.mp4?ak", "/{dd}.mp4?token=">>)
    \o Plain("SOCIAL", <<"/{dd}thumb/", "/{dd}other/", "/{dd}main/">>)

\* Tried when no rule gave a class.
GetOther ==
    Plain("FACEBOOK", <<"/{5}-ak-", "/{6}-ak-", "/{7}-ak-", "/{8}-ak-", "/{2}_{2}/all.js">>)
    \o Plain("MEDIAFIRE", <<"/{11}g/{11}/{name} ", "/{11}g/{15}/{name} ">>)
    \o Plain("MEGAUPLOAD", <<"/{hex40} ">>)

PostAG ==
    Plain("FACEBOOK", <<"/ajax/presence/", "/ajax/chat/", "/ajax/">>) \o Group("SOCIAL", "/accept/")
    \o Plain("RAPIDSHARE", <<"/cgi-bin/rsapi.cgi">>) \o Plain("RTMPT", <<"/close/">>)
    \o Plain("FACEBOOK", <<"/current/flashservices/">>) \o Plain("GMAPS", <<"/cbk?output=">>)
    \o Plain("RTMPT", <<"/CLOSE/">>) \o Plain("FACEBOOK", <<"/fbml/", "/flashservices/gateway.php">>)
    \o Group("RAPIDSHARE", "/files/")
    \o Plain("MSN", <<"/gateway/gateway.dll?Action=", "/gateway/gateway.dll?SessionID=">>)
    \o Plain("GMAPS", <<"/glm/mmap ">>) \o Plain("SOCIAL", <<"/gadgets/makeRequest ">>)
PostHW ==
    Plain("SOCIAL", <<"/http-bind ">>) \o Plain("RTMPT", <<"/idle/">>)
    \o Group("SOCIAL", "/invite/") \o Plain("RTMPT", <<"/IDLE/">>)
    \o Plain("SOCIAL", <<"/might_know/unwanted/", "/nktalk/">>)
    \o Plain("RTMPT", <<"/open/", "/OPEN/">>)
    \o Plain("YOUTUBE_SITE", <<"/profile_ajax?action_ajax=">>)
    \o Plain("SOCIAL", <<"/pins/friends ", "/pins/get ", "/poczta/">>)
    \o Group("SOCIAL", "/profile/") \o Group("SOCIAL", "/pages/")
    \o Plain("FACEBOOK", <<"/restserver.php">>)
    \o Plain("SOCIAL", <<"/reject/", "/rendering_measurement">>) \o Plain("RTMPT", <<"/send/">>)
    \o Plain("SOCIAL", <<"/social/rpc?st=", "/sledzik/", "/school/">>)
    \o Plain("TWITTER", <<"/search.json?">>) \o Plain("RTMPT", <<"/SEND/">>)
    \o Plain("SOCIAL", <<"/url_validator">>) \o Plain("YOUTUBE_SITE", <<"/video_info_ajax?">>)
    \o Plain("SOCIAL", <<"/watched_events/">>) \o Plain("YOUTUBE_SITE", <<"/watch_actions_ajax?">>)

Rules ==
    [GET |-> GetA \o GetAjax \o GetBC \o GetDE \o GetF \o GetG \o GetHK \o GetMO \o GetP
             \o GetRS \o GetUV \o GetW \o GetXY \o GetDigit,
     POST |-> PostAG \o PostHW]

WebClasses ==
    {"GET", "POST", "YOUTUBE_VIDEO204", "VIDEO_CONTENT"} \cup
    UNION {{t[2] : t \in ToSet(r.tails)} : r \in ToSet(Rules.GET \o Rules.POST \o GetOther)}

First(S) == CHOOSE i \in S : \A j \in S : i <= j
Taking(rules, path) == {i \in DOMAIN rules : IsPrefix(rules[i].head, path)}
Fitting(rule, path) == {j \in DOMAIN rule.tails : IsPrefix(rule.head \o rule.tails[j][1], path)}
ByRules(rules, path, otherwise) ==
    LET taking == Taking(rules, path) IN
    IF taking = {} THEN otherwise
    ELSE LET rule == rules[First(taking)]
             fits == Fitting(rule, path)
         IN  IF fits = {} THEN otherwise ELSE rule.tails[First(fits)][2]

\* Every path there is a rule for gets the class of that rule: no rule hides
\* another, but the one for the logo of Twitter, which begins like a picture
\* of YouTube.
Hidden == {"/i/widget-logo.png"}
RulesMet ==
    \A cmd \in DOMAIN Rules : \A i \in DOMAIN Rules[cmd] :
        LET rule == Rules[cmd][i] IN
        \A j \in DOMAIN rule.tails :
            LET path == rule.head \o rule.tails[j][1] IN
            path \notin Hidden => ByRules(Rules[cmd], path, cmd) = rule.tails[j][2]

\* classify_http_get, classify_http_post: cmd is the class of the rest.
Classify(cmd, path) ==
    ByRules(Rules[cmd], path, IF cmd = "GET" THEN ByRules(GetOther, path, cmd) ELSE cmd)

(***************************************************************************)
(* YouTube.  What a request finds stays in global variables, until the     *)
(* next one of any connection.                                             *)
(***************************************************************************)
YouTubeVideo == {"YOUTUBE_VIDEO", "YOUTUBE_VIDEO204", "YOUTUBE_204"}
YouTubeSite == {"YOUTUBE_SITE", "YOUTUBE_SITE_DIRECT", "YOUTUBE_SITE_EMBED"}

\* The parameters of a request; "none", 0 or a counter of -1 if it has none.
NoParameters == [id |-> "none", itag |-> "none", begin |-> 0, st |-> "none", counter |-> -1,
                 key |-> "none", app |-> "none", client |-> "none", androidcid |-> "none"]
Blank == [id |-> "--", itag |-> "--", seek |-> 0, redir |-> <<0, 0>>, mobile |-> FALSE, device |-> 0]

\* What they may be.
Parameters == [id : STRING, itag : STRING, begin : Nat, st : STRING, counter : Nat \cup {-1},
               key : STRING, app : STRING, client : STRING, androidcid : STRING]
YtVars == [id : STRING, itag : STRING, seek : Nat, redir : Nat \X Nat, mobile : BOOLEAN,
           device : Nat]

\* redir_mode and redir_count.
Redirect(q) ==
    LET count == IF q.counter = -1 THEN 0 ELSE q.counter
        mode == CASE q.counter = -1 /\ q.st = "none" -> 0
                  [] q.counter # -1 /\ q.st = "none" -> 1
                  [] q.counter # -1 /\ q.st = "tcts" -> 2
                  [] q.counter # -1 /\ q.st = "nx" -> 3
                  [] q.counter = -1 /\ q.st = "lc" -> 4
                  [] q.counter = -1 /\ q.st = "nx" -> 5
                  [] OTHER -> 6
    IN  <<mode, CASE mode = 0 -> 0 [] mode = 1 -> count [] OTHER -> count + 1>>

Mobile(q) == \/ q.key = "yt1" /\ q.app = "youtube_mobile"
             \/ q.key \notin {"none", "yt1"}

Apple == {"ytapi-apple", "iPhone"}
Device(q) ==
    CASE q.client \in Apple -> 1
      [] q.client = "mvapp-android" \/ (q.androidcid # "none" /\ q.client \notin Apple) -> 2
      [] q.client \notin Apple \cup {"none", "mvapp-android"} /\ q.androidcid = "none" -> 3
      [] OTHER -> IF q.key \notin {"none", "yt1"} THEN 3 ELSE 0

Or(x, y) == IF x = "none" THEN y ELSE x
\* A video sets all of them, a page of the site the name of its video.
Video(yt, q) == [id |-> Or(q.id, yt.id), itag |-> Or(q.itag, yt.itag), seek |-> q.begin,
                 redir |-> Redirect(q), mobile |-> Mobile(q), device |-> Device(q)]
Parse(yt, class, q) ==
    CASE class \in YouTubeVideo -> Video(yt, q)
      [] class \in YouTubeSite -> [yt EXCEPT !.id = Or(q.id, @)]
      [] OTHER -> yt

\* Before a request is looked at.
Cleared(yt, first) == IF first THEN Blank ELSE [yt EXCEPT !.id = "--", !.itag = "--"]

(***************************************************************************)
(* The categories of the histograms.                                       *)
(***************************************************************************)
\* YTMAP
YtMap(class) == CASE class \in YouTubeVideo -> "YOUTUBE_VIDEO"
                  [] class \in YouTubeSite -> "YOUTUBE_SITE"
                  [] class = "TWITTER" -> "SOCIAL"
                  [] class = "DROPBOX" -> "GET"
                  [] OTHER -> class

Social == {"MSN", "RTMPT", "FACEBOOK", "SOCIAL"}
Videos == {"VIDEO_CONTENT", "VIMEO", "VOD", "FLASHVIDEO"}
Storage == {"RAPIDSHARE", "MEGAUPLOAD", "MEDIAFIRE", "HOTFILE", "STORAGE"}
\* map_http_to_web: isVideo if videoL7 has found a video in the answer.
MapHttpToWeb(class, isVideo) ==
    LET c == YtMap(class) IN
    CASE c \in Social -> "WEB_SOCIAL"
      [] c = "YOUTUBE_VIDEO" -> "WEB_YOUTUBE"
      [] c \notin Social \cup {"YOUTUBE_VIDEO"} /\ isVideo -> "WEB_VIDEO"
      [] c \in {"GET", "POST"} /\ ~isVideo -> IF c = "GET" THEN "WEB_GET" ELSE "WEB_POST"
      [] c \in Videos /\ ~isVideo -> "WEB_VIDEO"
      [] c \in Storage /\ ~isVideo -> "WEB_STORAGE"
      [] OTHER -> "WEB_OTHER"
==============================
