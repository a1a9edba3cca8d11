---------------------------- MODULE MCCommunity ----------------------------
(* What people do around events, for TLC: the food bank, and scanners,      *)
(* carpools, event pages and their copies, the feed, notifications, badges  *)
(* and interest maps.  They share no state, so each behaviour follows one   *)
(* instance of one of them: `part' names it.  The variables of the other    *)
(* modules hold Absent, those of FoodBank one of its initial states.        *)
(*                                                                          *)
(* Interchangeable values of all parts come from two pairs, so that one     *)
(* small symmetry group serves them all: u1 and u2 (users), x and y         *)
(* (requests in flight, devices, rides, ...; users of the food bank).       *)
EXTENDS FoodBank, TLC

CONSTANTS x, y, u1, u2, None, Absent

Symmetry == Permutations({u1, u2}) \cup Permutations({x, y})

VARIABLES
  part, work, today,
  item, ended, permission, trusted, admitted, log,
  ride, request, message, receipt, accepted,
  night, eventRow, files, stored, donated, late, mail, unseen,
  feed, total, recent, lock, signed, merged, reserved, almost, reader, hidden, lapsed,
  overran,
  rows, count, mixed, tokens, tangled, holder,
  record, badge, lost, choice,
  map, signal, feedback, activity, told, answered, forgotten

scanner == <<item, ended, permission, trusted, admitted, log>>
carpool == <<ride, request, message, receipt, accepted>>
events == <<night, eventRow, files, stored, donated, late, mail, unseen>>
feeds == <<feed, total, recent, lock, signed, merged, reserved, almost, reader,
           hidden, lapsed, overran>>
notices == <<rows, count, mixed, tokens, tangled, holder>>
badges == <<record, badge, lost, choice>>
interests == <<map, signal, feedback, activity, told, answered, forgotten>>

-----------------------------------------------------------------------------
(* Schedules of two windows: two short ones, and one with a clipped end.    *)
TwoSchedules ==
  {[startDate |-> 1, endDate |-> 3, totalMeals |-> 3, slotCapacity |-> 2, slotMinutes |-> 1],
   [startDate |-> 2, endDate |-> 5, totalMeals |-> 2, slotCapacity |-> 1, slotMinutes |-> 2],
   [startDate |-> 1, endDate |-> 3, totalMeals |-> 3, slotCapacity |-> 1, slotMinutes |-> 1]}

(* Two devices of the organiser; two of a scanner who may be permitted; two *)
(* organisers and an item of one of them.                                   *)
OwnerO == [i \in {"t", "r"} |-> "o"]
Door == INSTANCE Scanner WITH Users <- {"o"}, Owners <- {"o"}, Tickets <- {"t"},
          Registrations <- {}, Owner <- OwnerO, Devices <- {x, y}, MaxBulk <- 2
Helper == INSTANCE Scanner WITH Users <- {"s"}, Owners <- {"o"}, Tickets <- {},
            Registrations <- {"r"}, Owner <- OwnerO, Devices <- {x, y}, MaxBulk <- 2
Rival == INSTANCE Scanner WITH Users <- {"o", "p"}, Owners <- {"o", "p"},
           Tickets <- {"t"}, Registrations <- {}, Owner <- OwnerO, Devices <- {"d"},
           MaxBulk <- 1

(* A ride and its chat, one person on two devices; two rides of two people; *)
(* and one whose time changes.                                              *)
Holder == [a |-> "ann", b |-> "bob", c |-> "bob"]
Monday == [e |-> 1]
Chat == INSTANCE Carpool WITH Users <- {"ann", "bob"}, Devices <- {"a", "b", "c"},
          Owner <- Holder, Rides <- {"r"}, Events <- {"e"}, StartDay <- Monday,
          Times <- {1}, NoEvent <- None, NoRide <- None, Seats <- 1, Keys <- {"key"},
          Contents <- {x, y}, MaxRows <- 1, MaxMessages <- 2, MaxPending <- 2
Switch == INSTANCE Carpool WITH Users <- {"ann", "bob"}, Devices <- {"a", "b"},
            Owner <- Holder, Rides <- {x, y}, Events <- {"e"}, StartDay <- Monday,
            Times <- {1}, NoEvent <- None, NoRide <- None, Seats <- 1, Keys <- {},
            Contents <- {}, MaxRows <- 1, MaxMessages <- 0, MaxPending <- 2
Trip == INSTANCE Carpool WITH Users <- {"ann", "bob"}, Devices <- {"a", "b"},
          Owner <- Holder, Rides <- {"r"}, Events <- {"e"}, StartDay <- Monday,
          Times <- {1, 2}, NoEvent <- None, NoRide <- None, Seats <- 1, Keys <- {},
          Contents <- {}, MaxRows <- 1, MaxMessages <- 0, MaxPending <- 2

(* Two edits of one picture; two servers and the mails of an event's report;*)
(* the nightly copy of a daily event.                                       *)
Edit == INSTANCE Events WITH event <- eventRow, Events <- {"e"}, Supporters <- {},
          Calls <- {x, y}, Servers <- {}, Repeats <- {"NONE"}, Retries <- 2,
          MaxFiles <- 3, MaxVersion <- 3, MaxNight <- 0
Report == INSTANCE Events WITH event <- eventRow, Events <- {"e"}, Supporters <- {u1, u2},
            Calls <- {"c"}, Servers <- {x, y}, Repeats <- {"NONE"}, Retries <- 1,
            MaxFiles <- 0, MaxVersion <- 2, MaxNight <- 2
Daily == INSTANCE Events WITH event <- eventRow, Events <- {x, y}, Supporters <- {},
           Calls <- {"c"}, Servers <- {"s"}, Repeats <- {"DAILY"}, Retries <- 1,
           MaxFiles <- 1, MaxVersion <- 1, MaxNight <- 0

(* Donations towards a goal of 4, reported by three payments at once, by two*)
(* while keys expire, and by two while somebody reads; a ticket frenzy, also*)
(* with keys that expire; and tickets with registrations, which have a      *)
(* milestone each, and two frenzies.                                        *)
NoFrenzies == [i \in {} |-> 0]
Quarters == [DONATION |-> {25, 50, 100}]
Goal4 == [DONATION |-> 4]
High == [HIGH |-> 1]
HighLow == [HIGH |-> 2, LOW |-> 1]
Strengths == [HIGH |-> 3, LOW |-> 1]
Gifts == INSTANCE Feed WITH Calls <- {x, y, u1}, Kinds <- {"DONATION"}, Goal <- Goal4,
           Thresholds <- Quarters, Frenzy <- NoFrenzies, Strength <- NoFrenzies,
           Gain <- {1, 4}, Readers <- {}, Limit <- 3, MaxForgets <- 0
Lapses == INSTANCE Feed WITH Calls <- {x, y}, Kinds <- {"DONATION"}, Goal <- Goal4,
            Thresholds <- Quarters, Frenzy <- NoFrenzies, Strength <- NoFrenzies,
            Gain <- {1, 2, 4}, Readers <- {}, Limit <- 3, MaxForgets <- 1
Pages == INSTANCE Feed WITH Calls <- {x, y}, Kinds <- {"DONATION"}, Goal <- Goal4,
           Thresholds <- Quarters, Frenzy <- NoFrenzies, Strength <- NoFrenzies,
           Gain <- {1, 2, 4}, Readers <- {"u"}, Limit <- 2, MaxForgets <- 0
NoGoal == [TICKET |-> 0]
NoThresholds == [TICKET |-> {}]
Rush == INSTANCE Feed WITH Calls <- {x, y, u1}, Kinds <- {"TICKET"}, Goal <- NoGoal,
          Thresholds <- NoThresholds, Frenzy <- High, Strength <- Strengths, Gain <- {1},
          Readers <- {}, Limit <- 3, MaxForgets <- 0
Fading == INSTANCE Feed WITH Calls <- {x, y}, Kinds <- {"TICKET"}, Goal <- NoGoal,
            Thresholds <- NoThresholds, Frenzy <- High, Strength <- Strengths, Gain <- {1},
            Readers <- {}, Limit <- 3, MaxForgets <- 1
TenTickets == [TICKET |-> 10, REGISTRATION |-> 0]
Fours == [TICKET |-> {4}, REGISTRATION |-> {4}]
Sales == INSTANCE Feed WITH Calls <- {x, y}, Kinds <- {"TICKET", "REGISTRATION"},
           Goal <- TenTickets, Thresholds <- Fours, Frenzy <- HighLow,
           Strength <- Strengths, Gain <- {9}, Readers <- {}, Limit <- 3, MaxForgets <- 0

(* Two users' counters; the lists of devices they share.                    *)
Bell == INSTANCE Notifications WITH Users <- {u1, u2}, Calls <- {x, y}, Tokens <- {},
          Nobody <- None, MaxRows <- 2
Phone == INSTANCE Notifications WITH Users <- {u1, u2}, Calls <- {x, y}, Tokens <- {"t"},
           Nobody <- None, MaxRows <- 0

(* One gift read twice at once; gifts over events and months; what counts   *)
(* for attendance and volunteering; what a host is credited with.           *)
EndDays == <<2, 1>>
Months == <<1, 2, 2>>
Of(metric, target, giving) == [metric |-> metric, target |-> target, giving |-> giving]
Rec(source, event_, amount) ==
  [source |-> source, event |-> event_, amount |-> amount, number |-> 1]
Gift == INSTANCE Badges WITH Calls <- {x, y},
          BADGE_CATALOG <- [FIRST_GIFT |-> Of("donations", 1, TRUE)],
          Records <- {Rec("gift", 1, 0)}, EndDay <- EndDays, Month <- Months, MaxDay <- 2
Backing == INSTANCE Badges WITH Calls <- {"c"},
             BADGE_CATALOG <- [COMMUNITY_BACKER |-> Of("donatedEvents", 2, TRUE),
                               STEADY_GIVER |-> Of("donationMonths", 2, TRUE)],
             Records <- {Rec("gift", 1, 0), Rec("gift", 2, 0)}, EndDay <- EndDays,
             Month <- Months, MaxDay <- 2
Helping == INSTANCE Badges WITH Calls <- {"c"},
             BADGE_CATALOG <- [FAMILIAR_FACE |-> Of("attendance", 2, FALSE)],
             Records <- {Rec("ticket", 1, 0), Rec("volunteer", 1, 0), Rec("registration", 2, 0)},
             EndDay <- EndDays, Month <- Months, MaxDay <- 2
Working == INSTANCE Badges WITH Calls <- {"c"},
             BADGE_CATALOG <- [HELPING_HAND |-> Of("volunteerEvents", 1, FALSE),
                               TIME_GIVER |-> Of("volunteerMinutes", 2, FALSE)],
             Records <- {Rec("confirmed", 1, 2)}, EndDay <- EndDays, Month <- Months,
             MaxDay <- 2
Hosting == INSTANCE Badges WITH Calls <- {x, y},
             BADGE_CATALOG <- [GATHER_MAKER |-> Of("hostedEvents", 1, FALSE),
                               IMPACT_STORYTELLER |-> Of("impactReports", 1, FALSE)],
             Records <- {Rec("guest", 1, 0), Rec("report", 1, 0)}, EndDay <- EndDays,
             Month <- Months, MaxDay <- 2

(* One event and two transactions at once; two events of one topic; every   *)
(* way to take part; and a map deleted and drawn again.                     *)
Food == [e \in {"e", x, y} |-> {"Food"}]
DayTwo == [e \in {"e", x, y} |-> 2]
Attend == [e \in {"e", x, y} |-> {"ATTEND"}]
Help == [e |-> {"DONATE", "VOLUNTEER"}]
Survey == INSTANCE InterestMap WITH Events <- {"e"}, eventTopics <- Food,
            EndDay <- DayTwo, Offers <- Attend, Kinds <- {}, Calls <- {x, y}, Window <- 3,
            MaxDay <- 3, MaxMaps <- 1
Topic == INSTANCE InterestMap WITH Events <- {x, y}, eventTopics <- Food,
           EndDay <- DayTwo, Offers <- Attend, Kinds <- {}, Calls <- {"c"}, Window <- 2,
           MaxDay <- 3, MaxMaps <- 1
Learning == INSTANCE InterestMap WITH Events <- {"e"}, eventTopics <- Food,
              EndDay <- DayTwo, Offers <- Help, Kinds <- {"LIKE"}, Calls <- {"c"},
              Window <- 1, MaxDay <- 3, MaxMaps <- 1
Again == INSTANCE InterestMap WITH Events <- {"e"}, eventTopics <- Food, EndDay <- DayTwo,
           Offers <- Attend, Kinds <- {"LIKE", "VIEW"}, Calls <- {"c"}, Window <- 1,
           MaxDay <- 3, MaxMaps <- 2

-----------------------------------------------------------------------------
Off(v) == v = Absent
NoScanner == /\ Off(item) /\ Off(ended) /\ Off(permission) /\ Off(trusted)
             /\ Off(admitted) /\ Off(log)
NoCarpool == Off(ride) /\ Off(request) /\ Off(message) /\ Off(receipt) /\ Off(accepted)
NoEvents == /\ Off(night) /\ Off(eventRow) /\ Off(files) /\ Off(stored)
            /\ Off(donated) /\ Off(late) /\ Off(mail) /\ Off(unseen)
NoFeeds == /\ Off(feed) /\ Off(total) /\ Off(recent) /\ Off(lock) /\ Off(signed)
           /\ Off(merged) /\ Off(reserved) /\ Off(almost) /\ Off(reader)
           /\ Off(hidden) /\ Off(lapsed) /\ Off(overran)
NoNotices == /\ Off(rows) /\ Off(count) /\ Off(mixed) /\ Off(tokens) /\ Off(tangled)
             /\ Off(holder)
NoBadges == Off(record) /\ Off(badge) /\ Off(lost) /\ Off(choice)
NoInterests == /\ Off(map) /\ Off(signal) /\ Off(feedback) /\ Off(activity)
               /\ Off(told) /\ Off(answered) /\ Off(forgotten)

(* One initial state of FoodBank.                                           *)
Still == Init /\ event = CHOOSE e \in Settings : assertFoodBankSettings(e)

CommunityInit ==
  \/ /\ part = "food bank" /\ Init /\ NoScanner /\ NoCarpool /\ NoEvents /\ NoFeeds
     /\ NoNotices /\ NoBadges /\ NoInterests /\ Off(work) /\ Off(today)
  \/ /\ Still /\ NoCarpool /\ NoEvents /\ NoFeeds /\ NoNotices /\ NoBadges
     /\ NoInterests /\ Off(today)
     /\ \/ part = "Door" /\ Door!Init
        \/ part = "Helper" /\ Helper!Init
        \/ part = "Rival" /\ Rival!Init
  \/ /\ Still /\ NoScanner /\ NoEvents /\ NoFeeds /\ NoNotices /\ NoBadges
     /\ NoInterests /\ Off(today)
     /\ \/ part = "Chat" /\ Chat!Init
        \/ part = "Switch" /\ Switch!Init
        \/ part = "Trip" /\ Trip!Init
  \/ /\ Still /\ NoScanner /\ NoCarpool /\ NoFeeds /\ NoNotices /\ NoBadges
     /\ NoInterests /\ Off(today)
     /\ \/ part = "Edit" /\ Edit!Init
        \/ part = "Report" /\ Report!Init
        \/ part = "Daily" /\ Daily!Init
  \/ /\ Still /\ NoScanner /\ NoCarpool /\ NoEvents /\ NoNotices /\ NoBadges
     /\ NoInterests /\ Off(today)
     /\ \/ part = "Gifts" /\ Gifts!Init
        \/ part = "Lapses" /\ Lapses!Init
        \/ part = "Pages" /\ Pages!Init
        \/ part = "Rush" /\ Rush!Init
        \/ part = "Fading" /\ Fading!Init
        \/ part = "Sales" /\ Sales!Init
  \/ /\ Still /\ NoScanner /\ NoCarpool /\ NoEvents /\ NoFeeds /\ NoBadges
     /\ NoInterests /\ Off(today)
     /\ \/ part = "Bell" /\ Bell!Init
        \/ part = "Phone" /\ Phone!Init
  \/ /\ Still /\ NoScanner /\ NoCarpool /\ NoEvents /\ NoFeeds /\ NoNotices /\ NoInterests
     /\ \/ part = "Gift" /\ Gift!Init
        \/ part = "Backing" /\ Backing!Init
        \/ part = "Helping" /\ Helping!Init
        \/ part = "Working" /\ Working!Init
        \/ part = "Hosting" /\ Hosting!Init
  \/ /\ Still /\ NoScanner /\ NoCarpool /\ NoEvents /\ NoFeeds /\ NoNotices /\ NoBadges
     /\ \/ part = "Survey" /\ Survey!Init
        \/ part = "Topic" /\ Topic!Init
        \/ part = "Learning" /\ Learning!Init
        \/ part = "Again" /\ Again!Init

CommunityNext ==
  \/ /\ part = "food bank"
     /\ UNCHANGED <<part, work, today, scanner, carpool, events, feeds, notices, badges,
                    interests>>
     /\ Next
  \/ /\ part \in {"Door", "Helper", "Rival"}
     /\ UNCHANGED <<part, vars, today, carpool, events, feeds, notices, badges,
                    interests>>
     /\ \/ part = "Door" /\ Door!Next
        \/ part = "Helper" /\ Helper!Next
        \/ part = "Rival" /\ Rival!Next
  \/ /\ part \in {"Chat", "Switch", "Trip"}
     /\ UNCHANGED <<part, vars, today, scanner, events, feeds, notices, badges,
                    interests>>
     /\ \/ part = "Chat" /\ Chat!Next
        \/ part = "Switch" /\ Switch!Next
        \/ part = "Trip" /\ Trip!Next
  \/ /\ part \in {"Edit", "Report", "Daily"}
     /\ UNCHANGED <<part, vars, today, scanner, carpool, feeds, notices, badges,
                    interests>>
     /\ \/ part = "Edit" /\ Edit!Next
        \/ part = "Report" /\ Report!Next
        \/ part = "Daily" /\ Daily!Next
  \/ /\ part \in {"Gifts", "Lapses", "Pages", "Rush", "Fading", "Sales"}
     /\ UNCHANGED <<part, vars, today, scanner, carpool, events, notices, badges,
                    interests>>
     /\ \/ part = "Gifts" /\ Gifts!Next
        \/ part = "Lapses" /\ Lapses!Next
        \/ part = "Pages" /\ Pages!Next
        \/ part = "Rush" /\ Rush!Next
        \/ part = "Fading" /\ Fading!Next
        \/ part = "Sales" /\ Sales!Next
  \/ /\ part \in {"Bell", "Phone"}
     /\ UNCHANGED <<part, vars, today, scanner, carpool, events, feeds, badges,
                    interests>>
     /\ \/ part = "Bell" /\ Bell!Next
        \/ part = "Phone" /\ Phone!Next
  \/ /\ part \in {"Gift", "Backing", "Helping", "Working", "Hosting"}
     /\ UNCHANGED <<part, vars, scanner, carpool, events, feeds, notices, interests>>
     /\ \/ part = "Gift" /\ Gift!Next
        \/ part = "Backing" /\ Backing!Next
        \/ part = "Helping" /\ Helping!Next
        \/ part = "Working" /\ Working!Next
        \/ part = "Hosting" /\ Hosting!Next
  \/ /\ part \in {"Survey", "Topic", "Learning", "Again"}
     /\ UNCHANGED <<part, vars, scanner, carpool, events, feeds, notices, badges>>
     /\ \/ part = "Survey" /\ Survey!Next
        \/ part = "Topic" /\ Topic!Next
        \/ part = "Learning" /\ Learning!Next
        \/ part = "Again" /\ Again!Next

all == <<part, vars, work, today, scanner, carpool, events, feeds, notices, badges,
         interests>>
CommunitySpec == CommunityInit /\ [][CommunityNext]_all

(* A bulk scan admits nobody twice, only staff of the event admit, and the  *)
(* statistics are of people who were admitted.                              *)
ScannerSafe ==
  /\ part = "Door" => Door!ScannerSafe
  /\ part = "Helper" => Helper!ScannerSafe
  /\ part = "Rival" => Rival!ScannerSafe

(* A retried message is stored once, only members of a ride speak in its chat,*)
(* only accepted passengers are removed, and only they are let into the chat*)
CarpoolSafe ==
  /\ part = "Chat" => Chat!CarpoolSafe
  /\ part = "Switch" => Switch!CarpoolSafe
  /\ part = "Trip" => Trip!CarpoolSafe

(* The picture of an event exists, a dashboard edit replaces what its user  *)
(* was shown, and everybody who donated in time is mailed the impact report.*)
EventsSafe ==
  /\ part = "Edit" => Edit!EventsSafe
  /\ part = "Report" => Report!EventsSafe
  /\ part = "Daily" => Daily!EventsSafe

(* A milestone and a frenzy are published once, a reader misses nothing, the*)
(* unread counter counts, and a phone is notified for who signed in on it.  *)
FeedSafe ==
  /\ part = "Gifts" => Gifts!FeedSafe
  /\ part = "Lapses" => Lapses!FeedSafe
  /\ part = "Pages" => Pages!FeedSafe
  /\ part = "Rush" => Rush!FeedSafe
  /\ part = "Fading" => Fading!FeedSafe
  /\ part = "Sales" => Sales!FeedSafe
  /\ part = "Bell" => Bell!NotificationsSafe
  /\ part = "Phone" => Phone!NotificationsSafe

(* Badges are not awarded on activity that is gone, their privacy is chosen,*)
(* and the interest map follows what its user did, answered and forgot.     *)
ProfileSafe ==
  /\ part = "Gift" => Gift!BadgesSafe
  /\ part = "Backing" => Backing!BadgesSafe
  /\ part = "Helping" => Helping!BadgesSafe
  /\ part = "Working" => Working!BadgesSafe
  /\ part = "Hosting" => Hosting!BadgesSafe
  /\ part = "Survey" => Survey!InterestsSafe
  /\ part = "Topic" => Topic!InterestsSafe
  /\ part = "Learning" => Learning!InterestsSafe
  /\ part = "Again" => Again!InterestsSafe
=============================================================================
