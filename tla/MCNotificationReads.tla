------------------------ MODULE MCNotificationReads ------------------------
(* Instances of NotificationReads for TLC.                                 *)
EXTENDS NotificationReads

Walk(modes, sorts, orders, statuses, sizes) ==
    [mode : modes, sort : sorts, order : orders, status : statuses, asked : sizes]

\* Cursors in the default order, with a page of one row or one above the limit,
\* and over rows that come to match the filter.
CursorWalks ==
    Walk({"keyset", "cursor"}, {"created_at"}, {"desc"}, {""}, {1, 7})
        \union Walk({"keyset"}, {"created_at"}, {"desc"}, {"delivered"}, {1})

\* Page numbers, with a page of one row or of the default size.
OffsetWalks ==
    Walk({"offset"}, {"created_at"}, {"asc", "desc"}, {""}, {1})
        \union Walk({"offset"}, {"created_at", "updated_at"}, {"desc"}, {""}, {0})

AllWalks == CursorWalks \union OffsetWalks
=============================================================================
