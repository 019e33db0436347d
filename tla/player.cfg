SPECIFICATION PlayerSpec
CONSTANTS
    Announcements <- FourAnnouncements
    sender_id = "publisher"
    MaxLost = 1
    channel_size = 1
    MaxChunks = 2
    MaxFailures = 2
INVARIANT AnnouncementsInOrder RecordingKept
PROPERTY AnnouncementsTried Exits
CHECK_DEADLOCK FALSE
