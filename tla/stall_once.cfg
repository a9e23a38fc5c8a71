SPECIFICATION HistorySpec
PROPERTIES StallOncePerProxy
