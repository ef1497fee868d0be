SPECIFICATION FairSpec
CONSTANTS NakLimit = 2 RetryLimit = 2 MaxPktSize = 8 ReportLen = 8 DescPackets = 2 MaxReports = 3
INVARIANTS DescriptorExact
PROPERTIES NeverBack ReportsInOrder ReportsArrive
