SPECIFICATION Spec
CONSTANTS NakLimit = 2 RetryLimit = 2 MaxPktSize = 4 ReportLen = 4 DescPackets = 2 MaxReports = 3
PROPERTIES NakMeansNoNewData
